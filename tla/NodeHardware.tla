---------------------------- MODULE NodeHardware ----------------------------
(***************************************************************************)
(* What the agent takes its machine for, and the configuration of          *)
(* llama-server it derives from it for each model: the probe of the boot,  *)
(* the optimal configuration of a load, the patches of an administrator    *)
(* and the guard that refuses layers to a GPU that is not there.           *)
(***************************************************************************)
EXTENDS Integers, Sequences

CONSTANTS
  Machine,   \* machines, as the tools and the files of the system show them
  Gguf,      \* model files: their MB and layers, 0 when the header is unreadable
  Patch,     \* the layers PATCH /config asks for, or Same
  Same, NoConfig

Card == [driver : {"amdgpu", "other"}, apu : BOOLEAN, mb : Nat, visible : Nat]

ASSUME MachineAssumption ==
  /\ \A h \in Machine :
       /\ {h.force, h.smi, h.libcuda, h.rocmSmi} \subseteq BOOLEAN
       /\ h.nvidia \in Seq(Nat) /\ h.rocm \in Nat
       /\ h.drm \in Seq(Card)
       /\ h.ram \in Nat /\ h.cores \in Nat \ {0} /\ h.logical >= h.cores
  /\ \A g \in Gguf : g.mb \in Nat \ {0} /\ g.layers \in Nat

VARIABLES
  seen,     \* the machine as the probe of the last boot saw it
  model,    \* _current_model and _current_config
  conf,
  running,
  patch,    \* the configuration a restart task waits with for _load_lock
  tuned     \* was conf computed for this model, and not patched?

hardwareVars == <<seen, model, conf, running, patch, tuned>>

-----------------------------------------------------------------------------
(* probe_capabilities                                                      *)

Cpu == [class |-> "cpu", vram |-> 0, count |-> 0]
Gpu(class, vram, count) == [class |-> class, vram |-> vram, count |-> count]

\* nvidia-smi lists cards, and libcuda can use them.
NvidiaUsable(h) == h.smi /\ h.nvidia # << >> /\ h.libcuda
VramOf(cards) ==
  LET sum[i \in 0 .. Len(cards)] == IF i = 0 THEN 0 ELSE sum[i - 1] + cards[i]
  IN sum[Len(cards)]

\* An APU: by its name, by a memory that is all visible and small, or very small.
IsApu(c) == c.apu \/ (c.visible = c.mb /\ c.mb < 16384) \/ c.mb < 4096

\* The cards of amdgpu that have a memory; only the first is looked at.
AmdCards(h) == {i \in DOMAIN h.drm : h.drm[i].driver = "amdgpu" /\ h.drm[i].mb > 0}
FirstAmd(h) == h.drm[CHOOSE i \in AmdCards(h) : \A j \in AmdCards(h) : i <= j]

Probe(h) ==
  IF h.force THEN Cpu
  ELSE IF NvidiaUsable(h) THEN Gpu("cuda", VramOf(h.nvidia), Len(h.nvidia))
  ELSE IF h.rocmSmi /\ h.rocm > 0 THEN Gpu("rocm", h.rocm, 1)
  ELSE IF AmdCards(h) # {} /\ ~IsApu(FirstAmd(h)) THEN Gpu("rocm", FirstAmd(h).mb, 1)
  ELSE Cpu

-----------------------------------------------------------------------------
(* compute_optimal_config; the contexts in units of 1024 tokens            *)

Larger(a, b) == IF a >= b THEN a ELSE b
Smaller(a, b) == IF a <= b THEN a ELSE b

AllLayers == -1
MaxThreads == 16
Overhead == 1024   \* _GPU_OVERHEAD_MB
PartialCtx == 8    \* _PARTIAL_OFFLOAD_CTX

\* _estimate_kv_cache_mb: 2.0e-5 per token and byte of the model.
KvCache(ctx, mb) == Larger(256, (mb * ctx * 64) \div 3125)

\* The tiers of VRAM.
TierCtx(vram) ==
  CASE vram >= 40000 -> 128
    [] vram \in 24000 .. 39999 -> 64
    [] vram \in 16000 .. 23999 -> 32
    [] vram \in 8000 .. 15999 -> 16
    [] vram \in 4000 .. 7999 -> 8
    [] OTHER -> 4
TierSlots(vram) ==
  CASE vram >= 80000 -> 8
    [] vram \in 40000 .. 79999 -> 4
    [] vram \in 16000 .. 39999 -> 2
    [] OTHER -> 1

\* Mutant: the cache of the context is left out of the budget.
MutFitGpuLayers(vram, g, ctx) ==
  IF g.mb + KvCache(ctx, g.mb) + Overhead <= vram \/ g.layers = 0
  THEN [layers |-> AllLayers, ctx |-> ctx, slots |-> TierSlots(vram)]
  ELSE LET budget == vram - Overhead IN
       [layers |-> IF budget <= 0 THEN 0
                   ELSE Smaller(g.layers, budget \div Larger(1, g.mb \div g.layers)),
        ctx |-> Smaller(ctx, PartialCtx), slots |-> 1]

\* _fit_gpu_layers: the whole model, or the layers that fit beside a smaller context.
FitGpuLayers(vram, g, ctx) ==
  IF g.mb + KvCache(ctx, g.mb) + Overhead <= vram \/ g.layers = 0
  THEN [layers |-> AllLayers, ctx |-> ctx, slots |-> TierSlots(vram)]
  ELSE LET fit == Smaller(ctx, PartialCtx)
           budget == vram - KvCache(fit, g.mb) - Overhead IN
       [layers |-> IF budget <= 0 THEN 0
                   ELSE Smaller(g.layers, budget \div Larger(1, g.mb \div g.layers)),
        ctx |-> fit, slots |-> 1]

\* The largest context whose cache fits in the memory beside the model and the system.
CpuCtx(ram, mb) ==
  LET budget == ram - mb - 2048
      fits == {2} \cup {k \in {4, 8, 16} : budget >= 256 /\ KvCache(k, mb) <= budget} IN
  CHOOSE k \in fits : \A j \in fits : j <= k

Threads(h) == Larger(1, Smaller(MaxThreads, IF h.cores > 2 THEN h.cores - 1 ELSE h.cores))
BatchThreads(h) == Larger(Threads(h), Smaller(MaxThreads, h.logical))

Optimal(c, h, g) ==
  IF c.class = "cpu"
  THEN [layers |-> 0, ctx |-> CpuCtx(h.ram, g.mb), slots |-> 1,
        threads |-> Threads(h), batch |-> BatchThreads(h)]
  ELSE LET fitted == FitGpuLayers(c.vram, g, TierCtx(c.vram)) IN
       [layers |-> fitted.layers, ctx |-> fitted.ctx, slots |-> fitted.slots,
        threads |-> 0, batch |-> 0]   \* 0: llama.cpp chooses

-----------------------------------------------------------------------------

\* _build_cmd: no layer for a GPU on a node without one.
Refused(config) == Probe(seen).class = "cpu" /\ config.layers # 0

Booted(h) ==
  /\ seen' = h /\ model' = NoConfig /\ conf' = NoConfig
  /\ running' = FALSE /\ patch' = NoConfig /\ tuned' = FALSE

HardwareInit ==
  /\ seen \in Machine /\ model = NoConfig /\ conf = NoConfig
  /\ running = FALSE /\ patch = NoConfig /\ tuned = FALSE

\* start() stops the server before it looks at the configuration, and keeps the model and the
\* configuration of the last one that it spawned.
StartWith(g, config, mine) ==
  IF Refused(config)
  THEN running' = FALSE /\ UNCHANGED <<model, conf, tuned>>
  ELSE running' = TRUE /\ model' = g /\ conf' = config /\ tuned' = mine

\* POST /models/load or the autoload of the boot: configured for this model, on the machine
\* that the boot saw.
LoadGguf(g) ==
  /\ StartWith(g, Optimal(Probe(seen), seen, g), TRUE)
  /\ UNCHANGED <<seen, patch>>

\* PATCH /config changes fields of the configuration of this moment.
PatchConf ==
  /\ running /\ patch = NoConfig
  /\ \E layers \in Patch :
       patch' = IF layers = Same THEN conf ELSE [conf EXCEPT !.layers = layers]
  /\ UNCHANGED <<seen, model, conf, running, tuned>>

\* _restart_task gets the lock: it restarts the model of that moment, which is another
\* one when a load came first.
RestartPatched ==
  /\ patch # NoConfig /\ patch' = NoConfig
  /\ StartWith(model, patch, FALSE)
  /\ UNCHANGED seen

UnloadGguf ==
  /\ running /\ running' = FALSE
  /\ UNCHANGED <<seen, model, conf, patch, tuned>>

\* The agent starts again, on a machine whose drivers or cards may have changed.
Reboot == \E h \in Machine : Booted(h)

HardwareNext ==
  \/ PatchConf \/ RestartPatched \/ UnloadGguf \/ Reboot
  \/ \E g \in Gguf : LoadGguf(g)

HardwareSpec == HardwareInit /\ [][HardwareNext]_hardwareVars

-----------------------------------------------------------------------------

\* Weights, cache of the context and what else the server needs, in the memory that it
\* would take them from: the least context is taken whatever the memory, a
\* model whose layers are unknown is left to llama.cpp, and the
\* reserve of the GPU absorbs the rounding of the layers.
FitsMemory(c, ram, g, config) ==
  IF c.class = "cpu"
  THEN config.layers = 0 /\ (config.ctx = 2 \/ g.mb + KvCache(config.ctx, g.mb) + 2048 <= ram)
  ELSE \/ g.layers = 0 \/ config.layers = 0
       \/ /\ config.layers = AllLayers
          /\ g.mb + KvCache(config.ctx, g.mb) + Overhead <= c.vram
       \/ /\ config.layers \in 1 .. g.layers
          /\ (config.layers * g.mb) \div g.layers + KvCache(config.ctx, g.mb) <= c.vram

\* A server runs with a configuration its own guard accepts; the one that was computed for its
\* model fits in the memory of the machine (compute_optimal_config: no OOM), and asks
\* for layers only where the probe found a GPU, through any sequence of boots
\* on changed hardware, loads, refused and accepted patches.
ConfigFits ==
  running =>
    /\ ~Refused(conf)
    /\ tuned => FitsMemory(Probe(seen), seen.ram, model, conf)

=============================================================================
