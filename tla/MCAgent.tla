------------------------------ MODULE MCAgent ------------------------------
(***************************************************************************)
(* What the agent of a node does besides running llama-server, each in a   *)
(* scene of its own: the pipeline of images, the downloads of models with  *)
(* the page that follows them, the configuration of llama-server over      *)
(* machines and models as they are sold, and the reports to the backend.   *)
(***************************************************************************)
EXTENDS ImagePipe, ModelDownloads, NodeHardware, AgentPulse

CONSTANT Scenes

VARIABLE scene

AllMixes == {AllOps, {"generate", "pull"}}

Box ==
  [force |-> FALSE, smi |-> FALSE, nvidia |-> << >>, libcuda |-> FALSE, rocmSmi |-> FALSE,
   rocm |-> 0, drm |-> << >>, ram |-> 16000, cores |-> 4, logical |-> 8]
Apu == [driver |-> "amdgpu", apu |-> TRUE, mb |-> 8192, visible |-> 8192]
Radeon == [driver |-> "amdgpu", apu |-> FALSE, mb |-> 20480, visible |-> 256]
Intel == [driver |-> "other", apu |-> FALSE, mb |-> 0, visible |-> 0]
MCMachine ==
  {[Box EXCEPT !.ram = r, !.cores = 1] : r \in {4000, 64000}}
  \cup {[Box EXCEPT !.smi = TRUE, !.nvidia = n, !.libcuda = TRUE] : n \in {<<3900>>, <<8188>>, <<24564, 24564>>}}
  \cup {[Box EXCEPT !.smi = TRUE, !.nvidia = <<8188>>]}
  \cup {[Box EXCEPT !.rocmSmi = TRUE, !.rocm = v, !.drm = <<Radeon>>] : v \in {0, 20464}}
  \cup {[Box EXCEPT !.drm = d] : d \in {<<Apu>>, <<Intel, Radeon>>}}
  \cup {[Box EXCEPT !.smi = TRUE, !.nvidia = <<8188>>, !.libcuda = TRUE, !.force = TRUE]}
MCGguf == {[mb |-> 400, layers |-> 16], [mb |-> 4900, layers |-> 33],
           [mb |-> 18000, layers |-> 0], [mb |-> 40000, layers |-> 80]}

MCInit ==
  /\ scene \in Scenes
  /\ Init /\ DownloadInit /\ HardwareInit /\ PulseInit
  /\ scene # "pulse" => naming.pc = "off"
  /\ scene # "image" => ops = AllOps
  /\ scene # "hardware" => seen.ram = 64000

MCNext ==
  /\ \/ scene = "image" /\ Next /\ UNCHANGED <<downloadVars, hardwareVars, pulseVars>>
     \/ scene = "downloads" /\ DownloadNext /\ UNCHANGED <<vars, hardwareVars, pulseVars>>
     \/ scene = "hardware" /\ HardwareNext /\ UNCHANGED <<vars, downloadVars, pulseVars>>
     \/ scene = "pulse" /\ PulseNext /\ UNCHANGED <<vars, downloadVars, hardwareVars>>
  /\ scene' = scene

MCVars == <<vars, downloadVars, hardwareVars, pulseVars, scene>>

\* The fairness of each component in its scene.  The page of a download hears from its node
\* again and again, and the backend from the agent, whose watchdog works.
MCFair ==
  /\ \A t \in Thread : SF_vars(scene = "image" /\ Work(t))
  /\ \A i \in 1 .. MaxPulls : WF_downloadVars(scene = "downloads" /\ (FetchBegins(i) \/ FetchEnds(i)))
  /\ \A f \in File : WF_downloadVars(scene = "downloads" /\ Poll(f))
  /\ SF_downloadVars(scene = "downloads" /\ \E f \in File : Tick(f, "done") \/ Tick(f, "error"))
  /\ WF_pulseVars(scene = "pulse" /\ (PulseBegins \/ PulsePosts \/ PulseEnds))
  /\ WF_pulseVars(scene = "pulse" /\ \E i \in Post : Deliver(i))
  /\ WF_pulseVars(scene = "pulse" /\ (NamingStarts \/ NamingReady \/ (NamingFails /\ ~naming.alive)))

MCSpec == MCInit /\ [][MCNext]_MCVars /\ MCFair

\* Every request of an image returns, every popup of a download comes to its end, and what the
\* backend knows of the servers of a node settles on what they are.
AgentWorkEnds == GenerationsEnd /\ FollowingEnds /\ RowSettles

=============================================================================
