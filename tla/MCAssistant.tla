----------------------------- MODULE MCAssistant -----------------------------
(***************************************************************************)
(* What the tools of a reply do, each in a scene of its own: a call that   *)
(* is approved and run in a container, the runs of desktop actions, the    *)
(* macros and sub-agents of a reply, the files and the rows of a user's    *)
(* memory, the gallery of images, the documents of the RAG, the tokens of  *)
(* Spotify, and the delegations of a workspace.                            *)
(***************************************************************************)
EXTENDS ToolApproval, DesktopBridge, BuiltinTurn, MemoryFiles, MemoryRows, ImageGallery,
  Documents, SpotifyTokens, Workspaces

CONSTANT Scenes

VARIABLE scene

MCText == [f \in File |->
  CASE f = "short" -> << <<3, 2>>, <<5>>, <<2>> >>
    [] f = "long" -> << <<1>>, <<4, 4, 3, 9>>, <<6, 4>> >>
    [] f = "blank" -> << >>]
MCSlugOf == [n \in MacroName |-> "s"]

Rest(of) ==
  /\ of # "tool" => UNCHANGED vars
  /\ of # "bridge" => UNCHANGED bridgeVars
  /\ of # "turn" => UNCHANGED turnVars
  /\ of # "files" => UNCHANGED memoryVars
  /\ of # "rows" => UNCHANGED rowsVars
  /\ of # "gallery" => UNCHANGED galleryVars
  /\ of # "documents" => UNCHANGED documentVars
  /\ of # "spotify" => UNCHANGED spotifyVars
  /\ of # "workspace" => UNCHANGED workspaceVars

StillTool ==
  /\ Init
  /\ scene # "tool" => tool.asks
StillBridge ==
  /\ BridgeInit
  /\ scene # "bridge" => caps /\ \A r \in Run : run[r].kind = "action"
StillMemory ==
  /\ MemoryInit
  /\ \A p, q \in Process : work[p].name = work[q].name

MCInit ==
  /\ scene \in Scenes
  /\ StillTool /\ StillBridge /\ TurnInit /\ StillMemory /\ RowsInit /\ GalleryInit
  /\ DocumentsInit /\ SpotifyInit /\ WorkspaceInit

MCNext ==
  /\ \/ scene = "tool" /\ Next
     \/ scene = "bridge" /\ BridgeNext
     \/ scene = "turn" /\ TurnNext
     \/ scene = "files" /\ MemoryNext
     \/ scene = "rows" /\ RowsNext
     \/ scene = "gallery" /\ GalleryNext
     \/ scene = "documents" /\ DocumentsNext
     \/ scene = "spotify" /\ SpotifyNext
     \/ scene = "workspace" /\ WorkspaceNext
  /\ Rest(scene)
  /\ scene' = scene

MCVars ==
  <<vars, bridgeVars, turnVars, memoryVars, rowsVars, galleryVars, documentVars, spotifyVars,
    workspaceVars, scene>>

\* The fairness of each component, in its scene.
MCFair ==
  /\ WF_vars(scene = "tool" /\ Tick)
  /\ \A c \in Call : WF_vars(scene = "tool" /\ Reply(c))
  /\ \A d \in Decider : WF_vars(scene = "tool" /\ DecideWrite(d))
  /\ \A r \in Run :
       /\ WF_bridgeVars(scene = "bridge" /\ AskStep(r))
       /\ WF_bridgeVars(scene = "bridge" /\ (PollStep(r) \/ TimeOut(r)))
  /\ \A t \in Turn : WF_turnVars(scene = "turn" /\ TurnStep(t))

MCSpec == MCInit /\ [][MCNext]_MCVars /\ MCFair

\* Calls of tools, runs of macros and replies with their sub-agents all end, whatever
\* the user, Redis and the desktop application do.
WorkEnds == CallsEnd /\ RunsEnd /\ (scene = "turn" => TurnsEnd)

=============================================================================
