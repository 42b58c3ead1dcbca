-------------------------- MODULE ConversationNames --------------------------
(***************************************************************************)
(* The title and the tags of one conversation: PATCH by its user, from     *)
(* several devices, and POST /autoname, which reads the conversation,      *)
(* waits for a model to name it, and writes what it made of what it read.  *)
(* Each request has a session of its own, which writes the columns that    *)
(* differ from what it read.                                               *)
(***************************************************************************)
EXTENDS Naturals, Sequences, FiniteSetsExt, SequencesExt

CONSTANTS
  Caller,                   \* the requests under way at once
  Title, DefaultTitle,      \* titles a user may give, and those that stand for none
  Made, Derived,            \* the title of the model, and that of the first message
  Nothing,
  Tag, MaxTags,
  MaxCallers                \* bound: requests of a behaviour

ASSUME TitleAssumption ==
  /\ DefaultTitle \subseteq Title /\ {Made, Derived, Nothing} \cap Title = {}
  /\ MaxTags \in Nat /\ MaxCallers \in Nat

VARIABLES
  conv,     \* the row
  request,  \* the requests, with the row as each read it
  settled,  \* the title and the tags of the last PATCH, when it met no other request
  made      \* how many requests were made

nameVars == <<conv, request, settled, made>>

AnyTitle == Title \cup {Made, Derived}
TagLists == {tags \in SeqOf(Tag, MaxTags) : IsInjective(tags)}
Conv == [live : BOOLEAN, title : AnyTitle, tags : TagLists]
Free == [pc |-> "free", title |-> Nothing, tags |-> << >>]

NamesTypeOK ==
  /\ conv \in Conv
  /\ request \in [Caller -> [pc : {"free", "patch", "autoname", "delete"},
                             title : AnyTitle \cup {Nothing}, tags : TagLists]]
  /\ settled \in [title : AnyTitle \cup {Nothing}, tags : SUBSET Tag]
  /\ made \in 0 .. MaxCallers

NamesInit ==
  /\ conv \in [live : {TRUE}, title : DefaultTitle, tags : {<< >>}]
  /\ request = [r \in Caller |-> Free]
  /\ settled = [title |-> Nothing, tags |-> {}] /\ made = 0

\* Each route reads the row first; a message in the conversation is what there is to name.
Read(r, route) ==
  /\ request[r].pc = "free" /\ conv.live /\ made < MaxCallers
  /\ request' = [request EXCEPT ![r] = [pc |-> route, title |-> conv.title, tags |-> conv.tags]]
  /\ made' = made + 1
  /\ UNCHANGED <<conv, settled>>

\* UPDATE of the columns that differ from what the session read.
WriteBack(r, title, tags) ==
  [conv EXCEPT !.title = IF title = request[r].title THEN @ ELSE title,
               !.tags = IF tags = request[r].tags THEN @ ELSE tags]

Alone(r) ==
  /\ \A q \in Caller \ {r} : request[q].pc = "free"
  /\ request[r].title = conv.title /\ request[r].tags = conv.tags

\* PATCH of the title, of the tags, or of both; an UPDATE of a deleted row fails.
PatchNames(r) ==
  /\ request[r].pc = "patch"
  /\ \E title \in Title \cup {Nothing}, tags \in TagLists \cup {Nothing} :
       LET newTitle == IF title = Nothing THEN request[r].title ELSE title
           newTags == IF tags = Nothing THEN request[r].tags ELSE tags IN
       IF conv.live
       THEN /\ conv' = WriteBack(r, newTitle, newTags)
            /\ settled' = IF Alone(r)
                          THEN [title |-> IF title = Nothing THEN settled.title ELSE title,
                                tags |-> IF tags = Nothing THEN settled.tags ELSE ToSet(tags)]
                          ELSE [title |-> Nothing, tags |-> {}]
       ELSE UNCHANGED <<conv, settled>>
  /\ request' = [request EXCEPT ![r] = Free]
  /\ made' = made

\* Mutant: the new tags come first.
MutMerge(old, more) == SubSeq(more \o old, 1, Min({MaxTags, Len(more \o old)}))

\* The tags of the conversation, then those of the model that are new, as many as fit.
Merge(old, more) == SubSeq(old \o more, 1, Min({MaxTags, Len(old \o more)}))

\* What a model may propose that the tags do not have, in its order and each once.
Additions(old) == {more \in TagLists : ToSet(more) \cap ToSet(old) = {}}

\* A conversation without a name gets the title of the model, or of its first message.
NewTitle(read, title) ==
  IF read \in DefaultTitle THEN (IF title = Nothing THEN Derived ELSE title) ELSE read

\* autoname_conversation after _llm_meta: no model, an answer that is no JSON, or a title and tags.
\* It changes what the session read long ago; a failure is rolled back.
Autoname(r) ==
  /\ request[r].pc = "autoname"
  /\ \E title \in {Made, Nothing}, more \in Additions(request[r].tags) :
       conv' = IF conv.live
               THEN WriteBack(r, NewTitle(request[r].title, title), Merge(request[r].tags, more))
               ELSE conv
  /\ request' = [request EXCEPT ![r] = Free]
  /\ UNCHANGED <<settled, made>>

DeleteConversation(r) ==
  /\ request[r].pc = "delete"
  /\ conv' = [conv EXCEPT !.live = FALSE]
  /\ request' = [request EXCEPT ![r] = Free]
  /\ UNCHANGED <<settled, made>>

NamesNext ==
  \E r \in Caller :
    \/ \E route \in {"patch", "autoname", "delete"} : Read(r, route)
    \/ PatchNames(r) \/ Autoname(r) \/ DeleteConversation(r)

-----------------------------------------------------------------------------

\* What the user asked for while no other request was under way stays: no naming that
\* begins later changes the title or removes a tag, however many devices
\* ask for one at once, and however their merges cross.
NamesAreKept ==
  /\ settled.title \notin DefaultTitle \cup {Nothing} => conv.title = settled.title
  /\ settled.tags \subseteq ToSet(conv.tags)

\* The route of the naming says that it names a conversation again only when its title is
\* still the default one: a title that the user gave is not overwritten.
UserTitleStays ==
  [][conv.title \in Title \ DefaultTitle => conv'.title \in Title]_nameVars

=============================================================================
