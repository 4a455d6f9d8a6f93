------------------------------- MODULE ChatPage -------------------------------
(***************************************************************************)
(* The chatbot page with several conversations, and what the API keeps of  *)
(* them for each user.  Everything the page does about the API is a call   *)
(* whose answer comes later: by then the user may have gone to another     *)
(* conversation, removed one, or logged in as somebody else.               *)
(*                                                                         *)
(* What a single turn writes and how the page folds it is ChatTurn's       *)
(* business; here a message of the assistant is live, waits for the user,  *)
(* or is settled.                                                          *)
(***************************************************************************)
EXTENDS Naturals, FiniteSets, FiniteSetsExt

CONSTANTS
  Users,
  Conversations, \* conversation ids
  Requests,      \* chat and resume requests, numbered as they are sent
  InitialStores, \* what the API holds at the start
  Workloads,     \* bounds, one of which a behaviour is in: requests sent,
                 \* changes of conversation, removals, logins, and mishaps:
                 \* failing calls and misread errors
  Nil

VARIABLES
  stored,   \* API: stored[u][c] is the set of messages of c, or Nil
  asks,     \* API: the message whose interrupt the thread of c waits on, or Nil
  req,      \* requests: stage, user, conv, key and msg on the page
  user,     \* page: who is logged in
  list,     \* conversations in the sidebar
  drafts,   \* those of them that nothing was sent to
  view,     \* messageMap: view[k][m], k a conversation or Nil
  active,   \* activeKey; Nil is ''
  resolved, \* hasResolvedInitialConversation
  reading,    \* requests whose answer the page still reads
  requesting, \* isRequesting
  stop,       \* the chat request abortRef stops, or Nil
  ready,      \* the forms on show were drawn while isRequesting was false
  load,     \* the history request of this session
  removals, \* deletions under way
  tree,     \* whose files the workspace panel shows
  fetches,  \* tree requests under way
  used,     \* ids that were given out
  crossed,  \* history: something changed under a removal, or no history was loaded
  midway,   \* history: the conversation changed under a request or a fetch
  skipped,  \* history: conversations in which a message was sent past an open
            \* form, or anything past an answer still to come, or in which an
            \* error was taken for an interrupt
  phantoms, \* history: removed at the API, but the page was told otherwise
  missed,   \* history: places whose last tree request failed
  budget    \* what is left of the workload

api     == <<stored, asks, req>>
sidebar == <<list, drafts, active>>
panel   == <<tree, fetches>>
talk    == <<reading, requesting, stop, ready>>
ghosts  == <<crossed, midway, skipped, phantoms, missed>>
vars    == <<api, user, sidebar, view, resolved, talk, load, removals, panel,
             used, ghosts, budget>>

Keys     == Conversations \cup {Nil}
Shown    == {"none", "live", "waiting", "settled", "restored"}
Stages   == {"sent", "running", "waiting", "over", "lost"}
Loaded   == [Conversations -> (SUBSET Requests) \cup {Nil}]
Budget   == [sends : Nat, moves : Nat, removals : Nat, logins : Nat, mishaps : Nat]

Request  == [stage : Stages, user : Users, conv : Conversations, key : Keys,
             msg : Requests, chat : BOOLEAN]

ASSUME PageAssumption ==
  /\ Requests \subseteq Nat
  /\ Nil \notin Conversations /\ Nil \notin Requests /\ Nil \notin Request
  /\ \A s \in SUBSET Requests : s # Nil
  /\ InitialStores \subseteq [Users -> Loaded]
  /\ \A s \in InitialStores : \E c \in Conversations : \A u \in Users : s[u][c] = Nil
  /\ Workloads \subseteq Budget

NoView == [k \in Keys |-> [m \in Requests |-> "none"]]
Place(k, u) == [conv |-> k, user |-> u]
NewLoad(u) == [user |-> u, stage |-> "sent", snap |-> Nil]

\* createInitialChatState: a draft until the history is there.
Init ==
  /\ stored \in InitialStores
  /\ asks = [c \in Conversations |-> Nil]
  /\ req = [r \in Requests |-> Nil]
  /\ user \in Users
  /\ LET old == {c \in Conversations : \E u \in Users : stored[u][c] # Nil}
         d == CHOOSE c \in Conversations \ old : TRUE
     IN  /\ list = {d} /\ drafts = {d} /\ active = d
         /\ used = {d} \cup old
         /\ fetches = {Place(d, user)}
  /\ view = NoView
  /\ resolved = FALSE
  /\ reading = {} /\ requesting = FALSE /\ stop = Nil /\ ready = TRUE
  /\ load = NewLoad(user)
  /\ removals = {}
  /\ tree = Nil
  /\ crossed = FALSE /\ midway = FALSE /\ skipped = {} /\ phantoms = {} /\ missed = {}
  /\ budget \in Workloads

\* createId: an id nobody has seen.
Fresh == LET unused == Conversations \ used
         IN  IF unused = {} THEN {} ELSE {CHOOSE c \in unused : TRUE}
Pay(what) == budget[what] > 0 /\ budget' = [budget EXCEPT ![what] = @ - 1]
AtWork(r) == req[r] # Nil /\ req[r].stage \in {"sent", "running"}
\* An answer in c is still to come, at the API or on the page.
Awaits(c) == \E q \in Requests : /\ AtWork(q) \/ q \in reading
                                /\ req[q] # Nil /\ req[q].conv = c

\* (Operators marked "Defect" are not the program: each is a plausible bug in
\* the definition that follows it, which the properties must detect.)
\* Defect: the panel is not asked to follow.
ActivateOnly(k) == active' = k /\ UNCHANGED <<fetches, midway>>
\* The effect of refreshWorkspaceTree, whose identity changes with activeKey.
Activate(k) ==
  /\ active' = k
  /\ IF k = active THEN UNCHANGED <<fetches, midway>>
     ELSE /\ fetches' = fetches \cup {Place(k, user)}
          /\ midway' = (midway \/ fetches # {} \/ reading # {})

-----------------------------------------------------------------------------
(* Sending, answering forms, and the end of a response.                     *)

NextRequest == {r \in Requests : \A q \in Requests : (req[q] = Nil) <=> (q >= r)}

\* The first message of the conversation that waits: the one whose requestId
\* the chunks of a resume are folded into.
PendingMessage(k) == Min({m \in Requests : view[k][m] = "waiting"})
HasForm(k) == \E m \in Requests : view[k][m] = "waiting"

\* sendMessage.  Without a key the API makes up an id, which the page does not
\* learn.
SendMessage ==
  /\ ~requesting
  /\ Pay("sends")
  /\ \E r \in NextRequest, c \in IF active = Nil THEN Fresh ELSE {active} :
       /\ req' = [req EXCEPT ![r] = [stage |-> "sent", user |-> user, conv |-> c,
                                     key |-> active, msg |-> r, chat |-> TRUE]]
       /\ view' = [view EXCEPT ![active][r] = "live"]
       /\ reading' = reading \cup {r} /\ stop' = r
       /\ used' = used \cup {c}
       /\ skipped' = IF HasForm(active) \/ Awaits(c) THEN skipped \cup {c} ELSE skipped
  /\ requesting' = TRUE /\ ready' = FALSE
  /\ drafts' = drafts \ {active}
  /\ UNCHANGED <<stored, asks, user, list, active, resolved, load, removals, panel,
                 crossed, midway, phantoms, missed>>

\* resumePendingInterrupt, whichever form of the conversation was submitted.
\* The forms are drawn anew (useMemo) when the messages on show change, not
\* when isRequesting does: until the answer's first chunk a form can be
\* submitted again.
SubmitForm ==
  /\ ready
  /\ active # Nil /\ HasForm(active)
  /\ Pay("sends")
  /\ \E r \in NextRequest :
       /\ req' = [req EXCEPT ![r] = [stage |-> "sent", user |-> user, conv |-> active,
                                     key |-> active, msg |-> PendingMessage(active),
                                     chat |-> FALSE]]
       /\ reading' = reading \cup {r}
  /\ requesting' = TRUE
  /\ skipped' = IF Awaits(active) THEN skipped \cup {active} ELSE skipped
  /\ UNCHANGED <<stored, asks, user, sidebar, view, resolved, stop, ready, load, removals,
                 panel, used, crossed, midway, phantoms, missed>>

\* The finally clauses; only that of sendMessage refreshes the workspace, of
\* the conversation that was active when the message was sent.  isRequesting is
\* false from then on, also while another answer is being read.
Release(r) ==
  /\ reading' = reading \ {r}
  /\ requesting' = FALSE
  /\ stop' = IF stop = r THEN Nil ELSE stop
  /\ ready' = (ready \/ req[r].key = active)
  /\ fetches' = IF req[r].chat THEN fetches \cup {Place(req[r].key, user)} ELSE fetches
  /\ midway' = (midway \/ active # req[r].key)

\* Defect: a form that was answered stays open.
ShowLive(r, how) ==
  view' = [view EXCEPT ![req[r].key][req[r].msg] = IF @ = "live" THEN how ELSE @]
\* The page's message for a request; one that was restored does not carry its
\* requestId.
Show(r, how) ==
  view' = [view EXCEPT ![req[r].key][req[r].msg] =
             IF @ \in {"none", "restored"} THEN @ ELSE how]

\* A chunk before the last one; text takes a form away.
ChunkArrives(r) ==
  /\ r \in reading /\ req[r].stage \in {"running", "waiting", "over"}
  /\ \/ UNCHANGED view
     \/ ~req[r].chat /\ Show(r, "live")
  /\ ready' = IF req[r].key = active THEN ~requesting ELSE ready
  /\ UNCHANGED <<api, user, sidebar, resolved, reading, requesting, stop, load, removals,
                 panel, used, ghosts, budget>>

FinishReading(r) ==
  /\ r \in reading /\ req[r].stage \in {"waiting", "over"}
  /\ Show(r, IF req[r].stage = "waiting" THEN "waiting" ELSE "settled")
  /\ Release(r)
  /\ UNCHANGED <<api, user, sidebar, resolved, load, removals, tree, used, crossed,
                 skipped, phantoms, missed, budget>>

\* The stop button, which a resume ignores.
Abort ==
  /\ requesting /\ stop # Nil
  /\ Show(stop, "settled")
  /\ Release(stop)
  /\ UNCHANGED <<api, user, sidebar, resolved, load, removals, tree, used, crossed,
                 skipped, phantoms, missed, budget>>

\* The connection breaks; the request may not have got to the API at all.
ConnectionLost(r) ==
  /\ r \in reading
  /\ Pay("mishaps")
  /\ Show(r, "settled")
  /\ Release(r)
  /\ \/ UNCHANGED req
     \/ /\ req[r].stage = "sent"
        /\ req' = [req EXCEPT ![r].stage = "lost"]
  /\ UNCHANGED <<stored, asks, user, sidebar, resolved, load, removals, tree, used,
                 crossed, skipped, phantoms, missed>>

-----------------------------------------------------------------------------
(* The API's side of a request.                                             *)

Record(r) ==
  LET u == req[r].user  c == req[r].conv IN
    stored' = [stored EXCEPT ![u][c] = IF @ = Nil THEN {r} ELSE @ \cup {r}]

\* appendUserMessage and ensureAssistantMessage; new input gives up an
\* interrupt, its answer is taken from the checkpoint.
RequestStarts(r) ==
  /\ req[r] # Nil /\ req[r].stage = "sent"
  /\ req' = [req EXCEPT ![r].stage = "running"]
  /\ Record(r)
  /\ asks' = [asks EXCEPT ![req[r].conv] = Nil]
  /\ UNCHANGED <<user, sidebar, view, resolved, talk, load, removals, panel, used,
                 ghosts, budget>>

\* finalizeAssistantMessage, which recreates a conversation that is gone.
Finalize(r, stage, asked) ==
  /\ req[r] # Nil /\ req[r].stage = "running"
  /\ req' = [req EXCEPT ![r].stage = stage]
  /\ Record(r)
  /\ asks' = [asks EXCEPT ![req[r].conv] = asked]
  /\ UNCHANGED <<user, sidebar, view, resolved, talk, load, removals, panel, used,
                 crossed, midway, phantoms, missed>>

RequestEnds(r, stage) ==
  /\ Finalize(r, stage, IF stage = "waiting" THEN r ELSE Nil)
  /\ UNCHANGED <<skipped, budget>>

\* A tool error is taken for an interrupt of the graph, which holds none.
ErrorMisread(r) ==
  /\ Pay("mishaps")
  /\ Finalize(r, "waiting", Nil)
  /\ skipped' = skipped \cup {req[r].conv}

-----------------------------------------------------------------------------
(* Moving between conversations, making and removing them.                  *)

\* Other messages come on show.
Redraw == ready' = ~requesting

SwitchTo(k) ==
  /\ k \in list /\ k # active
  /\ Pay("moves")
  /\ Activate(k) /\ Redraw
  /\ crossed' = (crossed \/ removals # {})
  /\ UNCHANGED <<api, user, list, drafts, view, resolved, reading, requesting, stop, load,
                 removals, tree, used, skipped, phantoms, missed>>

NewChat ==
  /\ Pay("moves")
  /\ \E d \in Fresh :
       /\ list' = list \cup {d} /\ drafts' = drafts \cup {d} /\ used' = used \cup {d}
       /\ Activate(d) /\ Redraw
  /\ crossed' = (crossed \/ removals # {})
  /\ UNCHANGED <<api, user, view, resolved, reading, requesting, stop, load, removals,
                 tree, skipped, phantoms, missed>>

\* Defect: the removed conversation stays the active one.
TakeOffOnly(k, seen) ==
  /\ list' = list \ {k} /\ drafts' = drafts \ {k}
  /\ view' = [view EXCEPT ![k] = NoView[k]]
  /\ UNCHANGED <<used, active, talk, fetches, midway>>
\* Defect: what is known of a draft stays.
TakeOffList(k, seen) ==
  /\ list' = list \ {k}
  /\ UNCHANGED <<view, drafts, used, active, talk, fetches, midway>>
\* The rest of removeConversation, with the activeKey its closure has seen.  The
\* chat request that abortRef holds is aborted, be it of that conversation or of
\* another; the page notices before or after it draws the next one.
TakeOff(k, seen) ==
  LET rest == list \ {k}
      aborts == rest # {} /\ seen = k /\ stop # Nil
      gone == [view EXCEPT ![k] = NoView[k]]
  IN  /\ view' = IF aborts /\ req[stop].key # k
                 THEN [gone EXCEPT ![req[stop].key][stop] =
                         IF @ \in {"none", "restored"} THEN @ ELSE "settled"]
                 ELSE gone
      /\ reading' = IF aborts THEN reading \ {stop} ELSE reading
      /\ requesting' = (requesting /\ ~aborts)
      /\ stop' = IF aborts THEN Nil ELSE stop
      /\ IF rest = {}
         THEN /\ \E d \in Fresh : /\ list' = {d} /\ drafts' = {d} /\ used' = used \cup {d}
                                  /\ Activate(d)
              /\ Redraw
         ELSE /\ list' = rest /\ drafts' = drafts \ {k} /\ UNCHANGED used
              /\ IF seen # k
                 THEN /\ UNCHANGED <<active, fetches, midway>>
                      /\ ready' = IF k = active THEN ~requesting ELSE ready
                 ELSE \E n \in rest :
                        /\ active' = n
                        /\ fetches' = fetches \cup {Place(n, user)}
                             \cup (IF aborts THEN {Place(req[stop].key, user)} ELSE {})
                        /\ midway' = (midway \/ fetches # {} \/ reading # {})
                        /\ IF n # active \/ (aborts /\ req[stop].key = n)
                           THEN ready' \in {~requesting, aborts \/ ~requesting}
                           ELSE UNCHANGED ready

RemoveDraft(k) ==
  /\ k \in drafts
  /\ Pay("removals")
  /\ TakeOff(k, active)
  /\ crossed' = (crossed \/ removals # {})
  /\ UNCHANGED <<api, user, resolved, load, removals, tree, skipped, phantoms, missed>>

RemoveConversation(k) ==
  /\ k \in list \ drafts
  /\ Pay("removals")
  /\ removals' = removals \cup {[conv |-> k, user |-> user, seen |-> active,
                                 stage |-> "sent"]}
  /\ crossed' = (crossed \/ removals # {} \/ load.stage # "over")
  /\ UNCHANGED <<api, user, sidebar, view, resolved, talk, load, panel, used, midway,
                 skipped, phantoms, missed>>

\* The API removes both files, or answers 404, which leaves the conversation on
\* the page.
RemovalServed(d) ==
  /\ d \in removals /\ d.stage = "sent"
  /\ IF stored[d.user][d.conv] = Nil
     THEN removals' = removals \ {d} /\ UNCHANGED <<stored, asks>>
     ELSE /\ stored' = [stored EXCEPT ![d.user][d.conv] = Nil]
          /\ asks' = [asks EXCEPT ![d.conv] = Nil]
          /\ removals' = (removals \ {d}) \cup {[d EXCEPT !.stage = "done"]}
  /\ UNCHANGED <<req, user, sidebar, view, resolved, talk, load, panel, used, ghosts,
                 budget>>

RemovalDone(d) ==
  /\ d \in removals /\ d.stage = "done"
  /\ removals' = removals \ {d}
  /\ TakeOff(d.conv, d.seen)
  /\ UNCHANGED <<api, user, resolved, load, tree, crossed, skipped, phantoms, missed, budget>>

\* The call or its answer is lost: the page takes it that nothing was removed.
RemovalLost(d) ==
  /\ d \in removals
  /\ Pay("mishaps")
  /\ removals' = removals \ {d}
  /\ phantoms' = IF d.stage = "done" THEN phantoms \cup {d.conv} ELSE phantoms
  /\ UNCHANGED <<api, user, sidebar, view, resolved, talk, load, panel, used, crossed,
                 midway, skipped, missed>>

-----------------------------------------------------------------------------
(* Sessions, the history and the workspace panel.                           *)

\* Defect: the answer to the session before is still taken.
ReloadLate(u) == IF load.stage = "over" THEN NewLoad(u) ELSE load
\* The history of the new session; `cancelled` drops the answer of the old one.
Reload(u) == NewLoad(u)

\* Login or logout: subscribeUserChange clears the page, whatever it follows.
SetSession(u) ==
  /\ u # user
  /\ Pay("logins")
  /\ user' = u
  /\ list' = {} /\ drafts' = {} /\ active' = Nil
  /\ view' = NoView
  /\ resolved' = FALSE
  /\ load' = Reload(u)
  /\ tree' = Nil
  /\ fetches' = IF active = Nil THEN fetches ELSE fetches \cup {Place(Nil, u)}
  /\ midway' = (midway \/ fetches # {} \/ reading # {})
  /\ crossed' = (crossed \/ removals # {})
  /\ phantoms' = {}
  /\ Redraw
  /\ UNCHANGED <<api, reading, requesting, stop, removals, used, skipped, missed>>

LoadServed ==
  /\ load.stage = "sent"
  /\ load' = [load EXCEPT !.stage = "served", !.snap = stored[load.user]]
  /\ UNCHANGED <<api, user, sidebar, view, resolved, talk, removals, panel, used,
                 ghosts, budget>>

\* What was loaded replaces the page's conversations and messages, also those
\* of a request that is at work; the active one comes from the URL, or stays,
\* or is the first.
LoadArrives ==
  /\ load.stage = "served"
  /\ load' = [load EXCEPT !.stage = "over", !.snap = Nil]
  /\ resolved' = TRUE
  /\ LET there == {c \in Conversations : load.snap[c] # Nil} IN
       IF there = {}
       THEN /\ \E d \in Fresh : /\ list' = {d} /\ drafts' = {d} /\ used' = used \cup {d}
                                /\ Activate(d)
            /\ view' = NoView
       ELSE /\ list' = there /\ drafts' = {} /\ UNCHANGED used
            /\ \E a \in there : Activate(a)
            /\ view' = [k \in Keys |-> [m \in Requests |->
                          IF k # Nil /\ k \in there /\ m \in load.snap[k]
                          THEN "restored" ELSE "none"]]
  /\ Redraw
  /\ UNCHANGED <<api, user, reading, requesting, stop, removals, tree, crossed, skipped,
                 phantoms, missed, budget>>

LoadFails ==
  /\ load.stage \in {"sent", "served"}
  /\ Pay("mishaps")
  /\ load' = [load EXCEPT !.stage = "over", !.snap = Nil]
  /\ resolved' = TRUE
  /\ crossed' = (crossed \/ active = Nil)
  /\ UNCHANGED <<api, user, sidebar, view, talk, removals, panel, used, midway, skipped,
                 phantoms, missed>>

TreeArrives(f) ==
  /\ f \in fetches
  /\ fetches' = fetches \ {f}
  /\ tree' = f
  /\ missed' = missed \ {f}
  /\ UNCHANGED <<api, user, sidebar, view, resolved, talk, load, removals, used, crossed,
                 midway, skipped, phantoms, budget>>

\* The old tree stays.
TreeFails(f) ==
  /\ f \in fetches
  /\ Pay("mishaps")
  /\ fetches' = fetches \ {f}
  /\ missed' = missed \cup {f}
  /\ UNCHANGED <<api, user, sidebar, view, resolved, talk, load, removals, tree, used,
                 crossed, midway, skipped, phantoms>>

Next ==
  \/ SendMessage \/ SubmitForm \/ Abort
  \/ \E r \in Requests : ChunkArrives(r) \/ FinishReading(r) \/ ConnectionLost(r)
  \/ \E r \in Requests :
       \/ RequestStarts(r) \/ ErrorMisread(r)
       \/ \E s \in {"waiting", "over"} : RequestEnds(r, s)
  \/ \E k \in Conversations : SwitchTo(k) \/ RemoveDraft(k) \/ RemoveConversation(k)
  \/ NewChat
  \/ \E d \in removals : RemovalServed(d) \/ RemovalDone(d) \/ RemovalLost(d)
  \/ \E u \in Users : SetSession(u)
  \/ LoadServed \/ LoadArrives \/ LoadFails
  \/ \E f \in fetches : TreeArrives(f) \/ TreeFails(f)

Spec == Init /\ [][Next]_vars

-----------------------------------------------------------------------------
(* The page and the API hold conversations, messages and requests of the    *)
(* expected shapes.                                                         *)
TypeOK ==
  /\ stored \in [Users -> Loaded]
  /\ asks \in [Conversations -> Requests \cup {Nil}]
  /\ req \in [Requests -> Request \cup {Nil}]
  /\ user \in Users /\ list \subseteq Conversations /\ drafts \subseteq list
  /\ view \in [Keys -> [Requests -> Shown]]
  /\ active \in Keys /\ resolved \in BOOLEAN
  /\ reading \subseteq Requests /\ stop \in reading \cup {Nil}
  /\ requesting \in BOOLEAN /\ ready \in BOOLEAN
  /\ load \in [user : Users, stage : {"sent", "served", "over"}, snap : Loaded \cup {Nil}]
  /\ tree \in [conv : Keys, user : Users] \cup {Nil}
  /\ fetches \subseteq [conv : Keys, user : Users]
  /\ budget \in Budget

(* Once the history is there, the conversation on show is one of the        *)
(* sidebar, unless the user moved on, removed another one or logged in      *)
(* anew while a removal was under way, or the history of a new session      *)
(* could not be loaded.                                                     *)
ActiveIsListed == resolved /\ ~crossed => active \in list

(* The sidebar offers only conversations that the API holds for the user    *)
(* who is logged in, or that a request of the user is about to create: one  *)
(* of somebody else, or one that was removed, does not show up.  Exempt are *)
(* a removal whose answer was lost, until the next session, and what the    *)
(* user changes while a removal is under way.                               *)
ListedAreStored ==
  ~crossed =>
    \A c \in list \ drafts :
      \/ stored[user][c] # Nil \/ c \in phantoms
      \/ \E d \in removals : d.conv = c
      \/ \E r \in Requests : /\ req[r] # Nil /\ req[r].conv = c /\ req[r].user = user
                             /\ req[r].stage \in {"sent", "running", "lost"}

(* When nothing is under way the workspace panel shows the files of the     *)
(* active conversation, unless the last request for them failed, or the     *)
(* user changed the conversation while a response or another tree was still *)
(* to come.                                                                 *)
TreeOfActive ==
  fetches = {} /\ active # Nil /\ ~midway =>
    tree = Place(active, user) \/ Place(active, user) \in missed

(* A form on the page is one the agent waits for: once no answer is read in *)
(* a conversation, it shows one only as long as the graph holds its         *)
(* interrupt, also when it was left, removed, reloaded or stopped in the    *)
(* meantime.  Exempt is a conversation in which a message was sent past an  *)
(* open form, or a message or a second answer past one still at work, or in *)
(* which the handler took a tool's error for an interrupt, and one whose    *)
(* removal was answered by an error.                                        *)
OpenFormsAreAsked ==
  \A c \in list \ (skipped \cup phantoms) : \A m \in Requests :
    (/\ view[c][m] = "waiting"
     /\ \A r \in reading : req[r].key # c
     /\ \A d \in removals : d.conv # c)
      => asks[c] # Nil
=============================================================================
