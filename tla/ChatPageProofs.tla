---------------------------- MODULE ChatPageProofs ----------------------------
(***************************************************************************)
(* Proofs about ChatPage for every number of users, conversations,         *)
(* requests, removals, logins and mishaps.                                 *)
(***************************************************************************)
EXTENDS ChatPage, WellFoundedInduction, TLAPS

(* The conversation on show is listed, or none is and the history is still  *)
(* to come.  A removal under way is the only one, was asked for while the   *)
(* conversation on show was this one, and no history can come under it.     *)
ListedInv ==
  ~crossed =>
    /\ active \in list \/ (active = Nil /\ ~resolved)
    /\ removals # {} => load.stage = "over"
    /\ \A d, e \in removals : d = e
    /\ \A d \in removals : d.seen = active /\ "seen" \in DOMAIN d

LEMMA TakeOffListed ==
  ASSUME NEW k, TakeOff(k, active), active \in list \/ (active = Nil /\ ~resolved),
         UNCHANGED resolved
  PROVE  active' \in list' \/ (active' = Nil /\ ~resolved')
<1>1. CASE list \ {k} = {}
  BY <1>1 DEF TakeOff, Activate
<1>2. CASE list \ {k} # {}
  BY <1>2 DEF TakeOff
<1>3. QED
  BY <1>1, <1>2

\* What happens to messages and requests concerns no conversation as such.
Talk ==
  \/ SendMessage \/ SubmitForm \/ Abort
  \/ \E r \in Requests : ChunkArrives(r) \/ FinishReading(r) \/ ConnectionLost(r)
  \/ \E r \in Requests :
       \/ RequestStarts(r) \/ ErrorMisread(r)
       \/ \E s \in {"waiting", "over"} : RequestEnds(r, s)

LEMMA TalkFacts ==
  Talk => UNCHANGED <<user, list, active, resolved, load, removals, tree, crossed, phantoms,
                      missed>>
BY DEF Talk, SendMessage, SubmitForm, ChunkArrives, FinishReading, Abort, ConnectionLost,
       RequestStarts, RequestEnds, ErrorMisread, Finalize, sidebar, panel, ghosts

LEMMA NextListed == ListedInv /\ [Next]_vars => ListedInv'
<1> SUFFICES ASSUME ListedInv, [Next]_vars, ~crossed' PROVE ListedInv'
  BY DEF ListedInv
<1> USE DEF ListedInv
<1>1. CASE Talk
  BY <1>1, TalkFacts
<1>2. ASSUME NEW k \in Conversations, SwitchTo(k) PROVE ListedInv'
  BY <1>2 DEF SwitchTo, Activate
<1>3. ASSUME NEW k \in Conversations, RemoveDraft(k) PROVE ListedInv'
  <2>1. removals = {} /\ ~crossed /\ UNCHANGED <<removals, resolved>> /\ TakeOff(k, active)
    BY <1>3 DEF RemoveDraft
  <2>2. QED
    BY <2>1, TakeOffListed
<1>4. ASSUME NEW k \in Conversations, RemoveConversation(k) PROVE ListedInv'
  <2>1. /\ removals = {} /\ ~crossed /\ load.stage = "over"
        /\ UNCHANGED <<list, active, resolved, load>>
    BY <1>4 DEF RemoveConversation, sidebar
  <2>2. removals' = {[conv |-> k, user |-> user, seen |-> active, stage |-> "sent"]}
    BY <1>4, <2>1 DEF RemoveConversation
  <2>3. QED
    BY <2>1, <2>2
<1>5. CASE NewChat
  BY <1>5 DEF NewChat, Activate
<1>6. ASSUME NEW d \in removals, RemovalServed(d) PROVE ListedInv'
  BY <1>6 DEF RemovalServed, sidebar, ghosts
<1>7. ASSUME NEW d \in removals, RemovalDone(d) PROVE ListedInv'
  <2>1. removals' = {} /\ ~crossed /\ UNCHANGED resolved /\ TakeOff(d.conv, active)
    BY <1>7 DEF RemovalDone
  <2>2. QED
    BY <2>1, TakeOffListed
<1>8. ASSUME NEW u \in Users, SetSession(u) PROVE ListedInv'
  BY <1>8 DEF SetSession
<1>9. CASE LoadServed
  BY <1>9 DEF LoadServed, sidebar, ghosts
<1>10. CASE LoadArrives
  BY <1>10 DEF LoadArrives, Activate
<1>11. CASE LoadFails
  BY <1>11 DEF LoadFails, sidebar
<1>12. CASE (\E f \in fetches : TreeArrives(f) \/ TreeFails(f)) \/ UNCHANGED vars
  BY <1>12 DEF TreeArrives, TreeFails, sidebar, ghosts, vars
<1>13. ASSUME NEW d \in removals, RemovalLost(d) PROVE ListedInv'
  BY <1>13 DEF RemovalLost, sidebar
<1>14. QED
  BY <1>1, <1>2, <1>3, <1>4, <1>5, <1>6, <1>7, <1>8, <1>9, <1>10, <1>11, <1>12, <1>13
  DEF Next, Talk

(* Once the history is there, the conversation on show is one of the        *)
(* sidebar: whatever is sent, aborted or lost, and however removals and the *)
(* history's answer end.                                                    *)
THEOREM ActiveStaysListed == Spec => []ActiveIsListed
<1>1. Init => ListedInv
  BY DEF Init, ListedInv
<1>2. ListedInv => ActiveIsListed
  BY DEF ListedInv, ActiveIsListed
<1>3. QED
  BY <1>1, <1>2, NextListed, PTL DEF Spec

-----------------------------------------------------------------------------
(* Shapes, as far as the next theorem needs them.                           *)
Shape ==
  /\ stored \in [Users -> Loaded]
  /\ req \in [Requests -> Request \cup {Nil}]
  /\ reading \subseteq Requests /\ \A r \in reading : req[r] # Nil
  /\ stop # Nil => stop \in reading /\ req[stop].chat
  /\ user \in Users /\ list \subseteq Conversations /\ active \in Keys
  /\ load.user = user /\ {"user", "stage", "snap"} \subseteq DOMAIN load
  /\ load.stage \in {"sent", "served", "over"}
  /\ \A d \in removals : /\ {"conv", "user", "seen", "stage"} \subseteq DOMAIN d
                         /\ d.conv \in Conversations /\ d.user \in Users

LEMMA InitShape == Init => Shape
<1> SUFFICES ASSUME Init PROVE Shape
  OBVIOUS
<1>1. \E c \in Conversations : \A u \in Users : stored[u][c] = Nil
  BY PageAssumption DEF Init
<1>2. list \subseteq Conversations /\ active \in Keys
  BY <1>1 DEF Init, Keys
<1>3. QED
  BY <1>2, PageAssumption DEF Init, Shape, NewLoad

LEMMA FreshIsId == Fresh \subseteq Conversations
BY DEF Fresh

\* There is a first message of those that wait.
LEMMA MinOfNaturals ==
  ASSUME NEW T \in SUBSET Nat, T # {}
  PROVE  Min(T) \in T
<1> DEFINE R == OpToRel(<, Nat)
<1>1. \A x, y \in Nat : y < x => <<y, x>> \in R
  BY DEF OpToRel
<1>2. IsWellFoundedOn(R, Nat)
  BY NatLessThanWellFounded
<1> HIDE DEF R
<1>3. PICK x \in T : \A y \in T : ~(<<y, x>> \in R)
  BY <1>2, WFMin
<1>4. \A y \in T : x <= y
  <2> TAKE y \in T
  <2>1. x \in Nat /\ y \in Nat
    OBVIOUS
  <2>2. ~(y < x)
    BY <1>1, <1>3, <2>1
  <2>3. QED
    BY <2>1, <2>2
<1>5. QED
  BY <1>4 DEF Min

LEMMA PendingIsMessage == \A k : HasForm(k) => PendingMessage(k) \in Requests
BY MinOfNaturals, PageAssumption DEF HasForm, PendingMessage

LEMMA NextIsNew == \A r \in NextRequest : r \in Requests /\ req[r] = Nil
BY PageAssumption DEF NextRequest

LEMMA TakeOffShape ==
  ASSUME Shape, NEW k, NEW seen, TakeOff(k, seen)
  PROVE  /\ list' \subseteq Conversations /\ active' \in Keys
         /\ \/ UNCHANGED <<reading, stop>>
            \/ stop # Nil /\ reading' = reading \ {stop} /\ stop' = Nil
<1>1. CASE list \ {k} = {}
  BY <1>1, FreshIsId DEF TakeOff, Activate, Shape, Keys
<1>2. CASE list \ {k} # {}
  BY <1>2 DEF TakeOff, Shape, Keys
<1>3. QED
  BY <1>1, <1>2

LEMMA RecordShape ==
  ASSUME Shape, NEW r \in Requests, req[r] # Nil, Record(r)
  PROVE  /\ stored' \in [Users -> Loaded]
         /\ stored'[req[r].user][req[r].conv] # Nil
         /\ \A u \in Users, c \in Conversations : stored[u][c] # Nil => stored'[u][c] # Nil
<1> DEFINE u == req[r].user  c == req[r].conv
           new == IF stored[u][c] = Nil THEN {r} ELSE stored[u][c] \cup {r}
<1>1. u \in Users /\ c \in Conversations /\ stored \in [Users -> Loaded]
  BY DEF Shape, Request
<1>2. new \in SUBSET Requests /\ new # Nil
  BY <1>1, PageAssumption DEF Loaded
<1>3. stored' = [stored EXCEPT ![u][c] = new]
  BY DEF Record
<1> HIDE DEF u, c, new
<1>4. /\ stored' \in [Users -> Loaded] /\ stored'[u][c] # Nil
      /\ \A v \in Users, b \in Conversations : stored[v][b] # Nil => stored'[v][b] # Nil
  BY <1>1, <1>2, <1>3 DEF Loaded
<1>5. QED
  BY <1>4 DEF u, c

LEMMA ReadRequests ==
  ASSUME Shape
  PROVE  /\ \A r \in reading : r \in Requests /\ req[r] \in Request /\ req[r] # Nil
         /\ stop # Nil => stop \in reading /\ stop \in Requests /\ req[stop] \in Request
BY DEF Shape

LEMMA ReleaseShape ==
  ASSUME Shape, NEW r \in reading, Release(r)
  PROVE  /\ reading' = reading \ {r}
         /\ stop' # Nil => stop' \in reading' /\ stop' = stop
BY DEF Release, Shape

\* One request moves on.
LEMMA MovesOn ==
  ASSUME Shape, NEW r \in Requests, req[r] # Nil, NEW s \in Stages,
         req' = [req EXCEPT ![r].stage = s]
  PROVE  /\ req' \in [Requests -> Request \cup {Nil}]
         /\ \A q \in Requests \ {r} : req'[q] = req[q]
         /\ req'[r] # Nil /\ req'[r].stage = s /\ req'[r].conv = req[r].conv
         /\ req'[r].key = req[r].key /\ req'[r].msg = req[r].msg
         /\ req'[r].chat = req[r].chat /\ req'[r].user = req[r].user
<1>1. req[r] \in Request /\ [req[r] EXCEPT !.stage = s] \in Request
  BY DEF Shape, Request
<1>2. /\ req'[r] = [req[r] EXCEPT !.stage = s]
      /\ req' \in [Requests -> Request \cup {Nil}]
      /\ \A q \in Requests \ {r} : req'[q] = req[q]
  BY <1>1 DEF Shape
<1>3. QED
  BY <1>1, <1>2, PageAssumption DEF Request

\* The API's side of a request.
Served(r) == RequestStarts(r) \/ ErrorMisread(r) \/ \E s \in {"waiting", "over"} : RequestEnds(r, s)

LEMMA ServedFacts ==
  ASSUME NEW r \in Requests, Served(r)
  PROVE  /\ req[r] # Nil /\ Record(r) /\ UNCHANGED <<talk, drafts, view, fetches, used, removals>>
         /\ \E s \in Stages : req' = [req EXCEPT ![r].stage = s]
         /\ \E a \in Requests \cup {Nil} : asks' = [asks EXCEPT ![req[r].conv] = a]
BY DEF Served, RequestStarts, RequestEnds, ErrorMisread, Finalize, Stages, sidebar, panel

LEMMA TalkShape == Shape /\ Talk => Shape'
<1> SUFFICES ASSUME Shape, Talk PROVE Shape'
  OBVIOUS
<1>0. UNCHANGED <<user, list, active, load, removals>>
  BY TalkFacts
<1>1. CASE SendMessage \/ SubmitForm
  <2>1. PICK r \in NextRequest, new \in Request :
          /\ req' = [req EXCEPT ![r] = new]
          /\ reading' = reading \cup {r} /\ stored' = stored
          /\ UNCHANGED stop \/ (stop' = r /\ new.chat)
    <3>1. CASE SendMessage
      <4>1. PICK r \in NextRequest, c \in Conversations :
              /\ req' = [req EXCEPT ![r] = [stage |-> "sent", user |-> user, conv |-> c,
                                            key |-> active, msg |-> r, chat |-> TRUE]]
              /\ reading' = reading \cup {r} /\ stop' = r /\ UNCHANGED stored
        BY <3>1, FreshIsId DEF SendMessage, Shape, Keys
      <4>2. [stage |-> "sent", user |-> user, conv |-> c, key |-> active, msg |-> r,
             chat |-> TRUE] \in Request
        BY <4>1, NextIsNew DEF Request, Shape, Stages
      <4>3. QED
        BY <4>1, <4>2
    <3>2. CASE SubmitForm
      <4>1. PICK r \in NextRequest :
              /\ req' = [req EXCEPT ![r] = [stage |-> "sent", user |-> user, conv |-> active,
                                            key |-> active, msg |-> PendingMessage(active),
                                            chat |-> FALSE]]
              /\ reading' = reading \cup {r} /\ UNCHANGED <<stop, stored>>
              /\ active \in Conversations /\ PendingMessage(active) \in Requests
        BY <3>2, PendingIsMessage DEF SubmitForm, Shape, Keys
      <4>2. [stage |-> "sent", user |-> user, conv |-> active, key |-> active,
             msg |-> PendingMessage(active), chat |-> FALSE] \in Request
        BY <4>1 DEF Request, Shape, Stages
      <4>3. QED
        BY <4>1, <4>2
    <3>3. QED
      BY <1>1, <3>1, <3>2
  <2>2. r \in Requests /\ req[r] = Nil /\ new # Nil
    BY NextIsNew, PageAssumption
  <2>3. QED
    BY <1>0, <2>1, <2>2 DEF Shape
<1>2. ASSUME NEW r \in Requests, ChunkArrives(r) PROVE Shape'
  BY <1>0, <1>2 DEF ChunkArrives, api, Shape
<1>3. ASSUME NEW r \in reading, Release(r), UNCHANGED <<stored, req>> PROVE Shape'
  BY <1>0, <1>3, ReleaseShape DEF Shape
<1>4. CASE Abort \/ \E r \in Requests : FinishReading(r)
  BY <1>3, <1>4, ReadRequests DEF FinishReading, Abort, api
<1>5. ASSUME NEW r \in Requests, ConnectionLost(r) PROVE Shape'
  <2>1. r \in reading /\ req[r] # Nil /\ Release(r) /\ UNCHANGED stored
    BY <1>5 DEF ConnectionLost, Shape
  <2>2. CASE UNCHANGED req
    BY <1>3, <2>1, <2>2
  <2>3. CASE req' = [req EXCEPT ![r].stage = "lost"]
    <3>1. /\ req' \in [Requests -> Request \cup {Nil}]
          /\ \A q \in Requests \ {r} : req'[q] = req[q]
          /\ req'[r] # Nil /\ req'[r].chat = req[r].chat
      BY <2>1, <2>3, MovesOn DEF Stages
    <3>2. QED
      BY <1>0, <2>1, <3>1, ReleaseShape DEF Shape
  <2>4. QED
    BY <1>5, <2>2, <2>3 DEF ConnectionLost
<1>6. ASSUME NEW r \in Requests, Served(r) PROVE Shape'
  <2>1. /\ req' \in [Requests -> Request \cup {Nil}]
        /\ \A q \in Requests \ {r} : req'[q] = req[q]
        /\ req'[r] # Nil /\ req'[r].chat = req[r].chat
    BY <1>6, ServedFacts, MovesOn
  <2>2. stored' \in [Users -> Loaded] /\ UNCHANGED talk
    BY <1>6, ServedFacts, RecordShape
  <2>3. QED
    BY <1>0, <2>1, <2>2 DEF Shape, talk
<1>7. QED
  BY <1>1, <1>2, <1>4, <1>5, <1>6 DEF Talk, Served

LEMMA NextPageShape == Shape /\ [Next]_vars => Shape'
<1> SUFFICES ASSUME Shape, [Next]_vars PROVE Shape'
  OBVIOUS
<1>1. CASE Talk
  BY <1>1, TalkShape
<1>2. ASSUME NEW k \in Conversations, SwitchTo(k) PROVE Shape'
  BY <1>2 DEF SwitchTo, Activate, Shape, api, Keys
<1>3. ASSUME UNCHANGED <<stored, req, user, load>>, removals' \subseteq removals,
             NEW k, NEW seen, TakeOff(k, seen)
      PROVE  Shape'
  <2>1. /\ list' \subseteq Conversations /\ active' \in Keys
        /\ \/ UNCHANGED <<reading, stop>>
           \/ stop # Nil /\ reading' = reading \ {stop} /\ stop' = Nil
    BY <1>3, TakeOffShape
  <2>2. QED
    BY <1>3, <2>1 DEF Shape
<1>4. ASSUME NEW k \in Conversations, RemoveConversation(k) PROVE Shape'
  <2>1. UNCHANGED <<stored, req, reading, stop, user, list, active, load>>
    BY <1>4 DEF RemoveConversation, api, sidebar, talk
  <2>2. removals' = removals \cup {[conv |-> k, user |-> user, seen |-> active, stage |-> "sent"]}
    BY <1>4 DEF RemoveConversation
  <2>3. QED
    BY <2>1, <2>2 DEF Shape
<1>5. CASE NewChat
  BY <1>5, FreshIsId DEF NewChat, Activate, Shape, api, Keys
<1>6. ASSUME NEW d \in removals, RemovalServed(d) PROVE Shape'
  <2>1. UNCHANGED <<req, reading, stop, user, list, active, load>>
    BY <1>6 DEF RemovalServed, sidebar, talk
  <2>2. stored' = stored \/ stored' = [stored EXCEPT ![d.user][d.conv] = Nil]
    BY <1>6 DEF RemovalServed
  <2>3. stored' \in [Users -> Loaded]
    BY <2>2 DEF Shape, Loaded
  <2>4. removals' \subseteq removals \cup {[d EXCEPT !.stage = "done"]}
    BY <1>6 DEF RemovalServed
  <2>5. QED
    BY <2>1, <2>3, <2>4 DEF Shape
<1>7. ASSUME NEW d \in removals, RemovalDone(d) PROVE Shape'
  BY <1>3, <1>7 DEF RemovalDone, api
<1>8. ASSUME NEW u \in Users, SetSession(u) PROVE Shape'
  BY <1>8 DEF SetSession, Reload, NewLoad, Shape, api, Keys
<1>9. CASE LoadServed \/ LoadFails
  BY <1>9 DEF LoadServed, LoadFails, Shape, api, sidebar, talk
<1>10. CASE LoadArrives
  BY <1>10, FreshIsId DEF LoadArrives, Activate, Shape, api, Keys
<1>11. CASE (\E f \in fetches : TreeArrives(f) \/ TreeFails(f)) \/ UNCHANGED vars
  BY <1>11 DEF TreeArrives, TreeFails, Shape, api, sidebar, talk, vars
<1>12. ASSUME NEW d \in removals, RemovalLost(d) PROVE Shape'
  BY <1>12 DEF RemovalLost, Shape, api, sidebar, talk
<1>13. ASSUME NEW k \in Conversations, RemoveDraft(k) PROVE Shape'
  BY <1>3, <1>13 DEF RemoveDraft, api
<1>14. QED
  BY <1>1, <1>2, <1>4, <1>5, <1>6, <1>7, <1>8, <1>9, <1>10, <1>11, <1>12, <1>13 DEF Next, Talk

-----------------------------------------------------------------------------
(* Every tree that is still to come is one of the conversation on show, and *)
(* if none is, the panel has it already or the last request for it failed.  *)
PanelInv ==
  ~midway =>
    /\ fetches \subseteq {Place(active, user)}
    /\ active # Nil /\ fetches = {} =>
         tree = Place(active, user) \/ Place(active, user) \in missed

LEMMA ActivatePanel ==
  ASSUME PanelInv, NEW k, Activate(k), UNCHANGED <<user, tree, missed>>
  PROVE  PanelInv'
BY DEF PanelInv, Activate

LEMMA TakeOffPanel ==
  ASSUME Shape, PanelInv, NEW k, NEW seen, TakeOff(k, seen), UNCHANGED <<user, tree, missed>>
  PROVE  PanelInv'
<1>1. CASE list \ {k} = {}
  BY <1>1, ActivatePanel DEF TakeOff
<1>2. CASE list \ {k} # {} /\ seen # k
  BY <1>2 DEF TakeOff, PanelInv
<1>3. CASE list \ {k} # {} /\ seen = k
  <2>1. CASE fetches # {} \/ reading # {}
    BY <1>3, <2>1 DEF TakeOff, PanelInv
  <2>2. CASE fetches = {} /\ reading = {}
    <3>1. stop = Nil
      BY <2>2 DEF Shape
    <3>2. fetches' = {Place(active', user)}
      BY <1>3, <2>2, <3>1 DEF TakeOff
    <3>3. QED
      BY <3>2 DEF PanelInv
  <2>3. QED
    BY <2>1, <2>2
<1>4. QED
  BY <1>1, <1>2, <1>3

LEMMA NextPanel == Shape /\ PanelInv /\ [Next]_vars => PanelInv'
<1> SUFFICES ASSUME Shape, PanelInv, [Next]_vars PROVE PanelInv'
  OBVIOUS
<1>1. CASE Talk
  <2>1. CASE UNCHANGED <<fetches, midway>>
    BY <1>1, <2>1, TalkFacts DEF PanelInv
  <2>2. CASE ~UNCHANGED <<fetches, midway>>
    <3>1. PICK r : Release(r)
      BY <1>1, <2>2 DEF Talk, SendMessage, SubmitForm, ChunkArrives, FinishReading, Abort,
                        ConnectionLost, RequestStarts, RequestEnds, ErrorMisread, Finalize,
                        panel, ghosts
    <3>2. UNCHANGED <<user, active, tree, missed>>
      BY <1>1, TalkFacts
    <3>3. CASE active # req[r].key
      BY <3>1, <3>3 DEF Release, PanelInv
    <3>4. CASE active = req[r].key
      <4>1. /\ midway' => midway
            /\ fetches' = fetches \/ fetches' = fetches \cup {Place(active, user)}
        BY <3>1, <3>4 DEF Release
      <4>2. midway => midway'
        BY <3>1 DEF Release
      <4>3. QED
        BY <3>2, <4>1, <4>2 DEF PanelInv
    <3>5. QED
      BY <3>3, <3>4
  <2>3. QED
    BY <2>1, <2>2
<1>2. ASSUME NEW k \in Conversations, SwitchTo(k) PROVE PanelInv'
  BY <1>2, ActivatePanel DEF SwitchTo
<1>3. ASSUME NEW k \in Conversations, RemoveDraft(k) PROVE PanelInv'
  BY <1>3, TakeOffPanel DEF RemoveDraft
<1>4. ASSUME NEW k \in Conversations, RemoveConversation(k) PROVE PanelInv'
  BY <1>4 DEF RemoveConversation, sidebar, panel, PanelInv
<1>5. CASE NewChat
  BY <1>5, ActivatePanel DEF NewChat
<1>6. ASSUME NEW d \in removals, RemovalServed(d) PROVE PanelInv'
  BY <1>6 DEF RemovalServed, sidebar, panel, ghosts, PanelInv
<1>7. ASSUME NEW d \in removals, RemovalDone(d) PROVE PanelInv'
  BY <1>7, TakeOffPanel DEF RemovalDone
<1>8. ASSUME NEW u \in Users, SetSession(u) PROVE PanelInv'
  BY <1>8 DEF SetSession, PanelInv
<1>9. CASE LoadServed \/ LoadFails
  BY <1>9 DEF LoadServed, LoadFails, sidebar, panel, ghosts, PanelInv
<1>10. CASE LoadArrives
  BY <1>10, ActivatePanel DEF LoadArrives
<1>11. ASSUME NEW f \in fetches, TreeArrives(f) \/ TreeFails(f) PROVE PanelInv'
  BY <1>11 DEF TreeArrives, TreeFails, sidebar, ghosts, PanelInv
<1>12. CASE UNCHANGED vars
  BY <1>12 DEF vars, sidebar, panel, ghosts, PanelInv
<1>13. ASSUME NEW d \in removals, RemovalLost(d) PROVE PanelInv'
  BY <1>13 DEF RemovalLost, sidebar, panel, PanelInv
<1>14. QED
  BY <1>1, <1>2, <1>3, <1>4, <1>5, <1>6, <1>7, <1>8, <1>9, <1>10, <1>11, <1>12, <1>13
  DEF Next, Talk

(* The panel ends up with the files of the conversation on show, whatever   *)
(* is sent, removed or loaded, unless the last request for them failed or   *)
(* the conversation was changed while a response or a tree was still to     *)
(* come.                                                                    *)
THEOREM PanelFollowsActive == Spec => []TreeOfActive
<1>1. Init => PanelInv
  BY DEF Init, PanelInv
<1>2. PanelInv => TreeOfActive
  BY DEF PanelInv, TreeOfActive
<1>3. QED
  BY <1>1, <1>2, InitShape, NextPageShape, NextPanel, PTL DEF Spec

-----------------------------------------------------------------------------
(* The API has the conversation of the user, or is about to.                *)
Backed(c) ==
  \/ stored[user][c] # Nil
  \/ \E r \in Requests : /\ req[r] # Nil /\ req[r].conv = c /\ req[r].user = user
                         /\ req[r].stage \in {"sent", "running", "lost"}

(* What is listed is backed until its own removal has been served, and      *)
(* after that if the answer was lost; what a history holds on its way to    *)
(* the page nobody has removed since.                                       *)
BackedInv ==
  ~crossed =>
    /\ \A c \in list \ drafts :
         \/ Backed(c) \/ c \in phantoms
         \/ \E d \in removals : d.conv = c /\ d.stage = "done"
    /\ load.stage = "served" =>
         \A c \in Conversations : load.snap[c] # Nil => stored[user][c] # Nil

LEMMA TalkBacks ==
  ASSUME Shape, Talk, NEW c \in Conversations
  PROVE  /\ Backed(c) => Backed(c)'
         /\ stored[user][c] # Nil => stored'[user'][c] # Nil
         /\ c \in list' \ drafts' => c \in list \ drafts \/ Backed(c)'
<1>0. UNCHANGED <<user, list, active, load, removals>> /\ user \in Users
  BY TalkFacts DEF Shape
<1>1. CASE SendMessage
  <2>1. PICK r \in Requests, b \in Conversations :
          /\ req[r] = Nil
          /\ active # Nil => b = active
          /\ req' = [req EXCEPT ![r] = [stage |-> "sent", user |-> user, conv |-> b,
                                        key |-> active, msg |-> r, chat |-> TRUE]]
          /\ UNCHANGED stored /\ drafts' = drafts \ {active}
    BY <1>1, FreshIsId, NextIsNew DEF SendMessage, Shape, Keys
  <2>2. req'[r] \in Request
    BY <1>0, <2>1 DEF Request, Shape, Stages
  <2>3. req'[r] # Nil /\ req'[r].conv = b /\ req'[r].user = user /\ req'[r].stage = "sent"
    <3>1. req'[r] = [stage |-> "sent", user |-> user, conv |-> b, key |-> active, msg |-> r,
                     chat |-> TRUE]
      BY <2>1 DEF Shape
    <3>2. req'[r] # Nil
      BY <2>2, PageAssumption
    <3>3. QED
      BY <3>1, <3>2
  <2>4. \A q \in Requests : req[q] # Nil => req'[q] = req[q]
    BY <2>1 DEF Shape
  <2>5. Backed(c) => Backed(c)'
    BY <1>0, <2>1, <2>4 DEF Backed
  <2>6. c = active => Backed(c)'
    <3>1. c # Nil
      BY PageAssumption
    <3>2. QED
      BY <1>0, <2>1, <2>3, <3>1 DEF Backed
  <2>7. QED
    BY <1>0, <2>1, <2>5, <2>6
<1>2. CASE SubmitForm
  <2>1. /\ \A q \in Requests : req[q] # Nil => req'[q] = req[q]
        /\ UNCHANGED <<stored, drafts>>
    BY <1>2, NextIsNew DEF SubmitForm, Shape, sidebar
  <2>2. QED
    BY <1>0, <2>1 DEF Backed
<1>3. ASSUME NEW r \in Requests, ConnectionLost(r)
      PROVE  /\ Backed(c) => Backed(c)'
             /\ UNCHANGED <<stored, drafts>>
  <2>1. UNCHANGED <<stored, drafts>> /\ req[r] # Nil
    BY <1>3 DEF ConnectionLost, sidebar, Shape
  <2>2. CASE UNCHANGED req
    BY <1>0, <2>1, <2>2 DEF Backed
  <2>3. CASE req' = [req EXCEPT ![r].stage = "lost"]
    <3>1. /\ \A q \in Requests \ {r} : req'[q] = req[q]
          /\ req'[r] # Nil /\ req'[r].stage = "lost" /\ req'[r].conv = req[r].conv
          /\ req'[r].user = req[r].user
      BY <2>1, <2>3, MovesOn DEF Stages
    <3>2. QED
      BY <1>0, <2>1, <3>1 DEF Backed
  <2>4. QED
    BY <1>3, <2>1, <2>2, <2>3 DEF ConnectionLost
<1>4. ASSUME NEW r \in Requests, Served(r)
      PROVE  /\ Backed(c) => Backed(c)'
             /\ stored[user][c] # Nil => stored'[user'][c] # Nil
             /\ UNCHANGED drafts
  <2>1. req[r] # Nil /\ Record(r) /\ UNCHANGED drafts
    BY <1>4, ServedFacts
  <2>2. \A q \in Requests \ {r} : req'[q] = req[q]
    BY <1>4, <2>1, ServedFacts, MovesOn
  <2>3. /\ stored'[req[r].user][req[r].conv] # Nil
        /\ stored[user][c] # Nil => stored'[user][c] # Nil
    BY <1>0, <2>1, RecordShape
  <2>4. QED
    BY <1>0, <2>1, <2>2, <2>3 DEF Backed
<1>5. CASE Abort \/ \E r \in Requests : ChunkArrives(r) \/ FinishReading(r)
  <2>1. UNCHANGED <<req, stored, drafts>>
    BY <1>5 DEF ChunkArrives, FinishReading, Abort, api, sidebar
  <2>2. QED
    BY <1>0, <2>1 DEF Backed
<1>6. QED
  BY <1>0, <1>1, <1>2, <1>3, <1>4, <1>5 DEF Talk, Served

LEMMA TakeOffLeaves ==
  ASSUME NEW k, NEW seen, TakeOff(k, seen), NEW c \in list' \ drafts'
  PROVE  c \in list \ drafts /\ c # k
<1>1. CASE list \ {k} = {}
  BY <1>1 DEF TakeOff
<1>2. CASE list \ {k} # {}
  BY <1>2 DEF TakeOff
<1>3. QED
  BY <1>1, <1>2

LEMMA NextBacked == Shape /\ ListedInv /\ BackedInv /\ [Next]_vars => BackedInv'
<1> SUFFICES ASSUME Shape, ListedInv, BackedInv, [Next]_vars, ~crossed' PROVE BackedInv'
  BY DEF BackedInv
<1>1. CASE Talk
  <2>1. UNCHANGED <<user, list, load, removals, crossed, phantoms>> /\ list \subseteq Conversations
    BY <1>1, TalkFacts DEF Shape
  <2>2. QED
    BY <1>1, <2>1, TalkBacks DEF BackedInv
<1>2. ASSUME NEW k \in Conversations, SwitchTo(k) PROVE BackedInv'
  BY <1>2 DEF SwitchTo, BackedInv, Backed, api
<1>3. ASSUME NEW k \in Conversations, RemoveDraft(k) PROVE BackedInv'
  BY <1>3, TakeOffLeaves DEF RemoveDraft, BackedInv, Backed, api
<1>4. ASSUME NEW k \in Conversations, RemoveConversation(k) PROVE BackedInv'
  BY <1>4 DEF RemoveConversation, BackedInv, Backed, api, sidebar
<1>5. CASE NewChat
  BY <1>5 DEF NewChat, BackedInv, Backed, api
<1>6. ASSUME NEW d \in removals, RemovalServed(d) PROVE BackedInv'
  <2>1. /\ ~crossed /\ load.stage = "over" /\ removals = {d} /\ d.stage = "sent"
        /\ UNCHANGED <<req, user, list, drafts, load, phantoms>>
    BY <1>6 DEF RemovalServed, ListedInv, sidebar, ghosts
  <2>2. \A c \in list \ drafts : Backed(c) \/ c \in phantoms
    BY <2>1 DEF BackedInv
  <2>3. CASE stored' = stored
    BY <2>1, <2>2, <2>3 DEF BackedInv, Backed
  <2>4. CASE stored' # stored
    <3>1. /\ stored' = [stored EXCEPT ![d.user][d.conv] = Nil]
          /\ [d EXCEPT !.stage = "done"] \in removals'
      BY <1>6, <2>4 DEF RemovalServed
    <3>2. \A c \in list \ drafts : c # d.conv => Backed(c)' \/ c \in phantoms
      BY <2>1, <2>2, <3>1 DEF Backed, Shape, Loaded
    <3>3. [d EXCEPT !.stage = "done"].conv = d.conv /\ [d EXCEPT !.stage = "done"].stage = "done"
      BY DEF Shape
    <3>4. QED
      BY <2>1, <3>1, <3>2, <3>3 DEF BackedInv
  <2>5. QED
    BY <2>3, <2>4
<1>7. ASSUME NEW d \in removals, RemovalDone(d) PROVE BackedInv'
  <2>1. /\ ~crossed /\ load.stage = "over" /\ TakeOff(d.conv, d.seen)
        /\ UNCHANGED <<stored, req, user, load, phantoms>>
    BY <1>7 DEF RemovalDone, ListedInv, api
  <2>2. \A e \in removals : e = d
    BY <2>1 DEF ListedInv
  <2>3. QED
    BY <2>1, <2>2, TakeOffLeaves DEF BackedInv, Backed
<1>8. ASSUME NEW u \in Users, SetSession(u) PROVE BackedInv'
  BY <1>8 DEF SetSession, Reload, NewLoad, BackedInv
<1>9. CASE LoadServed
  BY <1>9 DEF LoadServed, BackedInv, Backed, Shape, api, sidebar, ghosts
<1>10. CASE LoadFails
  BY <1>10 DEF LoadFails, BackedInv, Backed, Shape, api, sidebar
<1>11. CASE LoadArrives
  BY <1>11 DEF LoadArrives, BackedInv, Backed, Shape, api
<1>12. CASE (\E f \in fetches : TreeArrives(f) \/ TreeFails(f)) \/ UNCHANGED vars
  BY <1>12 DEF TreeArrives, TreeFails, BackedInv, Backed, api, sidebar, ghosts, vars
<1>13. ASSUME NEW d \in removals, RemovalLost(d) PROVE BackedInv'
  <2>1. /\ ~crossed /\ phantoms' = (IF d.stage = "done" THEN phantoms \cup {d.conv} ELSE phantoms)
        /\ UNCHANGED <<stored, req, user, list, drafts, load>>
    BY <1>13 DEF RemovalLost, api, sidebar
  <2>2. \A e \in removals : e = d
    BY <2>1 DEF ListedInv
  <2>3. \A c : Backed(c) => Backed(c)'
    BY <2>1 DEF Backed
  <2>4. QED
    BY <2>1, <2>2, <2>3 DEF BackedInv
<1>14. QED
  BY <1>1, <1>2, <1>3, <1>4, <1>5, <1>6, <1>7, <1>8, <1>9, <1>10, <1>11, <1>12, <1>13
  DEF Next, Talk

(* The sidebar offers what the API does not hold for the user only after a  *)
(* removal whose answer was lost, in whatever order sends, removals, logins *)
(* and histories are answered.                                              *)
THEOREM ListedStayStored == Spec => []ListedAreStored
<1>1. Init => BackedInv
  <2> SUFFICES ASSUME Init PROVE BackedInv
    OBVIOUS
  <2>1. list = drafts /\ load.stage = "sent"
    BY DEF Init, NewLoad
  <2>2. QED
    BY <2>1 DEF BackedInv
<1>2. Init => ListedInv
  BY DEF Init, ListedInv
<1>3. BackedInv => ListedAreStored
  BY DEF BackedInv, Backed, ListedAreStored
<1>4. QED
  BY <1>1, <1>2, <1>3, InitShape, NextListed, NextPageShape, NextBacked, PTL DEF Spec

-----------------------------------------------------------------------------
(* What the type invariant says of the rest of the state.                   *)
Views  == [Keys -> [Requests -> Shown]]
Loads  == [user : Users, stage : {"sent", "served", "over"}, snap : Loaded \cup {Nil}]
Places == [conv : Keys, user : Users]
Marks  == [Conversations -> Requests \cup {Nil}]

Rest ==
  /\ asks \in Marks /\ drafts \subseteq list /\ view \in Views /\ resolved \in BOOLEAN
  /\ load \in Loads /\ tree \in Places \cup {Nil} /\ fetches \subseteq Places
  /\ budget \in Budget

LEMMA PayType ==
  ASSUME budget \in Budget, NEW what, Pay(what),
         what \in {"sends", "moves", "removals", "logins", "mishaps"}
  PROVE  budget' \in Budget
BY DEF Pay, Budget

LEMMA PlaceType ==
  /\ \A k \in Keys, u \in Users : Place(k, u) \in Places
  /\ Conversations \subseteq Keys /\ Nil \in Keys
BY DEF Place, Places, Keys

LEMMA ActivateType ==
  ASSUME NEW k \in Keys, user \in Users, fetches \subseteq Places, Activate(k)
  PROVE  fetches' \subseteq Places
BY PlaceType DEF Activate

LEMMA NoViewType == NoView \in Views
BY DEF NoView, Views, Shown

\* Setting one entry of the view to something to be shown, as it depends on
\* what is there.
LEMMA SetViewType ==
  ASSUME NEW v \in Views, NEW k \in Keys, NEW m \in Requests, NEW s \in Shown
  PROVE  /\ v[k][m] \in Shown
         /\ [v EXCEPT ![k][m] = s] \in Views
BY DEF Views

\* Replacing a message of the page that is live, waits or is settled.
LEMMA ReplaceType ==
  ASSUME NEW v \in Views, NEW k \in Keys, NEW m \in Requests, NEW s \in Shown
  PROVE  /\ v[k][m] \in Shown
         /\ [v EXCEPT ![k][m] = IF @ \in {"none", "restored"} THEN @ ELSE s] \in Views
<1> DEFINE t == IF v[k][m] \in {"none", "restored"} THEN v[k][m] ELSE s
<1>1. t \in Shown /\ v[k][m] \in Shown
  BY SetViewType
<1>2. [v EXCEPT ![k][m] = IF @ \in {"none", "restored"} THEN @ ELSE s] = [v EXCEPT ![k][m] = t]
  OBVIOUS
<1> HIDE DEF t
<1>3. QED
  BY <1>1, <1>2, SetViewType

LEMMA ShowType ==
  ASSUME Shape, view \in Views, NEW r \in reading, NEW s \in Shown, Show(r, s)
  PROVE  view' \in Views
<1>1. req[r].key \in Keys /\ req[r].msg \in Requests
  BY ReadRequests DEF Request
<1>2. QED
  BY <1>1, ReplaceType DEF Show

LEMMA ReleaseType ==
  ASSUME Shape, fetches \subseteq Places, NEW r \in reading, Release(r)
  PROVE  fetches' \subseteq Places
<1>1. req[r].key \in Keys /\ user \in Users
  BY ReadRequests DEF Shape, Request
<1>2. QED
  BY <1>1, PlaceType DEF Release

LEMMA TakeOffRest ==
  ASSUME Shape, Rest, NEW k \in Conversations, NEW seen, TakeOff(k, seen)
  PROVE  drafts' \subseteq list' /\ view' \in Views /\ fetches' \subseteq Places
<1> DEFINE gone == [view EXCEPT ![k] = NoView[k]]
<1>1. gone \in Views
  BY PlaceType, NoViewType DEF Rest, Views
<1>2. view' \in Views
  <2>1. CASE stop # Nil
    <3>1. req[stop].key \in Keys /\ stop \in Requests
      BY <2>1, ReadRequests DEF Request
    <3>2. [gone EXCEPT ![req[stop].key][stop] = IF @ \in {"none", "restored"} THEN @ ELSE "settled"]
            \in Views
      BY <1>1, <3>1, ReplaceType DEF Shown
    <3>3. QED
      BY <1>1, <3>2 DEF TakeOff
  <2>2. CASE stop = Nil
    BY <1>1, <2>2 DEF TakeOff
  <2>3. QED
    BY <2>1, <2>2
<1>3. CASE list \ {k} = {}
  BY <1>2, <1>3, FreshIsId, PlaceType, ActivateType DEF TakeOff, Shape, Rest
<1>4. CASE list \ {k} # {}
  <2>1. stop # Nil => req[stop].key \in Keys
    BY ReadRequests DEF Request
  <2>2. CASE seen # k
    BY <1>2, <1>4, <2>2 DEF TakeOff, Rest
  <2>3. CASE seen = k
    <3>1. PICK n \in list \ {k} :
            fetches' \subseteq fetches \cup {Place(n, user)}
                       \cup (IF stop # Nil THEN {Place(req[stop].key, user)} ELSE {})
      BY <1>4, <2>3 DEF TakeOff
    <3>2. fetches' \subseteq Places
      BY <2>1, <3>1, PlaceType DEF Shape, Rest
    <3>3. QED
      BY <1>2, <1>4, <2>3, <3>2 DEF TakeOff, Rest
  <2>4. QED
    BY <2>2, <2>3
<1>5. QED
  BY <1>3, <1>4

LEMMA TalkRest == Shape /\ Rest /\ Talk => Rest'
<1> SUFFICES ASSUME Shape, Rest, Talk PROVE Rest'
  OBVIOUS
<1>0. /\ UNCHANGED <<user, list, active, resolved, load, removals, tree>>
      /\ user \in Users /\ active \in Keys
  BY TalkFacts DEF Shape
<1>1. CASE SendMessage
  <2>1. PICK r \in NextRequest : view' = [view EXCEPT ![active][r] = "live"]
    BY <1>1 DEF SendMessage
  <2>2. view' \in Views
    BY <1>0, <2>1, NextIsNew, SetViewType DEF Rest, Shown
  <2>3. budget' \in Budget
    BY <1>1, PayType DEF SendMessage, Rest
  <2>4. QED
    BY <1>0, <1>1, <2>2, <2>3 DEF SendMessage, Rest, panel
<1>2. CASE SubmitForm
  <2>1. budget' \in Budget
    BY <1>2, PayType DEF SubmitForm, Rest
  <2>2. QED
    BY <1>0, <1>2, <2>1 DEF SubmitForm, Rest, panel, sidebar
<1>3. ASSUME NEW r \in Requests, ChunkArrives(r) PROVE Rest'
  <2>1. view' \in Views
    BY <1>3, ShowType DEF ChunkArrives, Rest, Shown
  <2>2. QED
    BY <1>0, <1>3, <2>1 DEF ChunkArrives, Rest, api, sidebar, panel
<1>4. ASSUME NEW r \in reading, NEW s \in Shown, Show(r, s), Release(r),
             UNCHANGED <<asks, drafts>>, budget' \in Budget
      PROVE  Rest'
  <2>1. view' \in Views /\ fetches' \subseteq Places
    BY <1>4, ShowType, ReleaseType DEF Rest
  <2>2. QED
    BY <1>0, <1>4, <2>1 DEF Rest
<1>5. ASSUME NEW r \in Requests, FinishReading(r) PROVE Rest'
  <2>1. PICK s \in Shown : Show(r, s)
    BY <1>5 DEF FinishReading, Shown
  <2>2. r \in reading /\ Release(r) /\ UNCHANGED <<asks, drafts, budget>>
    BY <1>5 DEF FinishReading, api, sidebar
  <2>3. QED
    BY <1>4, <2>1, <2>2 DEF Rest
<1>6. CASE Abort
  <2>1. /\ stop \in reading /\ Show(stop, "settled") /\ Release(stop) /\ "settled" \in Shown
        /\ UNCHANGED <<asks, drafts, budget>>
    BY <1>6, ReadRequests DEF Abort, api, sidebar, Shown
  <2>2. QED
    BY <1>4, <2>1 DEF Rest
<1>7. ASSUME NEW r \in Requests, ConnectionLost(r) PROVE Rest'
  <2>1. /\ r \in reading /\ Show(r, "settled") /\ Release(r) /\ "settled" \in Shown
        /\ UNCHANGED <<asks, drafts>>
    BY <1>7 DEF ConnectionLost, sidebar, Shown
  <2>2. budget' \in Budget
    BY <1>7, PayType DEF ConnectionLost, Rest
  <2>3. QED
    BY <1>4, <2>1, <2>2
<1>8. ASSUME NEW r \in Requests, Served(r) PROVE Rest'
  <2>1. PICK a \in Requests \cup {Nil} : asks' = [asks EXCEPT ![req[r].conv] = a]
    BY <1>8, ServedFacts
  <2>2. asks' \in Marks
    BY <2>1 DEF Rest, Marks
  <2>3. budget' \in Budget
    BY <1>8, PayType DEF Served, RequestStarts, RequestEnds, ErrorMisread, Rest
  <2>4. UNCHANGED <<drafts, view, fetches>>
    BY <1>8, ServedFacts
  <2>5. QED
    BY <1>0, <2>2, <2>3, <2>4 DEF Rest
<1>9. QED
  BY <1>1, <1>2, <1>3, <1>5, <1>6, <1>7, <1>8 DEF Talk, Served

LEMMA NextRest == Shape /\ Rest /\ [Next]_vars => Rest'
<1> SUFFICES ASSUME Shape, Rest, [Next]_vars PROVE Rest'
  OBVIOUS
<1>1. CASE Talk
  BY <1>1, TalkRest
<1>2. ASSUME NEW k \in Conversations, SwitchTo(k) PROVE Rest'
  <2>1. budget' \in Budget /\ fetches' \subseteq Places
    BY <1>2, PayType, PlaceType, ActivateType DEF SwitchTo, Rest, Shape
  <2>2. QED
    BY <1>2, <2>1 DEF SwitchTo, Rest, api
<1>3. ASSUME NEW k \in Conversations, RemoveDraft(k) PROVE Rest'
  <2>1. budget' \in Budget
    BY <1>3, PayType DEF RemoveDraft, Rest
  <2>2. drafts' \subseteq list' /\ view' \in Views /\ fetches' \subseteq Places
    BY <1>3, TakeOffRest DEF RemoveDraft
  <2>3. QED
    BY <1>3, <2>1, <2>2 DEF RemoveDraft, Rest, api
<1>4. ASSUME NEW k \in Conversations, RemoveConversation(k) PROVE Rest'
  <2>1. budget' \in Budget
    BY <1>4, PayType DEF RemoveConversation, Rest
  <2>2. QED
    BY <1>4, <2>1 DEF RemoveConversation, Rest, api, sidebar, panel
<1>5. CASE NewChat
  <2>1. budget' \in Budget
    BY <1>5, PayType DEF NewChat, Rest
  <2>2. PICK d \in Conversations : list' = list \cup {d} /\ drafts' = drafts \cup {d} /\ Activate(d)
    BY <1>5, FreshIsId DEF NewChat
  <2>3. fetches' \subseteq Places
    BY <2>2, PlaceType, ActivateType DEF Rest, Shape
  <2>4. QED
    BY <1>5, <2>1, <2>2, <2>3 DEF NewChat, Rest, api
<1>6. ASSUME NEW d \in removals, RemovalServed(d) PROVE Rest'
  <2>1. asks' = asks \/ asks' = [asks EXCEPT ![d.conv] = Nil]
    BY <1>6 DEF RemovalServed
  <2>2. asks' \in Marks
    BY <2>1 DEF Rest, Marks
  <2>3. QED
    BY <1>6, <2>2 DEF RemovalServed, Rest, sidebar, panel
<1>7. ASSUME NEW d \in removals, RemovalDone(d) PROVE Rest'
  <2>1. drafts' \subseteq list' /\ view' \in Views /\ fetches' \subseteq Places
    BY <1>7, TakeOffRest DEF RemovalDone, Shape
  <2>2. QED
    BY <1>7, <2>1 DEF RemovalDone, Rest, api
<1>8. ASSUME NEW u \in Users, SetSession(u) PROVE Rest'
  <2>1. budget' \in Budget /\ view' \in Views
    BY <1>8, PayType, NoViewType DEF SetSession, Rest
  <2>2. fetches' \subseteq Places
    BY <1>8, PlaceType DEF SetSession, Rest
  <2>3. load' \in Loads
    BY <1>8 DEF SetSession, Reload, NewLoad, Loads
  <2>4. QED
    BY <1>8, <2>1, <2>2, <2>3 DEF SetSession, Rest, api
<1>9. CASE LoadServed
  <2>1. load' \in Loads
    BY <1>9 DEF LoadServed, Rest, Shape, Loads
  <2>2. QED
    BY <1>9, <2>1 DEF LoadServed, Rest, api, sidebar, panel
<1>10. CASE LoadFails
  <2>1. budget' \in Budget
    BY <1>10, PayType DEF LoadFails, Rest
  <2>2. load' \in Loads
    BY <1>10 DEF LoadFails, Rest, Loads
  <2>3. QED
    BY <1>10, <2>1, <2>2 DEF LoadFails, Rest, api, sidebar, panel
<1>11. CASE LoadArrives
  <2>1. load' \in Loads
    BY <1>11 DEF LoadArrives, Rest, Loads
  <2>2. view' \in Views
    BY <1>11, NoViewType DEF LoadArrives, Views, Shown
  <2>3. drafts' \subseteq list' /\ \E a \in Conversations : Activate(a)
    BY <1>11, FreshIsId DEF LoadArrives
  <2>4. fetches' \subseteq Places
    BY <2>3, PlaceType, ActivateType DEF Rest, Shape
  <2>5. QED
    BY <1>11, <2>1, <2>2, <2>3, <2>4 DEF LoadArrives, Rest, api
<1>12. ASSUME NEW f \in fetches, TreeArrives(f) PROVE Rest'
  BY <1>12 DEF TreeArrives, Rest, api, sidebar
<1>13. ASSUME NEW f \in fetches, TreeFails(f) PROVE Rest'
  <2>1. budget' \in Budget
    BY <1>13, PayType DEF TreeFails, Rest
  <2>2. QED
    BY <1>13, <2>1 DEF TreeFails, Rest, api, sidebar
<1>14. ASSUME NEW d \in removals, RemovalLost(d) PROVE Rest'
  <2>1. budget' \in Budget
    BY <1>14, PayType DEF RemovalLost, Rest
  <2>2. QED
    BY <1>14, <2>1 DEF RemovalLost, Rest, api, sidebar, panel
<1>15. CASE UNCHANGED vars
  BY <1>15 DEF vars, Rest, api, sidebar, panel
<1>16. QED
  BY <1>1, <1>2, <1>3, <1>4, <1>5, <1>6, <1>7, <1>8, <1>9, <1>10, <1>11, <1>12, <1>13, <1>14,
     <1>15 DEF Next, Talk

\* What decides whether a message or an answer can be sent.
Flags == requesting \in BOOLEAN /\ ready \in BOOLEAN

LEMMA NextFlags == Flags /\ [Next]_vars => Flags'
<1> SUFFICES ASSUME Flags, [Next]_vars PROVE Flags'
  OBVIOUS
<1>1. ASSUME UNCHANGED <<requesting, ready>> PROVE Flags'
  BY <1>1 DEF Flags
<1>2. ASSUME UNCHANGED requesting, Redraw PROVE Flags'
  BY <1>2 DEF Flags, Redraw
<1>3. ASSUME NEW r, Release(r) PROVE Flags'
  BY <1>3 DEF Flags, Release
<1>4. ASSUME NEW k, NEW seen, TakeOff(k, seen) PROVE Flags'
  <2>1. requesting' \in BOOLEAN
    BY <1>4 DEF TakeOff
  <2>2. CASE list \ {k} = {}
    BY <1>4, <2>1, <2>2 DEF TakeOff, Redraw, Flags
  <2>3. CASE list \ {k} # {}
    BY <1>4, <2>1, <2>3 DEF TakeOff, Flags
  <2>4. QED
    BY <2>2, <2>3
<1>5. CASE Talk
  <2>1. CASE SendMessage \/ SubmitForm
    BY <2>1 DEF SendMessage, SubmitForm, Flags
  <2>2. ASSUME NEW r \in Requests, ChunkArrives(r) PROVE Flags'
    BY <2>2 DEF ChunkArrives, Flags
  <2>3. CASE Abort \/ \E r \in Requests : FinishReading(r) \/ ConnectionLost(r)
    BY <1>3, <2>3 DEF Abort, FinishReading, ConnectionLost
  <2>4. ASSUME NEW r \in Requests, Served(r) PROVE Flags'
    BY <1>1, <2>4, ServedFacts DEF talk
  <2>5. QED
    BY <1>5, <2>1, <2>2, <2>3, <2>4 DEF Talk, Served
<1>6. CASE \/ \E k \in Conversations : SwitchTo(k)
           \/ NewChat \/ LoadArrives
           \/ \E u \in Users : SetSession(u)
  BY <1>2, <1>6 DEF SwitchTo, NewChat, LoadArrives, SetSession
<1>7. CASE \/ \E k \in Conversations : RemoveDraft(k)
           \/ \E d \in removals : RemovalDone(d)
  BY <1>4, <1>7 DEF RemoveDraft, RemovalDone
<1>8. CASE \/ \E k \in Conversations : RemoveConversation(k)
           \/ \E d \in removals : RemovalServed(d) \/ RemovalLost(d)
           \/ LoadServed \/ LoadFails
           \/ \E f \in fetches : TreeArrives(f) \/ TreeFails(f)
           \/ UNCHANGED vars
  BY <1>1, <1>8 DEF RemoveConversation, RemovalServed, RemovalLost, LoadServed, LoadFails,
                    TreeArrives, TreeFails, talk, vars
<1>9. QED
  BY <1>5, <1>6, <1>7, <1>8 DEF Next, Talk

LEMMA InitTyped == Init => Shape /\ Rest
<1> SUFFICES ASSUME Init PROVE Shape /\ Rest
  OBVIOUS
<1>1. \E c \in Conversations : \A u \in Users : stored[u][c] = Nil
  BY PageAssumption DEF Init
<1>2. PICK d \in Conversations : list = {d} /\ drafts = {d} /\ active = d
                                /\ fetches = {Place(d, user)}
  BY <1>1 DEF Init
<1>3. Shape
  BY InitShape
<1>4. budget \in Budget /\ load \in Loads
  BY PageAssumption DEF Init, NewLoad, Loads
<1>5. asks \in Marks /\ view \in Views
  BY NoViewType DEF Init, Marks
<1>6. fetches \subseteq Places
  BY <1>2, PlaceType DEF Init
<1>7. QED
  BY <1>2, <1>3, <1>4, <1>5, <1>6 DEF Init, Rest

(* The page and the API hold conversations, messages, requests and trees of *)
(* the expected shapes, however calls and answers interleave: drafts are    *)
(* listed conversations, and every message an answer is folded into is one. *)
THEOREM TypeCorrect == Spec => []TypeOK
<1>1. Shape /\ Rest /\ Flags => TypeOK
  <2> SUFFICES ASSUME Shape, Rest, Flags PROVE TypeOK
    OBVIOUS
  <2>1. req \in [Requests -> Request \cup {Nil}] /\ stop \in reading \cup {Nil}
    BY DEF Shape
  <2>2. requesting \in BOOLEAN /\ ready \in BOOLEAN
    BY DEF Flags
  <2>3. QED
    BY <2>1, <2>2 DEF Shape, Rest, TypeOK, Views, Loads, Places, Marks
<1>2. Init => Flags
  BY DEF Init, Flags
<1>3. QED
  BY <1>1, <1>2, InitTyped, NextPageShape, NextRest, NextFlags, PTL DEF Spec

-----------------------------------------------------------------------------
(* A form from the answer that opens it to the one that closes it.          *)
Open(c)     == {m \in Requests : view[c][m] = "waiting"}
Drawn(c, m) == view[c][m] \notin {"none", "restored"}
Leaving(c)  == c \in phantoms \/ \E d \in removals : d.conv = c /\ d.stage = "done"
\* The requests of a conversation that may still change it.
BusyIn(c)   == {q \in Requests : /\ req[q] # Nil /\ req[q].conv = c
                                 /\ q \in reading \/ req[q].stage \in {"sent", "running"}}

(* One request at a time is busy in the conversation.  It has at most one   *)
(* open form, and if a request is busy it is the answer to it, which the    *)
(* page reads.  The graph holds the interrupt of an open form that is not   *)
(* being answered, and that of a response whose form the page is about to   *)
(* open.                                                                    *)
Kept(c) ==
  /\ \A q, r \in BusyIn(c) : q = r
  /\ \A m \in Open(c) :
       /\ Open(c) = {m}
       /\ \A q \in BusyIn(c) : q \in reading /\ ~req[q].chat /\ req[q].key = c /\ req[q].msg = m
       /\ ~Leaving(c) /\ BusyIn(c) = {} => asks[c] # Nil
  /\ \A q \in BusyIn(c) :
       (/\ q \in reading /\ req[q].stage = "waiting" /\ req[q].key = c
        /\ Drawn(c, req[q].msg) /\ ~Leaving(c))
       => asks[c] # Nil

FormsInv ==
  /\ \A r \in Requests : req[r] # Nil => req[r].key \in {Nil, req[r].conv}
  /\ \A c \in Conversations, m \in Requests : Drawn(c, m) => c \in used
  /\ \A c \in Conversations \ skipped : Kept(c)

LEMMA NilIsNoRequest == Nil \notin Requests /\ Nil \notin Conversations
BY PageAssumption

\* Steps that open no form, start no request, and stop reading nothing but
\* what a message was answered with.
LEMMA NothingOpens ==
  ASSUME Shape, FormsInv, UNCHANGED <<req, asks, skipped>>, used \subseteq used',
         reading' \subseteq reading, \A r \in reading \ reading' : req[r].chat,
         \A c \in Conversations, m \in Requests :
           view'[c][m] = "waiting" => view[c][m] = "waiting",
         \A c \in Conversations, m \in Requests :
           Drawn(c, m)' => Drawn(c, m) /\ (Leaving(c) => Leaving(c)')
  PROVE  FormsInv'
<1>1. ASSUME NEW c \in Conversations \ skipped, Kept(c) PROVE Kept(c)'
  <2>1. BusyIn(c)' \subseteq BusyIn(c) /\ Open(c)' \subseteq Open(c)
    BY DEF BusyIn, Open
  <2>2. \A q \in BusyIn(c) : q \in reading /\ ~req[q].chat => q \in reading' /\ q \in BusyIn(c)'
    BY DEF BusyIn
  <2>3. ASSUME NEW m \in Open(c)'
        PROVE  /\ Open(c)' = {m}
               /\ \A q \in BusyIn(c)' : /\ q \in reading' /\ ~req'[q].chat /\ req'[q].key = c
                                        /\ req'[q].msg = m
               /\ ~Leaving(c)' /\ BusyIn(c)' = {} => asks'[c] # Nil
    <3>1. /\ Open(c) = {m}
          /\ \A q \in BusyIn(c) : /\ q \in reading /\ ~req[q].chat /\ req[q].key = c
                                  /\ req[q].msg = m
          /\ ~Leaving(c) /\ BusyIn(c) = {} => asks[c] # Nil
      BY <2>1, <2>3, <1>1 DEF Kept
    <3>2. m \in Requests /\ Drawn(c, m)'
      BY <2>3 DEF Open, Drawn
    <3>3. Leaving(c) => Leaving(c)'
      BY <3>2
    <3>4. QED
      BY <2>1, <2>2, <2>3, <3>1, <3>3
  <2>4. ASSUME NEW q \in BusyIn(c)', q \in reading', req'[q].stage = "waiting", req'[q].key = c,
               Drawn(c, req[q].msg)', ~Leaving(c)'
        PROVE  asks'[c] # Nil
    <3>1. q \in BusyIn(c) /\ q \in reading /\ req'[q] = req[q]
      BY <2>1, <2>4
    <3>2. req[q].msg \in Requests
      BY <3>1, ReadRequests DEF Request
    <3>3. Drawn(c, req[q].msg) /\ ~Leaving(c)
      BY <2>4, <3>1, <3>2 DEF Drawn
    <3>4. QED
      BY <1>1, <2>4, <3>1, <3>3 DEF Kept
  <2>5. \A q, r \in BusyIn(c)' : q = r
    BY <1>1, <2>1 DEF Kept
  <2>6. QED
    BY <2>3, <2>4, <2>5 DEF Kept
<1>2. QED
  BY <1>1 DEF FormsInv

\* The end of a response.  Only one that waits for the user opens a form, and
\* the form it is an answer to is closed.
LEMMA ResponseFolded ==
  ASSUME Shape, FormsInv, NEW s \in Shown, NEW r \in reading, Show(r, s),
         reading' = reading \ {r},
         s = "settled" \/ (s = "waiting" /\ req[r].stage = "waiting"),
         req' = req \/ (req[r].stage = "sent" /\ req' = [req EXCEPT ![r].stage = "lost"]),
         view \in Views, UNCHANGED <<asks, skipped, used, removals, phantoms>>
  PROVE  FormsInv'
<1> DEFINE k == req[r].key  n == req[r].msg
<1>1. /\ r \in Requests /\ req[r] # Nil /\ req[r] \in Request
      /\ k \in {Nil, req[r].conv} /\ n \in Requests /\ k \in Keys
  BY ReadRequests DEF FormsInv, Request
<1>2. /\ \A c \in Keys, m \in Requests : (c # k \/ m # n) => view'[c][m] = view[c][m]
      /\ view'[k][n] = (IF view[k][n] \in {"none", "restored"} THEN view[k][n] ELSE s)
  BY <1>1 DEF Show, Views
<1>3. \A q \in Requests : /\ req'[q] # Nil <=> req[q] # Nil
                          /\ req[q] # Nil => /\ req'[q].conv = req[q].conv
                                             /\ req'[q].key = req[q].key
                                             /\ req'[q].stage \in {req[q].stage, "lost"}
                                             /\ q # r => req'[q] = req[q]
  <2>1. CASE req' = req
    BY <2>1
  <2>2. CASE req' = [req EXCEPT ![r].stage = "lost"]
    BY <1>1, <2>2, MovesOn DEF Stages
  <2>3. QED
    BY <2>1, <2>2
<1>4. \A c \in Conversations :
        /\ BusyIn(c)' \subseteq BusyIn(c)
        /\ c # req[r].conv => BusyIn(c)' = BusyIn(c) /\ r \notin BusyIn(c)
        /\ c = req[r].conv => r \in BusyIn(c)
  BY <1>1, <1>3 DEF BusyIn
<1>5. \A c \in Conversations, m \in Requests : Drawn(c, m)' => c \in used'
  BY <1>1, <1>2 DEF FormsInv, Keys, Drawn
<1>6. ASSUME NEW c \in Conversations \ skipped, Kept(c) PROVE Kept(c)'
  <2>0. Leaving(c)' = Leaving(c)
    BY DEF Leaving
  <2>1. CASE c # req[r].conv
    <3>1. c # k
      BY <1>1, <2>1, NilIsNoRequest
    <3>2. Open(c)' = Open(c) /\ \A m \in Requests : Drawn(c, m)' = Drawn(c, m)
      BY <1>2, <3>1 DEF Open, Drawn, Keys
    <3>3. /\ BusyIn(c)' = BusyIn(c)
          /\ \A q \in BusyIn(c) : /\ req'[q] = req[q] /\ (q \in reading' <=> q \in reading)
                                  /\ req[q].msg \in Requests
      BY <1>3, <1>4, <2>1 DEF BusyIn, Shape, Request
    <3>4. \A q \in BusyIn(c) : Drawn(c, req[q].msg)' = Drawn(c, req[q].msg)
      BY <3>2, <3>3 DEF Drawn
    <3>5. QED
      BY <1>6, <2>0, <3>2, <3>3, <3>4 DEF Kept
  <2>2. CASE c = req[r].conv
    <3>1. r \in BusyIn(c) /\ BusyIn(c) = {r}
      BY <1>4, <1>6, <2>2 DEF Kept
    <3>2. \A q \in BusyIn(c)' : q = r /\ q \notin reading'
      BY <1>4, <3>1
    <3>3. ASSUME NEW m \in Open(c)'
          PROVE  /\ Open(c)' = {m} /\ BusyIn(c)' = {}
                 /\ ~Leaving(c)' => asks'[c] # Nil
      <4>1. \A j \in Open(c)' : j = n /\ c = k
        <5> SUFFICES ASSUME NEW j \in Open(c)', j # n \/ c # k PROVE FALSE
          OBVIOUS
        <5>1. j \in Open(c)
          BY <1>2 DEF Open, Keys
        <5>2. req[r].msg = j /\ req[r].key = c
          BY <1>6, <3>1, <5>1 DEF Kept
        <5>3. QED
          BY <5>2
      <4>2. view'[c][n] = "waiting" /\ c = k
        BY <3>3, <4>1 DEF Open
      <4>3. Drawn(c, n) /\ s = "waiting" /\ req[r].stage = "waiting"
        BY <1>2, <4>2 DEF Drawn
      <4>4. BusyIn(c)' = {}
        <5>1. req' = req
          BY <4>3
        <5>2. QED
          BY <3>2, <4>3, <5>1 DEF BusyIn
      <4>5. ~Leaving(c)' => asks'[c] # Nil
        BY <1>6, <2>0, <3>1, <4>2, <4>3 DEF Kept
      <4>6. QED
        BY <3>3, <4>1, <4>4, <4>5
    <3>4. QED
      BY <3>2, <3>3 DEF Kept
  <2>3. QED
    BY <2>1, <2>2
<1>7. QED
  BY <1>3, <1>5, <1>6 DEF FormsInv

\* The API's side: a request starts, or ends with or without a form.
LEMMA RequestServed ==
  ASSUME Shape, FormsInv, asks \in Marks, NEW r \in Requests, NEW s \in Stages,
         NEW a \in Requests \cup {Nil},
         req[r] # Nil, req[r].stage \in {"sent", "running"}, s \in {"running", "waiting", "over"},
         s = "waiting" /\ a = Nil => req[r].conv \in skipped',
         req' = [req EXCEPT ![r].stage = s],
         asks' = [asks EXCEPT ![req[r].conv] = a],
         skipped \subseteq skipped', UNCHANGED <<view, talk, removals, used, phantoms>>
  PROVE  FormsInv'
<1>1. req[r] \in Request /\ req[r].conv \in Conversations
  BY DEF Shape, Request
<1>2. /\ \A q \in Requests \ {r} : req'[q] = req[q]
      /\ req'[r] # Nil /\ req'[r].conv = req[r].conv /\ req'[r].key = req[r].key
      /\ req'[r].msg = req[r].msg /\ req'[r].chat = req[r].chat /\ req'[r].stage = s
  BY MovesOn
<1>3. /\ asks'[req[r].conv] = a
      /\ \A c \in Conversations : c # req[r].conv => asks'[c] = asks[c]
  BY <1>1 DEF Marks
<1>4. UNCHANGED reading /\ \A c, m : Drawn(c, m)' = Drawn(c, m)
  BY DEF talk, Drawn
<1>5. ASSUME NEW c \in Conversations \ skipped' PROVE Kept(c)'
  <2>0. Kept(c)
    BY <1>5 DEF FormsInv
  <2>1. Open(c)' = Open(c) /\ Leaving(c)' = Leaving(c)
    BY DEF Open, Leaving
  <2>2. BusyIn(c)' \subseteq BusyIn(c)
    BY <1>2, <1>4 DEF BusyIn
  <2>3. CASE c # req[r].conv
    <3>1. BusyIn(c)' = BusyIn(c) /\ r \notin BusyIn(c)
      BY <1>2, <1>4, <2>3 DEF BusyIn
    <3>2. \A q \in BusyIn(c) : req'[q] = req[q]
      BY <1>2, <3>1 DEF BusyIn
    <3>3. \A q \in BusyIn(c) : Drawn(c, req[q].msg)' = Drawn(c, req[q].msg)
      BY <3>2 DEF Drawn
    <3>4. QED
      BY <1>3, <1>4, <2>0, <2>1, <2>3, <3>1, <3>2, <3>3 DEF Kept
  <2>4. CASE c = req[r].conv
    <3>1. r \in BusyIn(c) /\ \A q \in BusyIn(c) : q = r
      BY <2>0, <2>4 DEF BusyIn, Kept
    <3>2. ASSUME NEW m \in Open(c)
          PROVE  /\ Open(c) = {m} /\ r \in reading /\ ~req[r].chat /\ req[r].key = c
                 /\ req[r].msg = m /\ BusyIn(c)' = {r}
      <4>1. /\ Open(c) = {m} /\ r \in reading /\ ~req[r].chat /\ req[r].key = c
            /\ req[r].msg = m
        BY <2>0, <3>1 DEF Kept
      <4>2. QED
        BY <1>2, <1>4, <2>2, <2>4, <3>1, <4>1 DEF BusyIn
    <3>3. \A q \in BusyIn(c)' : q = r
      BY <2>2, <3>1
    <3>4. \A q \in BusyIn(c)' : req'[q].stage = "waiting" => asks'[c] # Nil
      BY <1>2, <1>3, <1>5, <2>4, <3>3
    <3>5. QED
      BY <1>2, <1>4, <2>1, <3>2, <3>3, <3>4 DEF Kept
  <2>5. QED
    BY <2>3, <2>4
<1>6. \A q \in Requests : req'[q] # Nil => req'[q].key \in {Nil, req'[q].conv}
  BY <1>2 DEF FormsInv
<1>7. \A c \in Conversations, m \in Requests : Drawn(c, m)' => c \in used'
  BY <1>4 DEF FormsInv
<1>8. QED
  BY <1>5, <1>6, <1>7 DEF FormsInv

\* Nothing but the new request is busy because of it.
LEMMA RequestSent ==
  ASSUME Shape, NEW r \in Requests, req[r] = Nil, NEW new \in Request,
         new.stage = "sent", req' = [req EXCEPT ![r] = new], reading' = reading \cup {r}
  PROVE  /\ req'[r] = new /\ new # Nil
         /\ \A q \in Requests \ {r} : req'[q] = req[q]
         /\ \A c \in Conversations : c # new.conv => BusyIn(c)' = BusyIn(c)
         /\ BusyIn(new.conv)' = BusyIn(new.conv) \cup {r}
         /\ \A c \in Conversations : \A q \in BusyIn(c) :
              /\ q # r /\ req'[q] = req[q] /\ (q \in reading' <=> q \in reading)
<1>1. /\ req'[r] = new /\ new # Nil
      /\ \A q \in Requests \ {r} : req'[q] = req[q]
  BY PageAssumption DEF Shape
<1>2. QED
  BY <1>1 DEF BusyIn

LEMMA SendKeepsForms == Shape /\ Rest /\ FormsInv /\ SendMessage => FormsInv'
<1> SUFFICES ASSUME Shape, Rest, FormsInv, SendMessage PROVE FormsInv'
  OBVIOUS
<1>1. PICK r \in NextRequest, c \in IF active = Nil THEN Fresh ELSE {active} :
        /\ req' = [req EXCEPT ![r] = [stage |-> "sent", user |-> user, conv |-> c,
                                      key |-> active, msg |-> r, chat |-> TRUE]]
        /\ view' = [view EXCEPT ![active][r] = "live"]
        /\ reading' = reading \cup {r}
        /\ used' = used \cup {c}
        /\ skipped' = IF HasForm(active) \/ Awaits(c) THEN skipped \cup {c} ELSE skipped
  BY DEF SendMessage
<1>2. /\ r \in Requests /\ req[r] = Nil /\ UNCHANGED <<asks, removals, phantoms>>
      /\ c \in Conversations /\ active \in Keys /\ active \in {Nil, c}
      /\ active = Nil => c \notin used
  BY <1>1, NextIsNew, FreshIsId DEF SendMessage, Shape, Keys, Fresh
<1>3. PICK new \in Request :
        /\ new.stage = "sent" /\ new.conv = c /\ new.key = active
        /\ req' = [req EXCEPT ![r] = new]
  <2> DEFINE s == [stage |-> "sent", user |-> user, conv |-> c, key |-> active, msg |-> r,
                   chat |-> TRUE]
  <2>1. s \in Request
    BY <1>2 DEF Shape, Request, Stages
  <2>2. QED
    BY <1>1, <2>1
<1>4. /\ req'[r] = new /\ new # Nil
      /\ \A q \in Requests \ {r} : req'[q] = req[q]
      /\ \A b \in Conversations : b # c => BusyIn(b)' = BusyIn(b)
      /\ BusyIn(c)' = BusyIn(c) \cup {r}
      /\ \A b \in Conversations : \A q \in BusyIn(b) :
           /\ q # r /\ req'[q] = req[q] /\ (q \in reading' <=> q \in reading)
  BY <1>1, <1>2, <1>3, RequestSent
<1>5. /\ \A k \in Keys, m \in Requests : view'[k][m] = (IF k = active /\ m = r THEN "live" ELSE view[k][m])
      /\ \A b \in Conversations : Open(b)' \subseteq Open(b) /\ (b # c => Open(b)' = Open(b))
      /\ \A b \in Conversations : Leaving(b)' = Leaving(b)
  <2>1. \A k \in Keys, m \in Requests :
          view'[k][m] = (IF k = active /\ m = r THEN "live" ELSE view[k][m])
    BY <1>1, <1>2 DEF Rest, Views
  <2>2. \A b \in Conversations : b # c => b # active
    BY <1>2, NilIsNoRequest
  <2>3. QED
    BY <1>2, <2>1, <2>2 DEF Open, Leaving, Keys
<1>6. \A b \in Conversations, m \in Requests : Drawn(b, m)' => b \in used'
  <2> SUFFICES ASSUME NEW b \in Conversations, NEW m \in Requests, Drawn(b, m)'
               PROVE  b \in used'
    OBVIOUS
  <2>1. CASE b = active
    BY <1>1, <1>2, <2>1, NilIsNoRequest
  <2>2. CASE b # active
    BY <1>1, <1>5, <2>2 DEF FormsInv, Keys, Drawn
  <2>3. QED
    BY <2>1, <2>2
<1>7. \A q \in Requests : req'[q] # Nil => req'[q].key \in {Nil, req'[q].conv}
  BY <1>2, <1>3, <1>4 DEF FormsInv
<1>8. ASSUME NEW b \in Conversations \ skipped' PROVE Kept(b)'
  <2>1. b \notin skipped /\ Kept(b)
    BY <1>1, <1>8 DEF FormsInv
  <2>2. CASE b # c
    <3>1. /\ BusyIn(b)' = BusyIn(b) /\ Open(b)' = Open(b) /\ asks'[b] = asks[b]
          /\ b # active
      BY <1>2, <1>4, <1>5, <2>2, NilIsNoRequest
    <3>2. \A q \in BusyIn(b) : Drawn(b, req[q].msg)' = Drawn(b, req[q].msg)
      <4> TAKE q \in BusyIn(b)
      <4>1. req'[q] = req[q] /\ req[q].msg \in Requests
        BY <1>4 DEF BusyIn, Shape, Request
      <4>2. QED
        BY <1>5, <3>1, <4>1 DEF Drawn, Keys
    <3>3. QED
      BY <1>4, <1>5, <2>1, <3>1, <3>2 DEF Kept
  <2>3. CASE b = c
    <3>1. ~HasForm(active) /\ ~Awaits(c)
      BY <1>1, <1>8, <2>3
    <3>2. BusyIn(c)' = {r}
      <4>1. BusyIn(c) = {}
        BY <3>1 DEF BusyIn, Awaits, AtWork
      <4>2. QED
        BY <1>4, <4>1
    <3>3. Open(c)' = {}
      <4>1. CASE active = Nil
        BY <1>2, <1>5, <4>1 DEF Open, FormsInv, Drawn
      <4>2. CASE active = c
        BY <1>2, <1>5, <3>1, <4>2 DEF Open, HasForm
      <4>3. QED
        BY <1>2, <4>1, <4>2
    <3>4. QED
      BY <1>3, <1>4, <2>3, <3>2, <3>3 DEF Kept
  <2>4. QED
    BY <2>2, <2>3
<1>9. QED
  BY <1>6, <1>7, <1>8 DEF FormsInv

LEMMA SubmitKeepsForms == Shape /\ Rest /\ FormsInv /\ SubmitForm => FormsInv'
<1> SUFFICES ASSUME Shape, Rest, FormsInv, SubmitForm PROVE FormsInv'
  OBVIOUS
<1>1. PICK c \in Conversations : c = active /\ HasForm(c)
  BY DEF SubmitForm, Shape, Keys
<1>2. PICK n \in Open(c) : n = PendingMessage(c) /\ n \in Requests
  <2>1. {m \in Requests : view[c][m] = "waiting"} # {}
    BY <1>1 DEF HasForm
  <2>2. QED
    BY <2>1, MinOfNaturals, PageAssumption DEF Open, PendingMessage
<1>3. PICK r \in NextRequest :
        /\ req' = [req EXCEPT ![r] = [stage |-> "sent", user |-> user, conv |-> c, key |-> c,
                                      msg |-> n, chat |-> FALSE]]
        /\ reading' = reading \cup {r}
        /\ skipped' = IF Awaits(c) THEN skipped \cup {c} ELSE skipped
  BY <1>1, <1>2 DEF SubmitForm
<1>4. /\ r \in Requests /\ req[r] = Nil
      /\ UNCHANGED <<asks, removals, phantoms, view, used>>
  BY <1>3, NextIsNew DEF SubmitForm
<1>5. PICK new \in Request :
        /\ new.stage = "sent" /\ new.conv = c /\ new.key = c /\ new.msg = n /\ ~new.chat
        /\ req' = [req EXCEPT ![r] = new]
  <2> DEFINE s == [stage |-> "sent", user |-> user, conv |-> c, key |-> c, msg |-> n,
                   chat |-> FALSE]
  <2>1. s \in Request
    BY <1>1, <1>2 DEF Shape, Request, Stages, Keys
  <2>2. QED
    BY <1>3, <2>1
<1>6. /\ req'[r] = new /\ new # Nil
      /\ \A q \in Requests \ {r} : req'[q] = req[q]
      /\ \A b \in Conversations : b # c => BusyIn(b)' = BusyIn(b)
      /\ BusyIn(c)' = BusyIn(c) \cup {r}
      /\ \A b \in Conversations : \A q \in BusyIn(b) :
           /\ q # r /\ req'[q] = req[q] /\ (q \in reading' <=> q \in reading)
  BY <1>3, <1>4, <1>5, RequestSent
<1>7. \A b \in Conversations : /\ Open(b)' = Open(b) /\ Leaving(b)' = Leaving(b)
                               /\ \A m : Drawn(b, m)' = Drawn(b, m)
  BY <1>4 DEF Open, Leaving, Drawn
<1>8. ASSUME NEW b \in Conversations \ skipped' PROVE Kept(b)'
  <2>0. Kept(b)
    BY <1>3, <1>8 DEF FormsInv
  <2>1. CASE b # c
    <3>1. BusyIn(b)' = BusyIn(b) /\ asks'[b] = asks[b]
      BY <1>4, <1>5, <1>6, <2>1
    <3>2. \A q \in BusyIn(b) : Drawn(b, req[q].msg)' = Drawn(b, req[q].msg)
      BY <1>4, <1>6 DEF Drawn
    <3>3. QED
      BY <1>6, <1>7, <2>0, <3>1, <3>2 DEF Kept
  <2>2. CASE b = c
    <3>1. BusyIn(c) = {}
      BY <1>3, <1>8, <2>2 DEF BusyIn, Awaits, AtWork
    <3>2. Open(c) = {n} /\ BusyIn(c)' = {r}
      BY <1>2, <1>5, <1>6, <2>0, <2>2, <3>1 DEF Kept
    <3>3. QED
      BY <1>3, <1>5, <1>6, <1>7, <2>2, <3>2 DEF Kept
  <2>3. QED
    BY <2>1, <2>2
<1>9. \A q \in Requests : req'[q] # Nil => req'[q].key \in {Nil, req'[q].conv}
  BY <1>5, <1>6 DEF FormsInv
<1>10. \A b \in Conversations, m \in Requests : Drawn(b, m)' => b \in used'
  BY <1>4, <1>7 DEF FormsInv
<1>11. QED
  BY <1>8, <1>9, <1>10 DEF FormsInv

LEMMA TalkKeepsForms == Shape /\ Rest /\ FormsInv /\ Talk => FormsInv'
<1> SUFFICES ASSUME Shape, Rest, FormsInv, Talk PROVE FormsInv'
  OBVIOUS
<1>1. CASE SendMessage
  BY <1>1, SendKeepsForms
<1>2. CASE SubmitForm
  BY <1>2, SubmitKeepsForms
<1>3. ASSUME NEW r \in Requests, ChunkArrives(r) PROVE FormsInv'
  <2>1. /\ UNCHANGED <<req, asks, skipped, used, reading, removals, phantoms>>
        /\ r \in reading /\ (view' = view \/ Show(r, "live"))
    BY <1>3 DEF ChunkArrives, api, ghosts
  <2>2. req[r].key \in Keys /\ req[r].msg \in Requests
    BY <2>1, ReadRequests DEF Request
  <2>3. \A c \in Conversations, m \in Requests :
          /\ view'[c][m] = "waiting" => view[c][m] = "waiting"
          /\ Drawn(c, m)' => Drawn(c, m)
    <3>1. CASE view' = view
      BY <3>1 DEF Drawn
    <3>2. CASE Show(r, "live")
      BY <2>2, <3>2 DEF Show, Drawn, Rest, Views, Keys
    <3>3. QED
      BY <2>1, <3>1, <3>2
  <2>4. \A c : Leaving(c) => Leaving(c)'
    BY <2>1 DEF Leaving
  <2>5. QED
    BY <2>1, <2>3, <2>4, NothingOpens
<1>4. ASSUME NEW r \in Requests, FinishReading(r) PROVE FormsInv'
  <2>1. PICK s \in Shown :
          Show(r, s) /\ (s = "settled" \/ (s = "waiting" /\ req[r].stage = "waiting"))
    BY <1>4 DEF FinishReading, Shown
  <2>2. /\ UNCHANGED <<asks, skipped, used, removals, phantoms, req>>
        /\ r \in reading /\ reading' = reading \ {r}
    BY <1>4 DEF FinishReading, Release, api
  <2>3. QED
    BY <2>1, <2>2, ResponseFolded DEF Rest
<1>5. CASE Abort
  <2>1. /\ UNCHANGED <<asks, skipped, used, removals, phantoms, req>>
        /\ stop \in reading /\ reading' = reading \ {stop}
        /\ "settled" \in Shown /\ Show(stop, "settled")
    BY <1>5, ReadRequests DEF Abort, Release, api, Shown
  <2>2. QED
    BY <2>1, ResponseFolded DEF Rest
<1>6. ASSUME NEW r \in Requests, ConnectionLost(r) PROVE FormsInv'
  <2>1. /\ UNCHANGED <<asks, skipped, used, removals, phantoms>>
        /\ r \in reading /\ reading' = reading \ {r}
        /\ "settled" \in Shown /\ Show(r, "settled")
        /\ req' = req \/ (req[r].stage = "sent" /\ req' = [req EXCEPT ![r].stage = "lost"])
    BY <1>6 DEF ConnectionLost, Release, Shown
  <2>2. QED
    BY <2>1, ResponseFolded DEF Rest
<1>7. ASSUME NEW r \in Requests, RequestStarts(r) PROVE FormsInv'
  <2>1. /\ req[r] # Nil /\ req[r].stage \in {"sent", "running"} /\ "running" \in Stages
        /\ req' = [req EXCEPT ![r].stage = "running"]
        /\ asks' = [asks EXCEPT ![req[r].conv] = Nil]
        /\ UNCHANGED <<view, talk, removals, used, skipped, phantoms>>
    BY <1>7 DEF RequestStarts, Stages, ghosts
  <2>2. QED
    BY <2>1, RequestServed DEF Rest
<1>8. ASSUME NEW r \in Requests, NEW s \in {"waiting", "over"}, NEW a \in Requests \cup {Nil},
             Finalize(r, s, a), skipped \subseteq skipped',
             s = "waiting" /\ a = Nil => req[r].conv \in skipped'
      PROVE  FormsInv'
  <2>1. /\ req[r] # Nil /\ req[r].stage \in {"sent", "running"} /\ s \in Stages
        /\ req' = [req EXCEPT ![r].stage = s]
        /\ asks' = [asks EXCEPT ![req[r].conv] = a]
        /\ UNCHANGED <<view, talk, removals, used, phantoms>>
    BY <1>8 DEF Finalize, Stages
  <2>2. QED
    BY <1>8, <2>1, RequestServed DEF Rest
<1>9. ASSUME NEW r \in Requests, NEW s \in {"waiting", "over"}, RequestEnds(r, s) PROVE FormsInv'
  <2>1. CASE s = "waiting"
    BY <1>8, <1>9, <2>1, NilIsNoRequest DEF RequestEnds
  <2>2. CASE s = "over"
    BY <1>8, <1>9, <2>2 DEF RequestEnds
  <2>3. QED
    BY <2>1, <2>2
<1>10. ASSUME NEW r \in Requests, ErrorMisread(r) PROVE FormsInv'
  BY <1>8, <1>10 DEF ErrorMisread
<1>11. QED
  BY <1>1, <1>2, <1>3, <1>4, <1>5, <1>6, <1>7, <1>9, <1>10 DEF Talk

\* Taking a conversation off the page opens no form, and closes its own.
LEMMA TakeOffForms ==
  ASSUME Shape, Rest, NEW k \in Conversations, NEW seen, TakeOff(k, seen)
  PROVE  /\ used \subseteq used'
         /\ reading' \subseteq reading /\ \A r \in reading \ reading' : req[r].chat
         /\ \A c \in Conversations, m \in Requests :
              /\ view'[c][m] = "waiting" => view[c][m] = "waiting"
              /\ Drawn(c, m)' => Drawn(c, m) /\ c # k
<1> DEFINE gone == [view EXCEPT ![k] = NoView[k]]
           Gone(c, m) == gone[c][m] \in {"none", "restored"}
<1>1. /\ gone \in Views
      /\ \A c \in Conversations, m \in Requests :
           ~Gone(c, m) => gone[c][m] = view[c][m] /\ c # k
  BY NoViewType, PlaceType DEF Rest, Views, NoView
<1>2. \/ view' = gone
      \/ /\ stop # Nil
         /\ view' = [gone EXCEPT ![req[stop].key][stop] =
                       IF @ \in {"none", "restored"} THEN @ ELSE "settled"]
  BY DEF TakeOff
<1>3. stop # Nil => req[stop].key \in Keys /\ stop \in Requests
  BY ReadRequests DEF Request
<1> HIDE DEF gone
<1>4. \A c \in Conversations, m \in Requests :
        /\ view'[c][m] = "waiting" => gone[c][m] = "waiting"
        /\ view'[c][m] \notin {"none", "restored"} => ~Gone(c, m)
  <2>1. CASE view' = gone
    BY <2>1
  <2>2. CASE stop # Nil /\ view' = [gone EXCEPT ![req[stop].key][stop] =
                                      IF @ \in {"none", "restored"} THEN @ ELSE "settled"]
    BY <1>1, <1>3, <2>2, PlaceType DEF Views
  <2>3. QED
    BY <1>2, <2>1, <2>2
<1>5. used \subseteq used'
  <2>1. CASE list \ {k} = {}
    BY <2>1 DEF TakeOff
  <2>2. CASE list \ {k} # {}
    BY <2>2 DEF TakeOff
  <2>3. QED
    BY <2>1, <2>2
<1>6. reading' \subseteq reading /\ \A r \in reading \ reading' : req[r].chat
  BY TakeOffShape DEF Shape
<1>7. QED
  BY <1>1, <1>4, <1>5, <1>6 DEF Drawn

LEMMA NextKeepsForms == Shape /\ Rest /\ FormsInv /\ [Next]_vars => FormsInv'
<1> SUFFICES ASSUME Shape, Rest, FormsInv, [Next]_vars PROVE FormsInv'
  OBVIOUS
<1>1. CASE Talk
  BY <1>1, TalkKeepsForms
<1>2. ASSUME UNCHANGED <<req, asks, skipped, view, reading>>, used \subseteq used',
             \A c : Leaving(c) => Leaving(c)'
      PROVE  FormsInv'
  BY <1>2, NothingOpens DEF Drawn
<1>3. ASSUME NEW k \in Conversations, SwitchTo(k) PROVE FormsInv'
  BY <1>2, <1>3 DEF SwitchTo, Leaving, api
<1>4. ASSUME NEW k \in Conversations, RemoveDraft(k) PROVE FormsInv'
  <2>1. TakeOff(k, active) /\ UNCHANGED <<req, asks, skipped, removals, phantoms>>
    BY <1>4 DEF RemoveDraft, api
  <2>2. QED
    BY <2>1, TakeOffForms, NothingOpens DEF Leaving
<1>5. ASSUME NEW k \in Conversations, RemoveConversation(k) PROVE FormsInv'
  BY <1>2, <1>5 DEF RemoveConversation, Leaving, api, talk
<1>6. CASE NewChat
  BY <1>2, <1>6 DEF NewChat, Leaving, api
<1>7. ASSUME NEW d \in removals, RemovalServed(d) PROVE FormsInv'
  <2>1. d.stage = "sent" /\ UNCHANGED <<req, skipped, view, reading, used, phantoms>>
    BY <1>7 DEF RemovalServed, ghosts, talk
  <2>2. CASE stored[d.user][d.conv] = Nil
    BY <1>2, <1>7, <2>1, <2>2 DEF RemovalServed, Leaving
  <2>3. CASE stored[d.user][d.conv] # Nil
    <3>1. /\ asks' = [asks EXCEPT ![d.conv] = Nil]
          /\ removals' = (removals \ {d}) \cup {[d EXCEPT !.stage = "done"]}
      BY <1>7, <2>3 DEF RemovalServed
    <3>2. [d EXCEPT !.stage = "done"].conv = d.conv /\ [d EXCEPT !.stage = "done"].stage = "done"
      BY DEF Shape
    <3>3. Leaving(d.conv)' /\ \A c : Leaving(c) => Leaving(c)'
      BY <2>1, <3>1, <3>2 DEF Leaving
    <3>4. \A c \in Conversations : c # d.conv => asks'[c] = asks[c]
      BY <3>1 DEF Rest, Marks
    <3>5. \A c \in Conversations : /\ BusyIn(c)' = BusyIn(c) /\ Open(c)' = Open(c)
                                   /\ \A m : Drawn(c, m)' = Drawn(c, m)
      BY <2>1 DEF BusyIn, Open, Drawn
    <3>8. \A c \in Conversations : \A q \in BusyIn(c) :
            Drawn(c, req[q].msg)' = Drawn(c, req[q].msg)
      BY <2>1 DEF Drawn
    <3>6. ASSUME NEW c \in Conversations, Kept(c) PROVE Kept(c)'
      <4>1. CASE c = d.conv
        BY <2>1, <3>3, <3>5, <3>6, <3>8, <4>1 DEF Kept
      <4>2. CASE c # d.conv
        BY <2>1, <3>3, <3>4, <3>5, <3>6, <3>8, <4>2 DEF Kept
      <4>3. QED
        BY <4>1, <4>2
    <3>7. QED
      BY <2>1, <3>5, <3>6 DEF FormsInv
  <2>4. QED
    BY <2>2, <2>3
<1>8. ASSUME NEW d \in removals, RemovalDone(d) PROVE FormsInv'
  <2>1. /\ TakeOff(d.conv, d.seen) /\ UNCHANGED <<req, asks, skipped, phantoms>>
        /\ removals' = removals \ {d} /\ d.conv \in Conversations
    BY <1>8 DEF RemovalDone, api, Shape
  <2>2. \A c \in Conversations : c # d.conv /\ Leaving(c) => Leaving(c)'
    BY <2>1 DEF Leaving
  <2>3. QED
    BY <2>1, <2>2, TakeOffForms, NothingOpens
<1>9. ASSUME NEW u \in Users, SetSession(u) PROVE FormsInv'
  <2>1. view' = NoView /\ UNCHANGED <<req, asks, skipped, reading, used>>
    BY <1>9 DEF SetSession, api
  <2>2. \A c \in Conversations, m \in Requests : view'[c][m] = "none"
    BY <2>1 DEF NoView, Keys
  <2>3. QED
    BY <2>1, <2>2, NothingOpens DEF Drawn
<1>10. CASE LoadArrives
  <2>1. UNCHANGED <<req, asks, skipped, reading>> /\ used \subseteq used'
    BY <1>10 DEF LoadArrives, api
  <2>2. \A c \in Conversations, m \in Requests : view'[c][m] \in {"none", "restored"}
    BY <1>10 DEF LoadArrives, NoView, Keys
  <2>3. QED
    BY <2>1, <2>2, NothingOpens DEF Drawn
<1>11. CASE LoadServed \/ LoadFails
  BY <1>2, <1>11 DEF LoadServed, LoadFails, Leaving, api, ghosts, talk
<1>12. ASSUME NEW f \in fetches, TreeArrives(f) \/ TreeFails(f) PROVE FormsInv'
  BY <1>2, <1>12 DEF TreeArrives, TreeFails, Leaving, api, ghosts, talk
<1>13. ASSUME NEW d \in removals, RemovalLost(d) PROVE FormsInv'
  <2>1. UNCHANGED <<req, asks, skipped, view, reading, used>>
    BY <1>13 DEF RemovalLost, api, talk
  <2>2. /\ removals' = removals \ {d}
        /\ phantoms' = IF d.stage = "done" THEN phantoms \cup {d.conv} ELSE phantoms
    BY <1>13 DEF RemovalLost
  <2>3. \A c : Leaving(c) => Leaving(c)'
    BY <2>2 DEF Leaving
  <2>4. QED
    BY <1>2, <2>1, <2>3
<1>14. CASE UNCHANGED vars
  BY <1>2, <1>14 DEF vars, Leaving, api, ghosts, talk
<1>15. QED
  BY <1>1, <1>3, <1>4, <1>5, <1>6, <1>7, <1>8, <1>9, <1>10, <1>11, <1>12, <1>13, <1>14
  DEF Next, Talk

(* The page asks the user only what the agent waits to hear: a form that is *)
(* open is that of an interrupt the graph holds, whatever is answered,      *)
(* stopped, lost, removed or loaded, unless a message was sent past it, a   *)
(* message or an answer past one still at work, an error was taken for an   *)
(* interrupt, or a removal was answered by an error.                        *)
THEOREM FormsStayAsked == Spec => []OpenFormsAreAsked
<1>1. Init => FormsInv
  <2> SUFFICES ASSUME Init PROVE FormsInv
    OBVIOUS
  <2>1. \A r \in Requests : req[r] = Nil
    BY DEF Init
  <2>2. \A c \in Conversations, m \in Requests : view[c][m] = "none"
    BY DEF Init, NoView, Keys
  <2>3. \A c \in Conversations : BusyIn(c) = {} /\ Open(c) = {}
    BY <2>1, <2>2 DEF BusyIn, Open
  <2>4. \A c \in Conversations : Kept(c)
    BY <2>3 DEF Kept
  <2>5. QED
    BY <2>1, <2>2, <2>4 DEF FormsInv, Drawn
<1>2. Shape /\ FormsInv => OpenFormsAreAsked
  <2> SUFFICES ASSUME Shape, FormsInv, NEW c \in list \ (skipped \cup phantoms), NEW m \in Requests,
                      view[c][m] = "waiting", \A r \in reading : req[r].key # c,
                      \A d \in removals : d.conv # c
               PROVE  asks[c] # Nil
    BY DEF OpenFormsAreAsked
  <2>1. Kept(c) /\ m \in Open(c) /\ ~Leaving(c)
    BY DEF Shape, FormsInv, Open, Leaving
  <2>2. \A q \in BusyIn(c) : q \in reading /\ req[q].key = c
    BY <2>1 DEF Kept
  <2>3. BusyIn(c) = {}
    BY <2>2
  <2>4. QED
    BY <2>1, <2>3 DEF Kept
<1>3. QED
  BY <1>1, <1>2, InitTyped, NextPageShape, NextRest, NextKeepsForms, PTL DEF Spec
=============================================================================
