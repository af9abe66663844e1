---------------------------- MODULE TerminalProofs ----------------------------
(***************************************************************************)
(* Proofs about the terminals: the sessions and attachments the manager    *)
(* shares out, and the relay inside one attachment.                        *)
(*                                                                         *)
(* TerminalSessions, for any sessions, requests and attachments:           *)
(* OneClientEach is inductive by itself, given the types; that no request  *)
(* fails needs what is known of one at its recheck, and the count of other *)
(* clients what the snapshot of the map still says.                        *)
(*                                                                         *)
(* TerminalRelay, for any number of viewers and any limits: the history is *)
(* the newest output, and what a viewer is forwarded has no unreported gap *)
(* and no repetition.  The two have no constant and no variable in common. *)
(***************************************************************************)
EXTENDS TerminalSessions, TerminalRelay, FiniteSetTheorems, TLAPS

-----------------------------------------------------------------------------
(* The sessions.                                                           *)

\* The parts of TypeOK.
Types ==
  /\ live \subseteq Names /\ others \in [Names -> Nat]
  /\ child \in [Attachments -> Children] /\ of \in [Attachments -> Names]
  /\ slot \in [Names -> Attachments \cup {None}]
  /\ req \in [Requests -> RequestSet]
  /\ list \in [at : {"idle", "asked"}, mine : SUBSET Names]
  /\ moved \subseteq Names /\ ended \subseteq Requests /\ refused \subseteq Requests

SlotsExist ==
  \A n \in Names : slot[n] # None => child[slot[n]] # "none" /\ of[slot[n]] = n

HeldExist ==
  \A r \in Requests : req[r].held # None => child[req[r].held] # "none" /\ of[req[r].held] = req[r].name

\* What Attach does when the attachment in the map is not shared.
NewAttachment(r, a) ==
  LET n == req[r].name
  IN /\ child[a] = "none"
     /\ child' = [b \in Attachments |->
          IF b = a THEN "starting"
          ELSE IF b = slot[n] /\ \A q \in Requests : req[q].held # b THEN "none"
          ELSE child[b]]
     /\ of' = [of EXCEPT ![a] = n]
     /\ slot' = [slot EXCEPT ![n] = a]
     /\ req' = [req EXCEPT ![r].at = "viewing", ![r].held = a]
     /\ moved' = (IF list.at = "asked" THEN moved \cup {n} ELSE moved)

LEMMA AttachNew ==
  ASSUME NEW r \in Requests, Attach(r), ~Shares(req[r].name)
  PROVE \E a \in Attachments : NewAttachment(r, a)
  BY DEF Attach, NewAttachment, Moves

\* Every action keeps the plain types.
LEMMA TypesStep == ASSUME Types, [Next]_vars PROVE Types'
<1> USE DefaultAssumption, NoneAssumption DEF Types, Children, RequestSet
<1>1. ASSUME NEW r \in Requests, Call(r) PROVE Types'
  <2>1. PICK n \in Names, kind \in {"create", "view"} :
          req' = [req EXCEPT ![r] = [Idle EXCEPT !.kind = kind, !.at = "has", !.name = n]]
    BY <1>1 DEF Call
  <2>2. [Idle EXCEPT !.kind = kind, !.at = "has", !.name = n] \in RequestSet
    BY DEF Idle
  <2>3. req' \in [Requests -> RequestSet]
    BY <2>1, <2>2
  <2> QED BY <1>1, <2>3 DEF Call, tmuxVars, attachmentVars
<1>2. ASSUME NEW r \in Requests, HasSession(r) PROVE Types'
  BY <1>2 DEF HasSession, Ensured, Goto, Leaves, Idle, tmuxVars, attachmentVars
<1>3. ASSUME NEW r \in Requests, NewSession(r) PROVE Types'
  BY <1>3 DEF NewSession, Ensured, Goto, Leaves, Idle, tmuxVars, attachmentVars
<1>4. ASSUME NEW r \in Requests, Recheck(r) PROVE Types'
  BY <1>4 DEF Recheck, Ensured, Goto, Leaves, Idle, tmuxVars, attachmentVars
<1>5. ASSUME NEW r \in Requests, Attach(r) PROVE Types'
  <2>1. CASE Shares(req[r].name)
    BY <1>5, <2>1 DEF Attach, Shares, tmuxVars, attachmentVars
  <2>2. CASE ~Shares(req[r].name)
    <3>1. PICK a \in Attachments : NewAttachment(r, a)
      BY <1>5, <2>2, AttachNew
    <3>2. req' \in [Requests -> RequestSet]
      <4>1. req[r] \in RequestSet
        OBVIOUS
      <4>2. [req[r] EXCEPT !.at = "viewing", !.held = a] \in RequestSet
        BY <4>1
      <4>3. req' = [req EXCEPT ![r] = [req[r] EXCEPT !.at = "viewing", !.held = a]]
        BY <3>1 DEF NewAttachment
      <4> QED BY <4>2, <4>3
    <3>3. child' \in [Attachments -> Children]
      BY <3>1 DEF NewAttachment
    <3>4. of' \in [Attachments -> Names] /\ slot' \in [Names -> Attachments \cup {None}]
      BY <3>1 DEF NewAttachment
    <3>5. moved' \subseteq Names
      BY <3>1 DEF NewAttachment
    <3>6. UNCHANGED <<live, others, list, ended, refused>>
      BY <1>5 DEF Attach, tmuxVars
    <3> QED BY <3>2, <3>3, <3>4, <3>5, <3>6
  <2> QED BY <2>1, <2>2
<1>6. ASSUME NEW r \in Requests, ViewerLeaves(r) PROVE Types'
  BY <1>6 DEF ViewerLeaves, Leaves, Idle, tmuxVars
<1>13. ASSUME NEW r \in Requests, CommandFails(r) PROVE Types'
  BY <1>13 DEF CommandFails, Leaves, Idle, tmuxVars, attachmentVars
<1>14. ASSUME NEW r \in Requests, AttachFails(r) PROVE Types'
  <2>1. child' \in [Attachments -> Children]
    BY <1>14 DEF AttachFails
  <2>2. slot' \in [Names -> Attachments \cup {None}] /\ moved' \subseteq Names
    BY <1>14 DEF AttachFails, Moves
  <2>3. req' \in [Requests -> RequestSet]
    BY <1>14 DEF AttachFails, Leaves, Idle
  <2> QED BY <1>14, <2>1, <2>2, <2>3 DEF AttachFails, tmuxVars
<1>7. CASE ListAsks \/ ListAnswers
  BY <1>7 DEF ListAsks, ListAnswers, Snapshot, tmuxVars, attachmentVars
<1>8. ASSUME NEW a \in Attachments, ClientAttaches(a) \/ ClientExits(a) PROVE Types'
  BY <1>8 DEF ClientAttaches, ClientExits, Moves, tmuxVars
<1>9. ASSUME NEW n \in Names, SessionEnds(n) PROVE Types'
  BY <1>9 DEF SessionEnds, Moves
<1>10. ASSUME NEW n \in Names, OtherAttaches(n) \/ OtherLeaves(n) PROVE Types'
  BY <1>10 DEF OtherAttaches, OtherLeaves, attachmentVars
<1>11. CASE Restart
  BY <1>11 DEF Restart, Idle
<1>12. CASE UNCHANGED vars
  BY <1>12 DEF vars, tmuxVars, attachmentVars
<1> QED
  BY <1>1, <1>2, <1>3, <1>4, <1>5, <1>6, <1>7, <1>8, <1>9, <1>10, <1>11, <1>12,
     <1>13, <1>14 DEF Next

\* An attachment that the map or a viewer holds exists, for the right session:
\* what Attach replaces and what a viewer leaves is dropped only if nobody else
\* holds it.
LEMMA ReferencesStep ==
  ASSUME Types, SlotsExist, HeldExist, [Next]_vars
  PROVE SlotsExist' /\ HeldExist'
<1> USE DefaultAssumption, NoneAssumption DEF Types, Children, RequestSet, SlotsExist, HeldExist
<1>1. ASSUME NEW r \in Requests, Call(r) PROVE SlotsExist' /\ HeldExist'
  BY <1>1 DEF Call, Idle, tmuxVars, attachmentVars
<1>2. ASSUME NEW r \in Requests, HasSession(r) \/ NewSession(r) \/ Recheck(r) \/ CommandFails(r)
      PROVE SlotsExist' /\ HeldExist'
  <2>1. \/ req' = [req EXCEPT ![r] = Idle]
        \/ req' = [req EXCEPT ![r].at = "new"]
        \/ req' = [req EXCEPT ![r].at = "recheck"]
        \/ req' = [req EXCEPT ![r].at = "attach"]
    <3>1. CASE HasSession(r)
      BY <3>1 DEF HasSession, Ensured, Goto, Leaves
    <3>2. CASE NewSession(r)
      BY <3>2 DEF NewSession, Ensured, Goto, Leaves
    <3>3. CASE Recheck(r)
      BY <3>3 DEF Recheck, Ensured, Goto, Leaves
    <3>4. CASE CommandFails(r)
      BY <3>4 DEF CommandFails, Leaves
    <3> QED BY <1>2, <3>1, <3>2, <3>3, <3>4
  <2>2. UNCHANGED <<child, of, slot>>
    BY <1>2 DEF HasSession, NewSession, Recheck, CommandFails, attachmentVars
  <2>3. ASSUME NEW q \in Requests, req'[q].held # None
        PROVE req'[q].held = req[q].held /\ req'[q].name = req[q].name
    BY <2>1, <2>3 DEF Idle
  <2> QED BY <2>2, <2>3
<1>3. ASSUME NEW r \in Requests, Attach(r) PROVE SlotsExist' /\ HeldExist'
  <2>1. CASE Shares(req[r].name)
    <3>1. req' = [req EXCEPT ![r].at = "viewing", ![r].held = slot[req[r].name]]
      BY <1>3, <2>1 DEF Attach
    <3>2. UNCHANGED attachmentVars
      BY <1>3, <2>1 DEF Attach
    <3> QED BY <2>1, <3>1, <3>2 DEF Shares, attachmentVars
  <2>2. CASE ~Shares(req[r].name)
    <3>1. PICK a \in Attachments : NewAttachment(r, a)
      BY <1>3, <2>2, AttachNew
    <3>2. \A n \in Names : slot[n] # a
      BY <3>1 DEF NewAttachment
    <3>3. \A q \in Requests : req[q].held # a
      BY <3>1 DEF NewAttachment
    <3>4. SlotsExist'
      <4> SUFFICES ASSUME NEW n \in Names, slot'[n] # None
                   PROVE child'[slot'[n]] # "none" /\ of'[slot'[n]] = n
        OBVIOUS
      <4>1. CASE n = req[r].name
        BY <3>1, <4>1 DEF NewAttachment
      <4>2. CASE n # req[r].name
        <5>1. slot'[n] = slot[n] /\ slot[n] \in Attachments /\ slot[n] # a
          BY <3>1, <3>2, <4>2 DEF NewAttachment
        <5>2. slot[n] # slot[req[r].name]
          BY <4>2, <5>1
        <5> QED BY <3>1, <5>1, <5>2 DEF NewAttachment
      <4> QED BY <4>1, <4>2
    <3>5. HeldExist'
      <4> SUFFICES ASSUME NEW q \in Requests, req'[q].held # None
                   PROVE child'[req'[q].held] # "none" /\ of'[req'[q].held] = req'[q].name
        OBVIOUS
      <4>1. CASE q = r
        BY <3>1, <4>1 DEF NewAttachment
      <4>2. CASE q # r
        <5>1. req'[q] = req[q] /\ req[q].held \in Attachments /\ req[q].held # a
          BY <3>1, <3>3, <4>2 DEF NewAttachment
        <5> QED BY <3>1, <5>1 DEF NewAttachment
      <4> QED BY <4>1, <4>2
    <3> QED BY <3>4, <3>5
  <2> QED BY <2>1, <2>2
<1>4. ASSUME NEW r \in Requests, ViewerLeaves(r) PROVE SlotsExist' /\ HeldExist'
  <2>1. req' = [req EXCEPT ![r] = Idle] /\ UNCHANGED <<of, slot>>
    BY <1>4 DEF ViewerLeaves, Leaves
  <2>2. CASE Referenced(req[r].held, r)
    BY <1>4, <2>1, <2>2 DEF ViewerLeaves, Idle
  <2>3. CASE ~Referenced(req[r].held, r)
    <3>1. child' = [child EXCEPT ![req[r].held] = "none"]
      BY <1>4, <2>3 DEF ViewerLeaves
    <3>2. \A n \in Names : slot[n] # req[r].held
      BY <2>3 DEF Referenced
    <3>3. \A q \in Requests \ {r} : req[q].held # req[r].held
      BY <2>3 DEF Referenced
    <3> QED BY <2>1, <3>1, <3>2, <3>3 DEF Idle
  <2> QED BY <2>2, <2>3
<1>11. ASSUME NEW r \in Requests, AttachFails(r) PROVE SlotsExist' /\ HeldExist'
  <2> DEFINE n == req[r].name
  <2>1. /\ n \in Names /\ of' = of
        /\ slot' = [slot EXCEPT ![n] = None] /\ req' = [req EXCEPT ![r] = Idle]
        /\ child' = [b \in Attachments |->
             IF b = slot[n] /\ \A q \in Requests : req[q].held # b THEN "none" ELSE child[b]]
    BY <1>11 DEF AttachFails, Leaves
  <2>2. SlotsExist'
    <3> SUFFICES ASSUME NEW m \in Names, slot'[m] # None
                 PROVE child'[slot'[m]] # "none" /\ of'[slot'[m]] = m
      OBVIOUS
    <3>1. m # n /\ slot'[m] = slot[m] /\ slot[m] \in Attachments
      BY <2>1
    <3>2. slot[m] # slot[n]
      BY <2>1, <3>1
    <3> QED BY <2>1, <3>1, <3>2
  <2>3. HeldExist'
    <3> SUFFICES ASSUME NEW q \in Requests, req'[q].held # None
                 PROVE child'[req'[q].held] # "none" /\ of'[req'[q].held] = req'[q].name
      OBVIOUS
    <3>1. req'[q] = req[q] /\ req[q].held \in Attachments
      BY <2>1 DEF Idle
    <3> QED BY <2>1, <3>1
  <2> QED BY <2>2, <2>3
<1>5. CASE ListAsks \/ ListAnswers
  BY <1>5 DEF ListAsks, ListAnswers, tmuxVars, attachmentVars
<1>6. ASSUME NEW a \in Attachments, ClientAttaches(a) \/ ClientExits(a) PROVE SlotsExist' /\ HeldExist'
  BY <1>6 DEF ClientAttaches, ClientExits, tmuxVars
<1>7. ASSUME NEW n \in Names, SessionEnds(n) PROVE SlotsExist' /\ HeldExist'
  BY <1>7 DEF SessionEnds
<1>8. ASSUME NEW n \in Names, OtherAttaches(n) \/ OtherLeaves(n) PROVE SlotsExist' /\ HeldExist'
  BY <1>8 DEF OtherAttaches, OtherLeaves, attachmentVars
<1>9. CASE Restart
  BY <1>9 DEF Restart, Idle
<1>10. CASE UNCHANGED vars
  BY <1>10 DEF vars, tmuxVars, attachmentVars
<1> QED
  BY <1>1, <1>2, <1>3, <1>4, <1>5, <1>6, <1>7, <1>8, <1>9, <1>10, <1>11 DEF Next

LEMMA TypesInit == Init => Types /\ SlotsExist /\ HeldExist
  BY DefaultAssumption, NoneAssumption
  DEF Init, Idle, Types, SlotsExist, HeldExist, Children, RequestSet

LEMMA TypeParts == TypeOK <=> Types /\ SlotsExist /\ HeldExist
  BY DEF TypeOK, Types, SlotsExist, HeldExist

\* The types of TerminalSessions hold, and an attachment exists as long as the
\* map or a viewer holds it.
THEOREM SessionTypes == Spec => []TypeOK
<1>1. Init => TypeOK
  BY TypesInit, TypeParts
<1>2. TypeOK /\ [Next]_vars => TypeOK'
  <2> SUFFICES ASSUME TypeOK, [Next]_vars PROVE TypeOK'
    OBVIOUS
  <2>1. Types' /\ SlotsExist' /\ HeldExist'
    BY TypesStep, ReferencesStep, TypeParts
  <2> QED BY <2>1 DEF TypeOK, Types, SlotsExist, HeldExist
<1> QED BY <1>1, <1>2, PTL DEF Spec

LEMMA OneClientStep ==
  ASSUME TypeOK, OneClientEach, [Next]_vars
  PROVE OneClientEach'
<1> USE DefaultAssumption, NoneAssumption DEF OneClientEach, Alive
<1>0. Types /\ SlotsExist /\ HeldExist
  BY TypeParts
<1>1. CASE UNCHANGED attachmentVars
  BY <1>1 DEF attachmentVars
<1>2. ASSUME NEW r \in Requests, Attach(r), ~Shares(req[r].name) PROVE OneClientEach'
  <2>1. PICK a \in Attachments : NewAttachment(r, a)
    BY <1>2, AttachNew
  <2> DEFINE n == req[r].name
  <2>2. n \in Names /\ of \in [Attachments -> Names] /\ slot \in [Names -> Attachments \cup {None}]
    BY <1>0 DEF Types, RequestSet
  <2>3. ASSUME NEW b \in Attachments, Alive(b)' PROVE slot'[of'[b]] = b
    <3>1. CASE b = a
      BY <2>1, <2>2, <3>1 DEF NewAttachment
    <3>2. CASE b # a
      <4>1. Alive(b) /\ of'[b] = of[b]
        BY <2>1, <2>2, <2>3, <3>2 DEF NewAttachment
      <4>2. slot[of[b]] = b
        BY <4>1
      <4>3. of[b] # n
        BY <1>2, <2>2, <4>1, <4>2 DEF Shares
      <4> QED BY <2>1, <2>2, <4>1, <4>2, <4>3 DEF NewAttachment
    <3> QED BY <3>1, <3>2
  <2> QED BY <2>3
<1>3. ASSUME NEW r \in Requests, ViewerLeaves(r) PROVE OneClientEach'
  BY <1>0, <1>3 DEF ViewerLeaves, Types
<1>4. ASSUME NEW a \in Attachments, ClientAttaches(a) \/ ClientExits(a) PROVE OneClientEach'
  BY <1>0, <1>4 DEF ClientAttaches, ClientExits, Types
<1>5. ASSUME NEW n \in Names, SessionEnds(n) PROVE OneClientEach'
  BY <1>0, <1>5 DEF SessionEnds, Types
<1>6. CASE Restart
  BY <1>6 DEF Restart
<1>9. ASSUME NEW r \in Requests, AttachFails(r) PROVE OneClientEach'
  <2> DEFINE n == req[r].name
  <2>1. /\ n \in Names /\ of \in [Attachments -> Names] /\ slot \in [Names -> Attachments \cup {None}]
    BY <1>0 DEF Types, RequestSet
  <2>2. /\ of' = of /\ slot' = [slot EXCEPT ![n] = None]
        /\ \A b \in Attachments : child'[b] \in {"none", child[b]}
    BY <1>9 DEF AttachFails
  <2>3. ASSUME NEW b \in Attachments, Alive(b)' PROVE slot'[of'[b]] = b
    <3>1. Alive(b) /\ slot[of[b]] = b
      BY <2>2, <2>3
    <3>2. of[b] # n
      BY <1>9, <2>1, <3>1 DEF AttachFails, Shares
    <3> QED BY <2>1, <2>2, <3>1, <3>2
  <2> QED BY <2>3
<1>7. ASSUME NEW r \in Requests,
             \/ Call(r) \/ HasSession(r) \/ NewSession(r) \/ Recheck(r) \/ CommandFails(r)
             \/ Attach(r) /\ Shares(req[r].name)
      PROVE UNCHANGED attachmentVars
  BY <1>7 DEF Call, HasSession, NewSession, Recheck, CommandFails, Attach
<1>8. ASSUME ListAsks \/ ListAnswers \/ \E n \in Names : OtherAttaches(n) \/ OtherLeaves(n)
      PROVE UNCHANGED attachmentVars
  BY <1>8 DEF ListAsks, ListAnswers, OtherAttaches, OtherLeaves
<1> QED
  BY <1>1, <1>2, <1>3, <1>4, <1>5, <1>6, <1>7, <1>8, <1>9 DEF Next, vars

\* For any sessions and requests: a running client of the gateway is the one in
\* the map, so a session has at most one.
THEOREM OneClient == Spec => []OneClientEach
<1>1. Init => OneClientEach
  BY DEF Init, OneClientEach, Alive
<1>2. TypeOK /\ OneClientEach /\ [Next]_vars => OneClientEach'
  BY OneClientStep
<1> QED BY <1>1, <1>2, SessionTypes, PTL DEF Spec

\* A request at its recheck finds its session, or the session has ended since
\* the request began.
RecheckInv ==
  \A r \in Requests :
    /\ req[r].at # "idle" => req[r].kind # "none"
    /\ req[r].at = "recheck" => req[r].name \in live \/ r \in ended

CreateInv == RecheckInv /\ CreatesTogether

\* Where a request goes whose session is there.
LEMMA EnsuredStep ==
  ASSUME NEW r \in Requests, req \in [Requests -> RequestSet], req[r].at # "idle", RecheckInv, Ensured(r)
  PROVE /\ \A q \in Requests \ {r} : req'[q] = req[q]
        /\ req'[r].at \in {"idle", "attach"}
        /\ req'[r].at # "idle" => req'[r].kind # "none"
<1>1. CASE req' = [req EXCEPT ![r] = Idle]
  BY <1>1 DEF Idle
<1>2. CASE req' = [req EXCEPT ![r].at = "attach"]
  <2>1. req[r].kind # "none" /\ req[r] \in RequestSet
    BY DEF RecheckInv
  <2> QED BY <1>2, <2>1 DEF RequestSet
<1> QED BY <1>1, <1>2 DEF Ensured, Goto, Leaves

LEMMA CreateStep ==
  ASSUME TypeOK, CreateInv, [Next]_vars
  PROVE CreateInv'
<1> USE DEF CreateInv, RecheckInv, CreatesTogether
<1>0. /\ req \in [Requests -> RequestSet] /\ ended \subseteq Requests
      /\ \A r \in Requests : req[r].name \in Names
  BY DEF TypeOK, RequestSet
<1>1. ASSUME NEW r \in Requests, Call(r) PROVE CreateInv'
  <2>1. PICK n \in Names, kind \in {"create", "view"} :
          req' = [req EXCEPT ![r] = [Idle EXCEPT !.kind = kind, !.at = "has", !.name = n]]
    BY <1>1 DEF Call
  <2>2. req'[r].at = "has" /\ req'[r].kind # "none" /\ \A q \in Requests \ {r} : req'[q] = req[q]
    BY <1>0, <2>1 DEF Idle
  <2>3. live' = live /\ refused' = {} /\ ended' = ended \ {r}
    BY <1>1 DEF Call, tmuxVars
  <2> QED BY <2>2, <2>3
<1>2. ASSUME NEW r \in Requests, HasSession(r) PROVE CreateInv'
  <2>1. req[r].at = "has" /\ UNCHANGED <<live, ended, refused>>
    BY <1>2 DEF HasSession, tmuxVars
  <2>2. CASE req[r].name \in live
    BY <1>0, <1>2, <2>1, <2>2, EnsuredStep DEF HasSession
  <2>3. CASE req[r].name \notin live
    <3>1. req' = [req EXCEPT ![r].at = "new"]
      BY <1>2, <2>3 DEF HasSession, Goto
    <3> QED BY <1>0, <2>1, <3>1 DEF RequestSet
  <2> QED BY <2>2, <2>3
<1>3. ASSUME NEW r \in Requests, NewSession(r) PROVE CreateInv'
  <2>1. req[r].at = "new" /\ UNCHANGED <<ended, refused>>
    BY <1>3 DEF NewSession
  <2>2. CASE req[r].name \in live
    <3>1. req' = [req EXCEPT ![r].at = "recheck"] /\ live' = live
      BY <1>3, <2>2 DEF NewSession, Goto
    <3> QED BY <1>0, <2>1, <2>2, <3>1 DEF RequestSet
  <2>3. CASE req[r].name \notin live
    <3>1. Ensured(r) /\ live' = live \cup {req[r].name}
      BY <1>3, <2>3 DEF NewSession
    <3> QED BY <1>0, <2>1, <3>1, EnsuredStep
  <2> QED BY <2>2, <2>3
<1>4. ASSUME NEW r \in Requests, Recheck(r) PROVE CreateInv'
  <2>1. req[r].at = "recheck" /\ UNCHANGED <<live, ended>>
    BY <1>4 DEF Recheck, tmuxVars
  <2>2. CASE req[r].name \in live
    <3>1. Ensured(r) /\ refused' = refused
      BY <1>4, <2>2 DEF Recheck
    <3> QED BY <1>0, <2>1, <3>1, EnsuredStep
  <2>3. CASE req[r].name \notin live
    <3>1. r \in ended
      BY <2>1, <2>3
    <3>2. refused' = refused /\ req' = [req EXCEPT ![r] = Idle]
      BY <1>4, <2>3, <3>1 DEF Recheck, Leaves
    <3> QED BY <1>0, <2>1, <3>2 DEF Idle
  <2> QED BY <2>2, <2>3
<1>5. ASSUME NEW r \in Requests, Attach(r) PROVE CreateInv'
  <2>1. /\ req'[r].at = "viewing" /\ req'[r].kind = req[r].kind /\ req[r].at = "attach"
        /\ \A q \in Requests \ {r} : req'[q] = req[q]
    <3>1. CASE Shares(req[r].name)
      BY <1>0, <1>5, <3>1 DEF Attach, RequestSet
    <3>2. CASE ~Shares(req[r].name)
      BY <1>0, <1>5, <3>2, AttachNew DEF Attach, NewAttachment, RequestSet
    <3> QED BY <3>1, <3>2
  <2> QED BY <1>5, <2>1 DEF Attach, tmuxVars
<1>6. ASSUME NEW r \in Requests, ViewerLeaves(r) \/ CommandFails(r) \/ AttachFails(r) PROVE CreateInv'
  <2>1. req' = [req EXCEPT ![r] = Idle] /\ UNCHANGED <<live, ended, refused>>
    BY <1>6 DEF ViewerLeaves, CommandFails, AttachFails, Leaves, tmuxVars
  <2> QED BY <1>0, <2>1 DEF Idle
<1>7. CASE ListAsks \/ ListAnswers
  BY <1>7 DEF ListAsks, ListAnswers, tmuxVars
<1>8. ASSUME NEW a \in Attachments, ClientAttaches(a) \/ ClientExits(a) PROVE CreateInv'
  BY <1>8 DEF ClientAttaches, ClientExits, tmuxVars
<1>9. ASSUME NEW n \in Names, SessionEnds(n) PROVE CreateInv'
  BY <1>0, <1>9 DEF SessionEnds
<1>10. ASSUME NEW n \in Names, OtherAttaches(n) \/ OtherLeaves(n) PROVE CreateInv'
  BY <1>10 DEF OtherAttaches, OtherLeaves
<1>11. CASE Restart
  BY <1>11 DEF Restart, Idle
<1>12. CASE UNCHANGED vars
  BY <1>12 DEF vars, tmuxVars
<1> QED
  BY <1>1, <1>2, <1>3, <1>4, <1>5, <1>6, <1>7, <1>8, <1>9, <1>10, <1>11, <1>12 DEF Next

\* For any number of requests: none fails because another created its session
\* at the same time.
THEOREM CreateTogether == Spec => []CreatesTogether
<1>1. Init => CreateInv
  BY DEF Init, Idle, CreateInv, RecheckInv, CreatesTogether
<1>2. TypeOK /\ CreateInv /\ [Next]_vars => CreateInv'
  BY CreateStep
<1>3. CreateInv => CreatesTogether
  BY DEF CreateInv
<1> QED BY <1>1, <1>2, <1>3, SessionTypes, PTL DEF Spec

\* The snapshot still tells which sessions have a running client of the gateway,
\* of those whose client has not changed since.
SnapshotInv ==
  list.at = "asked" =>
    \A n \in Names \ moved : n \in list.mine <=> slot[n] # None /\ Alive(slot[n])

LEMMA SnapshotStep ==
  ASSUME TypeOK, SnapshotInv, [Next]_vars
  PROVE SnapshotInv'
<1> USE NoneAssumption DEF SnapshotInv, Alive
<1>0. Types /\ SlotsExist /\ HeldExist
  BY TypeParts
<1>1. CASE UNCHANGED <<attachmentVars, list, moved>>
  BY <1>1 DEF attachmentVars
<1>2. ASSUME NEW S, moved' = (IF list.at = "asked" THEN moved \cup S ELSE moved), list' = list,
             \A n \in Names \ S : slot'[n] = slot[n] /\ (slot[n] # None => child'[slot[n]] = child[slot[n]])
      PROVE SnapshotInv'
  BY <1>2
<1>3. ASSUME NEW r \in Requests, Attach(r), ~Shares(req[r].name) PROVE SnapshotInv'
  <2>1. PICK a \in Attachments : NewAttachment(r, a)
    BY <1>3, AttachNew
  <2> DEFINE n == req[r].name
  <2>2. list' = list /\ n \in Names /\ moved' = IF list.at = "asked" THEN moved \cup {n} ELSE moved
    BY <1>0, <1>3, <2>1 DEF Attach, NewAttachment, Types, RequestSet
  <2>3. ASSUME NEW m \in Names \ {n}
        PROVE slot'[m] = slot[m] /\ (slot[m] # None => child'[slot[m]] = child[slot[m]])
    <3>1. slot'[m] = slot[m]
      BY <1>0, <2>1, <2>2, <2>3 DEF NewAttachment, Types
    <3>2. ASSUME slot[m] # None PROVE child'[slot[m]] = child[slot[m]]
      <4>1. slot[m] \in Attachments /\ slot[m] # a /\ slot[m] # slot[n]
        BY <1>0, <2>1, <2>2, <2>3, <3>2 DEF NewAttachment, Types, SlotsExist
      <4> QED BY <2>1, <4>1 DEF NewAttachment
    <3> QED BY <3>1, <3>2
  <2> QED BY <1>2, <2>2, <2>3
<1>4. ASSUME NEW r \in Requests, ViewerLeaves(r) PROVE SnapshotInv'
  <2>1. UNCHANGED <<slot, list, moved>>
    BY <1>4 DEF ViewerLeaves
  <2>2. \A n \in Names : slot[n] # None => child'[slot[n]] = child[slot[n]]
    BY <1>0, <1>4 DEF ViewerLeaves, Referenced, Types
  <2> QED BY <2>1, <2>2
<1>5. ASSUME NEW a \in Attachments, ClientAttaches(a) \/ ClientExits(a) PROVE SnapshotInv'
  <2>1. /\ UNCHANGED <<slot, list>> /\ moved' = IF list.at = "asked" THEN moved \cup {of[a]} ELSE moved
        /\ \E c : child' = [child EXCEPT ![a] = c]
    BY <1>5 DEF ClientAttaches, ClientExits, Moves
  <2>2. \A n \in Names \ {of[a]} : slot[n] # None => slot[n] # a
    BY <1>0 DEF SlotsExist
  <2>3. \A n \in Names \ {of[a]} : slot[n] # None => child'[slot[n]] = child[slot[n]]
    BY <1>0, <2>1, <2>2 DEF Types
  <2> QED BY <1>2, <2>1, <2>3
<1>6. ASSUME NEW n \in Names, SessionEnds(n) PROVE SnapshotInv'
  <2>1. /\ UNCHANGED <<slot, list>> /\ moved' = IF list.at = "asked" THEN moved \cup {n} ELSE moved
        /\ child' = [a \in Attachments |->
             IF of[a] = n /\ child[a] = "attached" THEN "gone" ELSE child[a]]
    BY <1>6 DEF SessionEnds, Moves
  <2>2. \A m \in Names \ {n} : slot[m] # None => child'[slot[m]] = child[slot[m]]
    BY <1>0, <2>1 DEF Types, SlotsExist
  <2> QED BY <1>2, <2>1, <2>2
<1>7. CASE ListAsks
  BY <1>0, <1>7 DEF ListAsks, Snapshot, attachmentVars, Types
<1>8. CASE ListAnswers \/ Restart
  BY <1>8 DEF ListAnswers, Restart
<1>9. ASSUME NEW r \in Requests,
             \/ Call(r) \/ HasSession(r) \/ NewSession(r) \/ Recheck(r) \/ CommandFails(r)
             \/ Attach(r) /\ Shares(req[r].name)
      PROVE UNCHANGED <<attachmentVars, list, moved>>
  BY <1>9 DEF Call, HasSession, NewSession, Recheck, CommandFails, Attach
<1>11. ASSUME NEW r \in Requests, AttachFails(r) PROVE SnapshotInv'
  <2> DEFINE n == req[r].name
  <2>1. /\ n \in Names /\ slot \in [Names -> Attachments \cup {None}]
        /\ child \in [Attachments -> Children]
    BY <1>0 DEF Types, RequestSet
  <2>2. /\ list' = list /\ moved' = IF list.at = "asked" THEN moved \cup {n} ELSE moved
        /\ slot' = [slot EXCEPT ![n] = None]
        /\ \A b \in Attachments : b # slot[n] => child'[b] = child[b]
    BY <1>11 DEF AttachFails, Moves
  <2>3. ASSUME NEW m \in Names \ {n}
        PROVE slot'[m] = slot[m] /\ (slot[m] # None => child'[slot[m]] = child[slot[m]])
    <3>1. slot[m] # None => slot[m] \in Attachments /\ slot[m] # slot[n]
      BY <1>0, <2>1, <2>3 DEF SlotsExist
    <3> QED BY <2>1, <2>2, <2>3, <3>1
  <2> QED BY <1>2, <2>2, <2>3
<1>10. ASSUME NEW n \in Names, OtherAttaches(n) \/ OtherLeaves(n)
       PROVE UNCHANGED <<attachmentVars, list, moved>>
  BY <1>10 DEF OtherAttaches, OtherLeaves
<1> QED
  BY <1>1, <1>3, <1>4, <1>5, <1>6, <1>7, <1>8, <1>9, <1>10, <1>11 DEF Next, vars

\* A session's attached clients of the gateway are the one the snapshot counted.
LEMMA CountedOnce ==
  ASSUME TypeOK, OneClientEach, SnapshotInv, list.at = "asked", NEW n \in Names \ moved,
         \A a \in Mine(n) : child[a] = "attached"
  PROVE OtherClients(n) = others[n]
<1> DEFINE here == {a \in Attachments : of[a] = n /\ child[a] = "attached"}
<1>0. /\ SlotsExist /\ others[n] \in Nat /\ slot[n] \in Attachments \cup {None}
  BY TypeParts DEF Types
<1>1. \A a \in here : slot[n] = a
  BY DEF OneClientEach, Alive
<1>2. CASE n \in list.mine
  <2>1. slot[n] # None /\ Alive(slot[n])
    BY <1>2 DEF SnapshotInv
  <2>2. slot[n] \in Mine(n)
    BY <1>0, <2>1 DEF SlotsExist, Mine
  <2>3. slot[n] \in here
    BY <2>2 DEF Mine
  <2>4. here = {slot[n]}
    BY <1>1, <2>3
  <2>5. Cardinality(here) = 1
    BY <2>4, FS_Singleton
  <2> HIDE DEF here
  <2>6. others[n] + Cardinality(here) = others[n] + 1
    BY <2>5
  <2> QED BY <1>0, <1>2, <2>6 DEF OtherClients, here
<1>3. CASE n \notin list.mine
  <2>1. ~(slot[n] # None /\ Alive(slot[n]))
    BY <1>3 DEF SnapshotInv
  <2>2. here = {}
    BY <1>1, <2>1, NoneAssumption DEF Alive
  <2>3. Cardinality(here) = 0
    BY <2>2, FS_EmptySet
  <2> HIDE DEF here
  <2>4. others[n] + Cardinality(here) = others[n]
    BY <1>0, <2>3
  <2> QED BY <1>3, <2>4 DEF OtherClients, here
<1> QED BY <1>2, <1>3

\* For any sessions and clients: list_sessions leaves out exactly the gateway's
\* own client of a session, unless that changed since the snapshot.
THEOREM OthersAreCounted == Spec => OthersCounted
<1>1. Init => SnapshotInv
  BY DEF Init, SnapshotInv
<1>2. TypeOK /\ SnapshotInv /\ [Next]_vars => SnapshotInv'
  BY SnapshotStep
<1> DEFINE Counted ==
      ListAnswers =>
        \A n \in live \ moved : (\A a \in Mine(n) : child[a] = "attached") => OtherClients(n) = others[n]
<1>3. TypeOK /\ OneClientEach /\ SnapshotInv => Counted
  <2> SUFFICES ASSUME TypeOK, OneClientEach, SnapshotInv, ListAnswers, NEW n \in live \ moved,
                      \A a \in Mine(n) : child[a] = "attached"
               PROVE OtherClients(n) = others[n]
    OBVIOUS
  <2>1. list.at = "asked" /\ n \in Names \ moved
    BY DEF ListAnswers, TypeOK
  <2> QED BY <2>1, CountedOnce
<1> QED BY <1>1, <1>2, <1>3, SessionTypes, OneClient, PTL DEF Spec, OthersCounted
-----------------------------------------------------------------------------
(* The relay of one attachment.                                            *)

\* The gate is held exactly between its two steps.
GateHeld ==
  /\ gate = Pty <=> pty = "send"
  /\ \A v \in Viewers : gate = v <=> vpc[v] = "subscribe"

\* Where a viewer's receiver is, relative to what it was forwarded.
ReceiverInv(v) ==
  /\ vpc[v] = "subscribe" => shown[v] = hi /\ ~lagged[v]
  /\ Attached(v) => 1 <= next[v] /\ next[v] <= sent + 1 /\ shown[v] <= UpTo(v)
  /\ vpc[v] = "sending" => next[v] >= 2
  /\ Attached(v) /\ ~lagged[v] => shown[v] = UpTo(v)

RelayInv ==
  /\ RelayTypeOK
  /\ GateHeld
  /\ HistoryIsNewest
  /\ \A v \in Viewers : ReceiverInv(v)

LEMMA RelayInvInit == RelayInit => RelayInv
<1> SUFFICES ASSUME RelayInit PROVE RelayInv
  OBVIOUS
<1>1. lagged \in [Viewers -> BOOLEAN]
  BY Zenon DEF RelayInit
<1>2. RelayTypeOK
  BY <1>1, NamesAssumption DEF RelayInit, RelayTypeOK
<1>3. GateHeld
  BY NamesAssumption DEF RelayInit, GateHeld
<1>4. HistoryIsNewest
  BY LimitsAssumption DEF RelayInit, HistoryIsNewest, Larger
<1>5. ASSUME NEW v \in Viewers PROVE ReceiverInv(v)
  BY DEF RelayInit, ReceiverInv, Attached
<1>6. QED
  BY <1>2, <1>3, <1>4, <1>5 DEF RelayInv

\* The reader thread keeps the invariant.
LEMMA PtyKeeps == RelayInv /\ PtyStep => RelayInv'
<1> SUFFICES ASSUME RelayInv, PtyStep PROVE RelayInv'
  OBVIOUS
<1> USE NamesAssumption, LimitsAssumption
    DEF RelayInv, RelayTypeOK, GateHeld, HistoryIsNewest, ReceiverInv, Attached, UpTo, Larger
<1>1. CASE PtyRead
  BY <1>1 DEF PtyRead
<1>2. CASE PtyAppend
  <2>1. \A v \in Viewers : vpc[v] # "subscribe"
    BY <1>2 DEF PtyAppend
  <2>2. hi' \in Nat /\ lo' \in Nat
    BY <1>2 DEF PtyAppend
  <2>3. QED BY <1>2, <2>1, <2>2 DEF PtyAppend
<1>3. CASE PtySend
  <2>1. \A v \in Viewers : vpc[v] # "subscribe"
    BY <1>3 DEF PtySend
  <2>2. QED BY <1>3, <2>1 DEF PtySend
<1>4. QED
  BY <1>1, <1>2, <1>3 DEF PtyStep

\* A viewer task keeps the invariant.
LEMMA ViewerKeeps ==
  ASSUME RelayInv, NEW v \in Viewers, Connect(v) \/ TaskStep(v) \/ Disconnect(v)
  PROVE  RelayInv'
<1> USE NamesAssumption, LimitsAssumption DEF RelayInv, RelayTypeOK, GotoV
<1>1. CASE Connect(v) \/ Disconnect(v) \/ Replay(v)
  BY <1>1 DEF Connect, Disconnect, Replay, GateHeld, HistoryIsNewest, ReceiverInv, Attached, UpTo
<1>2. CASE CopyHistory(v)
  <2>1. RelayTypeOK' /\ GateHeld' /\ HistoryIsNewest'
    BY <1>2 DEF CopyHistory, GateHeld, HistoryIsNewest
  <2>2. ASSUME NEW w \in Viewers PROVE ReceiverInv(w)'
    BY <1>2 DEF CopyHistory, ReceiverInv, Attached, UpTo
  <2>3. QED BY <2>1, <2>2
<1>3. CASE Subscribe(v)
  <2>1. RelayTypeOK' /\ GateHeld' /\ HistoryIsNewest'
    BY <1>3 DEF Subscribe, GateHeld, HistoryIsNewest
  <2>2. hi = sent
    BY <1>3 DEF Subscribe, GateHeld, HistoryIsNewest
  <2>3. ASSUME NEW w \in Viewers PROVE ReceiverInv(w)'
    BY <1>3, <2>2 DEF Subscribe, ReceiverInv, Attached, UpTo
  <2>4. QED BY <2>1, <2>3
<1>4. CASE Receive(v)
  <2>1. lagged' \in [Viewers -> BOOLEAN]
    BY <1>4, Zenon DEF Receive
  <2>2. RelayTypeOK'
    BY <1>4, <2>1 DEF Receive
  <2>3. GateHeld' /\ HistoryIsNewest'
    BY <1>4 DEF Receive, GateHeld, HistoryIsNewest
  <2>4. ASSUME NEW w \in Viewers PROVE ReceiverInv(w)'
    BY <1>4 DEF Receive, ReceiverInv, Attached, UpTo
  <2>5. QED BY <2>2, <2>3, <2>4
<1>5. CASE Forward(v)
  <2>1. lagged' \in [Viewers -> BOOLEAN]
    BY <1>5, Zenon DEF Forward
  <2>2. RelayTypeOK'
    BY <1>5, <2>1 DEF Forward, ReceiverInv
  <2>3. GateHeld' /\ HistoryIsNewest'
    BY <1>5 DEF Forward, GateHeld, HistoryIsNewest
  <2>4. ASSUME NEW w \in Viewers PROVE ReceiverInv(w)'
    BY <1>5 DEF Forward, ReceiverInv, Attached, UpTo
  <2>5. QED BY <2>2, <2>3, <2>4
<1>6. QED
  BY <1>1, <1>2, <1>3, <1>4, <1>5 DEF TaskStep

LEMMA RelayInvNext == RelayInv /\ [RelayNext]_relayVars => RelayInv'
<1>1. RelayInv /\ UNCHANGED relayVars => RelayInv'
  BY DEF relayVars, RelayInv, RelayTypeOK, GateHeld, HistoryIsNewest, ReceiverInv, Attached, UpTo
<1>2. QED
  BY <1>1, PtyKeeps, ViewerKeeps DEF RelayNext

\* The variables keep their types, whatever the number of viewers and limits.
THEOREM RelayTypes == RelaySpec => []RelayTypeOK
<1>1. RelayInv => RelayTypeOK
  BY DEF RelayInv
<1>2. QED
  BY <1>1, RelayInvInit, RelayInvNext, PTL DEF RelaySpec

\* The history a viewer copies is the newest output, at most HistoryLimit of it.
THEOREM RelayHistory == RelaySpec => []HistoryIsNewest
<1>1. RelayInv => HistoryIsNewest
  BY DEF RelayInv
<1>2. QED
  BY <1>1, RelayInvInit, RelayInvNext, PTL DEF RelaySpec

\* From the end of the replay on, a viewer misses nothing without a reported lag.
THEOREM RelayNoSilentGap == RelaySpec => []NoSilentGap
<1>1. RelayInv => NoSilentGap
  BY DEF RelayInv, ReceiverInv, NoSilentGap
<1>2. QED
  BY <1>1, RelayInvInit, RelayInvNext, PTL DEF RelaySpec

\* Chunks reach a viewer in order, each at most once.
THEOREM RelayInOrder == RelaySpec => ForwardsInOrder
<1>1. RelayInv /\ [RelayNext]_relayVars =>
        [\A v \in Viewers :
           vpc[v] = "sending" /\ vpc'[v] = "live" =>
             /\ shown'[v] > shown[v]
             /\ lagged[v] \/ shown'[v] = shown[v] + 1]_relayVars
  <2> SUFFICES ASSUME RelayInv, RelayNext, NEW v \in Viewers, vpc[v] = "sending", vpc'[v] = "live"
               PROVE  shown'[v] > shown[v] /\ (lagged[v] \/ shown'[v] = shown[v] + 1)
    BY DEF relayVars
  <2>1. Forward(v)
    <3> USE DEF GotoV, RelayInv, RelayTypeOK
    <3>1. ~PtyStep
      BY DEF PtyStep, PtyRead, PtyAppend, PtySend
    <3>2. PICK w \in Viewers : Connect(w) \/ TaskStep(w) \/ Disconnect(w)
      BY <3>1 DEF RelayNext
    <3>3. ~Connect(w) /\ ~Disconnect(w) /\ ~CopyHistory(w) /\ ~Subscribe(w) /\ ~Replay(w)
      BY DEF Connect, Disconnect, CopyHistory, Subscribe, Replay
    <3>4. ~Receive(w)
      BY DEF Receive
    <3>5. QED BY <3>2, <3>3, <3>4 DEF TaskStep, Forward
  <2>2. shown'[v] = next[v] - 1
    BY <2>1 DEF Forward, GotoV, RelayInv, RelayTypeOK
  <2>3. QED
    BY <2>2 DEF RelayInv, RelayTypeOK, ReceiverInv, Attached, UpTo
<1>2. QED
  BY <1>1, RelayInvInit, RelayInvNext, PTL DEF RelaySpec, ForwardsInOrder
==============================================================================
