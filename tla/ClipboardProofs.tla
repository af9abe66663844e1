-------------------------- MODULE ClipboardProofs --------------------------
(***************************************************************************)
(* Proofs about Clipboard for any number of tasks, compositors and         *)
(* contents: its types, that an answer is of one clipboard, that a pasted  *)
(* image is the one that was sent, and that the preview shows what would   *)
(* be copied.                                                              *)
(***************************************************************************)
EXTENDS Clipboard, TLAPS

USE ContentsAssumption, DesktopsAssumption DEF Types, PanelOps, Handling

\* What the place of a task says about its operation.
Stage(k) ==
  /\ k.op = "none" <=> k.at = "idle"
  /\ k.op \in {"upload", "image"} \/ k.at = "showing" => k.item \in Values
  /\ k.at \in {"listing", "pasting"} => k.op = "refresh" /\ k.desk \in Desktops
  /\ k.at = "copying" => k.op \in {"upload", "image"} /\ k.desk \in Desktops
  /\ k.at = "pasting" => k.mime \in Types
  /\ k.copying => k.at = "copying"
  /\ k.at = "showing" => k.op \in PanelOps
  /\ k.at = "pressing" => k.op = "image"
  /\ k.answer.status = "data" => k.op = "refresh" /\ k.at \in {"answered", "showing"}
                                 /\ k.answer.value.type = k.answer.mime

\* The upload of t is on the clipboard, as far as the page knows.
Taken(k) ==
  \/ k.at = "copying" /\ ~k.copying
  \/ k.at = "answered" /\ k.answer.status = "done"
  \/ k.at = "pressing"

\* What an operation that nobody disturbed may rely on.
Settled(k) ==
  k.calm =>
    /\ k.view = selected
    /\ k.at \in Handling \/ k.answer.status = "data" \/ Taken(k) => selected \in Desktops
    /\ k.at \in Handling => k.desk = selected
    /\ k.at = "pasting" => k.mime = Choose(Offered(selected))
    /\ k.answer.status = "data" =>
         k.answer.value = [content |-> clipboard[selected], type |-> Choose(Offered(selected))]
    /\ k.op = "image" /\ Taken(k) => clipboard[selected] = k.item.content

Inv == TypeOK /\ \A t \in Tasks : Stage(task[t]) /\ Settled(task[t])

\* A task that takes a new record leaves the others alone.
LEMMA Replace ==
  ASSUME Inv, NEW t \in Tasks, NEW k \in Task, Becomes(t, k),
         Stage(k), Settled(k), UNCHANGED <<selected, clipboard>>, panel' \in Panel
  PROVE  Inv'
<1>1. /\ task' \in [Tasks -> Task]
      /\ task'[t] = k
      /\ \A u \in Tasks \ {t} : task'[u] = task[u]
  BY DEF Inv, TypeOK, Becomes
<1>2. TypeOK'
  BY <1>1 DEF Inv, TypeOK
<1>3. \A u \in Tasks : Stage(task'[u])
  BY <1>1 DEF Inv
<1>4. Settled(k)'
  BY DEF Settled, Taken, Offered
<1>5. ASSUME NEW u \in Tasks PROVE Settled(task[u])'
  <2>1. CASE u = t
    BY <1>1, <2>1 DEF Settled, Taken, Offered
  <2>2. CASE u # t
    BY <1>1, <2>2 DEF Inv, Settled, Taken, Offered
  <2>3. QED BY <2>1, <2>2
<1>6. QED
  BY <1>2, <1>3, <1>5 DEF Inv, Stage

\* The answers without a value, and the record of no operation.
LEMMA Plain ==
  /\ \A s \in {"none", "done", "empty", "error"} : Answer(s) \in Answers
  /\ NoTask \in Task
  /\ Stage(NoTask)
  /\ NoPanel \in Panel
<1>1. \A s \in {"none", "done", "empty", "error"} : Answer(s) \in Answers
  BY DEF Answer, Answers
<1>2. NoTask \in Task
  BY <1>1 DEF NoTask, Task
<1>3. Stage(NoTask)
  BY DEF Stage, NoTask, Answer
<1>4. NoPanel \in Panel
  BY DEF NoPanel, Panel
<1>5. QED BY <1>1, <1>2, <1>3, <1>4

\* An answer with a value is recognised by its status.
LEMMA DataAnswer ==
  ASSUME NEW a \in Answers, a.status = "data"
  PROVE  a.value \in Values /\ a.mime \in Types
BY DEF Answers

\* An uploaded or offered value has a content and one of its types.
LEMMA ValueFields ==
  ASSUME NEW x \in Values
  PROVE  x.content \in Contents /\ x.type \in Types /\ x.type \in Offers[x.content]
BY DEF Values

\* A disturbed record is one, and only its histories differ.
LEMMA DisturbedIs ==
  ASSUME NEW r \in Task
  PROVE  LET k == [r EXCEPT !.view = NoDesktop, !.calm = FALSE]
         IN  /\ k \in Task
             /\ k.at = r.at /\ k.answer = r.answer /\ k.copying = r.copying
             /\ k.op = r.op /\ k.item = r.item /\ k.desk = r.desk /\ k.mime = r.mime
             /\ ~k.calm
BY DEF Task

\* What a clipboard offers are types of a content.
LEMMA OfferedIs ==
  ASSUME TypeOK, NEW d \in Desktops
  PROVE  /\ Offered(d) \subseteq Types
         /\ \A y \in Offered(d) : [content |-> clipboard[d], type |-> y] \in Values
         /\ Offered(d) # {} => Choose(Offered(d)) \in Offered(d)
BY DEF TypeOK, Offered, Values, Choose

\* The record of a task that has its answer keeps what its place demands.
LEMMA AnsweredIs ==
  ASSUME NEW r \in Task, NEW a \in Answers, Stage(r), Settled(r), r.op # "none",
         a.status = "data" =>
           /\ r.op = "refresh"
           /\ a.value.type = a.mime
           /\ r.calm =>
                /\ selected \in Desktops
                /\ a.value = [content |-> clipboard[selected], type |-> Choose(Offered(selected))],
         a.status = "done" => Taken(r)
  PROVE  LET k == [r EXCEPT !.at = "answered", !.answer = a, !.copying = FALSE]
         IN  k \in Task /\ Stage(k) /\ Settled(k)
<1> DEFINE k == [r EXCEPT !.at = "answered", !.answer = a, !.copying = FALSE]
<1>1. k \in Task
  BY DEF Task
<1>2. /\ k.at = "answered" /\ k.answer = a /\ k.copying = FALSE
      /\ k.op = r.op /\ k.item = r.item /\ k.desk = r.desk /\ k.mime = r.mime
      /\ k.view = r.view /\ (k.calm <=> r.calm)
  BY DEF Task
<1> HIDE DEF k
<1>3. Stage(k)
  BY <1>2 DEF Stage
<1>4. Settled(k)
  BY <1>2 DEF Settled, Taken
<1>5. QED
  BY <1>1, <1>3, <1>4 DEF k

\* A response keeps the invariant.
LEMMA Responds ==
  ASSUME Inv, NEW t \in Tasks, NEW a \in Answers, Respond(t, a),
         UNCHANGED <<selected, clipboard, panel>>,
         task[t].op # "none",
         a.status = "data" =>
           /\ task[t].op = "refresh"
           /\ a.value.type = a.mime
           /\ task[t].calm =>
                /\ selected \in Desktops
                /\ a.value = [content |-> clipboard[selected], type |-> Choose(Offered(selected))],
         a.status = "done" => Taken(task[t])
  PROVE  Inv'
<1> DEFINE k == [task[t] EXCEPT !.at = "answered", !.answer = a, !.copying = FALSE]
<1>1. task[t] \in Task /\ Stage(task[t]) /\ Settled(task[t]) /\ panel' \in Panel
  BY DEF Inv, TypeOK
<1>2. k \in Task /\ Stage(k) /\ Settled(k)
  BY <1>1, AnsweredIs
<1>3. Becomes(t, k)
  BY DEF Respond
<1> HIDE DEF k
<1>4. QED
  BY <1>1, <1>2, <1>3, Replace

\* A clipboard changes, or the selection leaves it, and those that look at it
\* are told: the records differ in their histories only, ...
LEMMA Disturbs ==
  ASSUME Inv, NEW d, NEW others
  PROVE  /\ Disturbed(d, others) \in [Tasks -> Task]
         /\ \A u \in Tasks : Stage(Disturbed(d, others)[u])
         /\ \A u \in Tasks : Disturbed(d, others)[u] = task[u] \/ ~Disturbed(d, others)[u].calm
         /\ \A u \in others : task[u].view = d => u \notin Tasks \/ ~Disturbed(d, others)[u].calm
<1> DEFINE E(u) == [task[u] EXCEPT !.view = NoDesktop, !.calm = FALSE]
<1>1. \A u \in Tasks : task[u] \in Task /\ Stage(task[u])
  BY DEF Inv, TypeOK
<1>2. \A u \in Tasks : E(u) \in Task /\ ~E(u).calm
  BY <1>1, DisturbedIs
<1>3. ASSUME NEW u \in Tasks PROVE Stage(E(u))
  <2>1. /\ E(u).at = task[u].at /\ E(u).answer = task[u].answer /\ E(u).copying = task[u].copying
        /\ E(u).op = task[u].op /\ E(u).item = task[u].item /\ E(u).desk = task[u].desk
        /\ E(u).mime = task[u].mime
    BY <1>1, DisturbedIs
  <2>2. QED BY <1>1, <2>1, Zenon DEF Stage
<1>4. \A u \in Tasks : Disturbed(d, others)[u] = IF u \in others /\ task[u].view = d THEN E(u) ELSE task[u]
  BY DEF Disturbed
<1> HIDE DEF E
<1>5. \A u \in Tasks : Disturbed(d, others)[u] \in Task
  BY <1>1, <1>2, <1>4
<1>6. Disturbed(d, others) = [u \in Tasks |-> Disturbed(d, others)[u]]
  BY DEF Disturbed
<1>7. QED
  BY <1>1, <1>2, <1>3, <1>4, <1>5, <1>6

\* ... and who is still calm relies on nothing that changed.
LEMMA Elsewhere ==
  ASSUME Inv, NEW d, NEW k, Settled(k), k.calm, k.view # d, Stage(k),
         UNCHANGED selected, \E x : clipboard' = [clipboard EXCEPT ![d] = x]
  PROVE  Settled(k)'
<1>1. \A e \in Desktops \ {d} : clipboard'[e] = clipboard[e]
  BY DEF Inv, TypeOK
<1>2. QED
  BY <1>1 DEF Settled, Taken, Offered, Stage

\* An operation begins.
LEMMA Begins ==
  ASSUME Inv, NEW t \in Tasks, NEW op \in {"refresh", "upload", "image"}, NEW x \in Values \cup {NoValue},
         Begin(t, op, x), op # "refresh" => x \in Values, panel' \in Panel
  PROVE  Inv'
<1> DEFINE v == IF op = "upload" THEN NoDesktop ELSE selected
           c == op # "upload"
           k == [NoTask EXCEPT !.at = "sent", !.op = op, !.item = x, !.view = v, !.calm = c]
<1>1. v \in Desktops \cup {NoDesktop} /\ c \in BOOLEAN /\ (c => v = selected)
  BY DEF Inv, TypeOK
<1>2. Becomes(t, k) /\ UNCHANGED <<selected, clipboard>>
  BY DEF Begin
<1> HIDE DEF v, c
<1>3. PICK r \in Task : r = NoTask /\ ~r.copying /\ r.answer.status = "none"
  BY Plain DEF NoTask, Answer
<1>4. k = [r EXCEPT !.at = "sent", !.op = op, !.item = x, !.view = v, !.calm = c]
  BY <1>3
<1> HIDE DEF k
<1>5. k \in Task
  BY <1>1, <1>4 DEF Task
<1>6. /\ k.at = "sent" /\ k.op = op /\ k.item = x /\ k.view = v /\ (k.calm <=> c)
      /\ ~k.copying /\ k.answer.status = "none"
  BY <1>1, <1>3, <1>4 DEF Task
<1>7. Stage(k)
  BY <1>6 DEF Stage
<1>8. Settled(k)
  BY <1>1, <1>6 DEF Settled, Taken
<1>9. QED
  BY <1>2, <1>5, <1>7, <1>8, Replace

\* clipboard_selection, by the kind of the operation.
LEMMA Handles ==
  ASSUME Inv, NEW t \in Tasks, Handle(t)
  PROVE  Inv'
<1>1. PICK r \in Task : r = task[t] /\ Stage(r) /\ Settled(r)
  BY DEF Inv, TypeOK
<1>2. r.at = "sent" /\ UNCHANGED <<selected, clipboard, panel>> /\ panel' \in Panel
  BY <1>1 DEF Handle, Inv, TypeOK
<1>3. r.op # "none" /\ ~r.copying /\ r.answer.status # "data"
  BY <1>1, <1>2 DEF Stage
<1>4. CASE Respond(t, Answer("error"))
  <2>1. Answer("error") \in Answers /\ Answer("error").status = "error"
    BY Plain DEF Answer
  <2>2. QED BY <1>1, <1>2, <1>3, <1>4, <2>1, Responds
<1>5. CASE selected \in Desktops /\ r.op = "refresh"
           /\ Becomes(t, [task[t] EXCEPT !.at = "listing", !.desk = selected])
  <2> DEFINE k == [r EXCEPT !.at = "listing", !.desk = selected]
  <2>1. k \in Task
    BY <1>5 DEF Task
  <2>2. /\ k.at = "listing" /\ k.desk = selected /\ k.op = r.op /\ k.item = r.item
        /\ k.view = r.view /\ (k.calm <=> r.calm) /\ (k.copying <=> r.copying) /\ k.answer = r.answer
    BY DEF Task
  <2> HIDE DEF k
  <2>3. Stage(k)
    BY <1>1, <1>3, <1>5, <2>2 DEF Stage
  <2>4. Settled(k)
    BY <1>1, <1>3, <1>5, <2>2 DEF Settled, Taken
  <2>5. Becomes(t, k)
    BY <1>1, <1>5 DEF k
  <2>6. QED BY <1>2, <2>1, <2>3, <2>4, <2>5, Replace
<1>6. CASE selected \in Desktops /\ r.op # "refresh"
           /\ Becomes(t, [task[t] EXCEPT !.at = "copying", !.desk = selected, !.copying = TRUE])
  <2> DEFINE k == [r EXCEPT !.at = "copying", !.desk = selected, !.copying = TRUE]
  <2>1. k \in Task
    BY <1>6 DEF Task
  <2>2. /\ k.at = "copying" /\ k.desk = selected /\ k.op = r.op /\ k.item = r.item
        /\ k.view = r.view /\ (k.calm <=> r.calm) /\ k.copying /\ k.answer = r.answer
    BY DEF Task
  <2> HIDE DEF k
  <2>3. Stage(k)
    <3>1. r.op \in {"upload", "image"}
      BY <1>3, <1>6 DEF Task
    <3>2. QED BY <1>1, <1>3, <1>6, <2>2, <3>1 DEF Stage
  <2>4. Settled(k)
    BY <1>1, <1>3, <1>6, <2>2 DEF Settled, Taken
  <2>5. Becomes(t, k)
    BY <1>1, <1>6 DEF k
  <2>6. QED BY <1>2, <2>1, <2>3, <2>4, <2>5, Replace
<1>7. QED
  BY <1>1, <1>4, <1>5, <1>6 DEF Handle, Inv, TypeOK

\* The two commands of a read.
LEMMA Reads ==
  ASSUME Inv, NEW t \in Tasks, List(t) \/ Paste(t)
  PROVE  Inv'
<1>1. PICK r \in Task : r = task[t] /\ Stage(r) /\ Settled(r)
  BY DEF Inv, TypeOK
<1>2. /\ UNCHANGED <<selected, clipboard, panel>> /\ panel' \in Panel
      /\ r.at \in {"listing", "pasting"}
  BY <1>1 DEF List, Paste, Inv, TypeOK
<1>3. r.op = "refresh" /\ r.desk \in Desktops /\ r.answer.status # "data" /\ ~r.copying
  BY <1>1, <1>2 DEF Stage
<1>4. CASE \E s \in {"empty", "error"} : Respond(t, Answer(s))
  <2>1. PICK s \in {"empty", "error"} : Respond(t, Answer(s))
    BY <1>4
  <2>2. Answer(s) \in Answers /\ Answer(s).status = s
    BY Plain DEF Answer
  <2>3. QED BY <1>1, <1>2, <1>3, <2>1, <2>2, Responds
<1>5. CASE /\ r.at = "listing" /\ Offered(r.desk) # {}
           /\ Becomes(t, [task[t] EXCEPT !.at = "pasting", !.mime = Choose(Offered(task[t].desk))])
  <2> DEFINE m == Choose(Offered(r.desk))
             k == [r EXCEPT !.at = "pasting", !.mime = m]
  <2>1. m \in Types
    BY DEF Choose
  <2>2. Becomes(t, k)
    BY <1>1, <1>5
  <2>3. r.calm => m = Choose(Offered(selected))
    BY <1>1, <1>5 DEF Settled
  <2> HIDE DEF m
  <2>4. k \in Task
    BY <2>1 DEF Task
  <2>5. /\ k.at = "pasting" /\ k.mime = m /\ k.op = r.op /\ k.item = r.item /\ k.desk = r.desk
        /\ k.view = r.view /\ (k.calm <=> r.calm) /\ (k.copying <=> r.copying) /\ k.answer = r.answer
    BY DEF Task
  <2> HIDE DEF k
  <2>6. Stage(k)
    BY <1>1, <1>3, <2>1, <2>5 DEF Stage
  <2>7. Settled(k)
    BY <1>1, <1>2, <1>3, <2>3, <2>5 DEF Settled, Taken
  <2>8. QED BY <1>2, <2>2, <2>4, <2>6, <2>7, Replace
<1>6. CASE /\ r.at = "pasting" /\ r.mime \in Offered(r.desk)
           /\ Respond(t, [status |-> "data", mime |-> task[t].mime,
                          value |-> [content |-> clipboard[task[t].desk], type |-> task[t].mime]])
  <2> DEFINE x == [content |-> clipboard[r.desk], type |-> r.mime]
             a == [status |-> "data", mime |-> r.mime, value |-> x]
  <2>1. x \in Values /\ r.mime \in Types
    BY <1>3, <1>6, OfferedIs DEF Inv
  <2>2. r.calm => /\ selected \in Desktops
                  /\ x = [content |-> clipboard[selected], type |-> Choose(Offered(selected))]
    BY <1>1, <1>6 DEF Settled
  <2>3. x.type = r.mime /\ Respond(t, a)
    BY <1>1, <1>6
  <2> HIDE DEF x
  <2>4. a \in Answers /\ a.status = "data" /\ a.mime = r.mime /\ a.value = x
    BY <2>1 DEF Answers
  <2> HIDE DEF a
  <2>5. QED BY <1>1, <1>2, <1>3, <2>2, <2>3, <2>4, Responds
<1>7. QED
  BY <1>1, <1>4, <1>5, <1>6 DEF List, Paste

\* wl-copy ends in order or is given up.
LEMMA Ends ==
  ASSUME Inv, NEW t \in Tasks, CopyDone(t) \/ TimeLimit(t)
  PROVE  Inv'
<1>1. Stage(task[t]) /\ UNCHANGED <<selected, clipboard, panel>>
  BY DEF Inv, CopyDone, TimeLimit
<1>2. task[t].op # "none"
  BY <1>1 DEF Stage, CopyDone, TimeLimit
<1>3. \A s \in {"done", "error"} : Answer(s) \in Answers /\ Answer(s).status = s
  BY Plain DEF Answer
<1>4. CASE CopyDone(t)
  <2>1. Taken(task[t]) /\ Respond(t, Answer("done"))
    BY <1>4 DEF CopyDone, Taken
  <2>2. QED BY <1>1, <1>2, <1>3, <2>1, Responds
<1>5. CASE TimeLimit(t)
  <2>1. Respond(t, Answer("error"))
    BY <1>5 DEF TimeLimit
  <2>2. QED BY <1>1, <1>2, <1>3, <2>1, Responds
<1>6. QED BY <1>4, <1>5

\* The operation is over.
LEMMA IsOver ==
  ASSUME Inv, NEW t \in Tasks, Becomes(t, NoTask), UNCHANGED <<selected, clipboard>>, panel' \in Panel
  PROVE  Inv'
<1>1. Settled(NoTask)
  BY DEF Settled, NoTask
<1>2. QED
  BY <1>1, Plain, Replace

\* The panel shows x, at once or after an await.
LEMMA Loads ==
  ASSUME Inv, NEW t \in Tasks, NEW x \in Values, Load(t, x), task[t].op \in PanelOps,
         task[t].at = "answered", UNCHANGED <<selected, clipboard>>
  PROVE  Inv'
<1>1. panel' \in Panel
  BY DEF Load, Inv, TypeOK, Panel
<1>2. CASE Becomes(t, NoTask)
  BY <1>1, <1>2, IsOver
<1>3. CASE Becomes(t, [task[t] EXCEPT !.at = "showing", !.item = x])
  <2>1. PICK r \in Task : r = task[t] /\ Stage(r) /\ Settled(r)
    BY DEF Inv, TypeOK
  <2> DEFINE k == [r EXCEPT !.at = "showing", !.item = x]
  <2>2. k \in Task
    BY DEF Task
  <2>3. /\ k.at = "showing" /\ k.item = x /\ k.op = r.op /\ k.desk = r.desk /\ k.mime = r.mime
        /\ k.view = r.view /\ (k.calm <=> r.calm) /\ (k.copying <=> r.copying) /\ k.answer = r.answer
    BY DEF Task
  <2>4. Becomes(t, k)
    BY <1>3, <2>1
  <2> HIDE DEF k
  <2>5. Stage(k)
    BY <2>1, <2>3 DEF Stage
  <2>6. Settled(k)
    BY <2>1, <2>3 DEF Settled, Taken
  <2>7. QED BY <1>1, <2>2, <2>4, <2>5, <2>6, Replace
<1>4. QED
  BY <1>2, <1>3 DEF Load

\* The page has its answer, or goes on after an await.
LEMMA GoesOn ==
  ASSUME Inv, NEW t \in Tasks,
         RefreshAnswered(t) \/ UploadAnswered(t) \/ ShowText(t) \/ ImageAnswered(t) \/ Press(t)
  PROVE  Inv'
<1>1. PICK r \in Task : r = task[t] /\ Stage(r) /\ Settled(r)
  BY DEF Inv, TypeOK
<1>2. panel \in Panel /\ UNCHANGED <<selected, clipboard>>
  BY DEF Inv, TypeOK, RefreshAnswered, UploadAnswered, ShowText, ImageAnswered, Press
<1>3. CASE RefreshAnswered(t)
  <2>1. CASE r.answer.status = "data"
    <3>1. r.answer.value \in Values
      BY <2>1, DataAnswer DEF Task
    <3>2. QED BY <1>1, <1>2, <1>3, <2>1, <3>1, Loads DEF RefreshAnswered
  <2>2. CASE r.answer.status # "data"
    <3>1. Becomes(t, NoTask) /\ panel' = [panel EXCEPT !.text = NoValue, !.image = NoValue]
      BY <1>1, <1>3, <2>2 DEF RefreshAnswered
    <3>2. panel' \in Panel
      BY <1>2, <3>1 DEF Panel
    <3>3. QED BY <1>2, <3>1, <3>2, IsOver
  <2>3. QED BY <2>1, <2>2
<1>4. CASE UploadAnswered(t)
  <2>1. r.at = "answered" /\ r.op = "upload" /\ r.item \in Values
    BY <1>1, <1>4 DEF UploadAnswered, Stage
  <2>2. Load(t, r.item) \/ (Becomes(t, NoTask) /\ UNCHANGED panel)
    BY <1>1, <1>4 DEF UploadAnswered
  <2>3. QED BY <1>1, <1>2, <2>1, <2>2, Loads, IsOver
<1>5. CASE ShowText(t)
  <2>1. r.item \in Values /\ Becomes(t, NoTask) /\ panel' = [panel EXCEPT !.text = r.item]
    BY <1>1, <1>5 DEF ShowText, Stage
  <2>2. panel' \in Panel
    <3>1. PICK x \in Values : x = r.item
      BY <2>1
    <3>2. [panel EXCEPT !.text = x] \in Panel
      BY <1>2 DEF Panel
    <3>3. QED BY <2>1, <3>1, <3>2
  <2>3. QED BY <1>2, <2>1, <2>2, IsOver
<1>6. CASE (ImageAnswered(t) \/ Press(t)) /\ Becomes(t, NoTask)
  <2>1. panel' = panel
    BY <1>6 DEF ImageAnswered, Press
  <2>2. QED BY <1>2, <1>6, <2>1, IsOver
<1>7. CASE ImageAnswered(t) /\ r.answer.status = "done" /\ Becomes(t, [task[t] EXCEPT !.at = "pressing"])
  <2> DEFINE k == [r EXCEPT !.at = "pressing"]
  <2>1. k \in Task
    BY DEF Task
  <2>2. /\ k.at = "pressing" /\ k.item = r.item /\ k.op = r.op /\ k.desk = r.desk /\ k.mime = r.mime
        /\ k.view = r.view /\ (k.calm <=> r.calm) /\ (k.copying <=> r.copying) /\ k.answer = r.answer
    BY DEF Task
  <2>3. Becomes(t, k) /\ panel' = panel /\ r.at = "answered" /\ r.op = "image"
    BY <1>1, <1>7 DEF ImageAnswered
  <2> HIDE DEF k
  <2>4. Stage(k)
    BY <1>1, <1>7, <2>2, <2>3 DEF Stage
  <2>5. Settled(k)
    BY <1>1, <1>7, <2>2, <2>3 DEF Settled, Taken
  <2>6. QED BY <1>2, <2>1, <2>3, <2>4, <2>5, Replace
<1>8. QED
  BY <1>1, <1>3, <1>4, <1>5, <1>6, <1>7 DEF ImageAnswered, Press

\* wl-copy takes the clipboard, and so does an application.
LEMMA Takes ==
  ASSUME Inv, NEW t \in Tasks, CopyTakes(t)
  PROVE  Inv'
<1>1. PICK r \in Task : r = task[t] /\ Stage(r) /\ Settled(r)
  BY DEF Inv, TypeOK
<1>2. /\ r.copying /\ r.at = "copying" /\ r.op \in {"upload", "image"}
      /\ r.item \in Values /\ r.desk \in Desktops /\ r.answer.status # "data"
      /\ UNCHANGED <<selected, panel>>
      /\ clipboard' = [clipboard EXCEPT ![r.desk] = r.item.content]
  BY <1>1 DEF CopyTakes, Stage
<1> DEFINE k == [r EXCEPT !.copying = FALSE]
           D == Disturbed(r.desk, Tasks \ {t})
<1>3. D[t] = r
  BY <1>1 DEF Disturbed
<1>4. /\ D \in [Tasks -> Task]
      /\ \A u \in Tasks : Stage(D[u])
      /\ \A u \in Tasks : D[u] = task[u] \/ ~D[u].calm
      /\ \A u \in Tasks \ {t} : task[u].view = r.desk => ~D[u].calm
  BY Disturbs
<1>5. task' = [D EXCEPT ![t].copying = FALSE]
  BY <1>1, <1>2 DEF CopyTakes
<1>6. k \in Task
  BY DEF Task
<1>7. /\ k.at = r.at /\ k.item = r.item /\ k.op = r.op /\ k.desk = r.desk /\ k.mime = r.mime
      /\ k.view = r.view /\ (k.calm <=> r.calm) /\ ~k.copying /\ k.answer = r.answer
  BY DEF Task
<1> HIDE DEF D
<1>8. /\ task' \in [Tasks -> Task]
      /\ task'[t] = k
      /\ \A u \in Tasks \ {t} : task'[u] = D[u]
  <2>1. task' = [D EXCEPT ![t] = k]
    BY <1>3, <1>5
  <2> HIDE DEF k
  <2>2. QED BY <1>4, <1>6, <2>1
<1> HIDE DEF k
<1>9. TypeOK'
  <2>1. r.item.content \in Contents
    BY <1>2, ValueFields
  <2>2. QED BY <1>2, <1>8, <2>1 DEF Inv, TypeOK
<1>10. ASSUME NEW u \in Tasks PROVE Stage(task'[u])
  <2>1. Stage(k)
    BY <1>1, <1>2, <1>7 DEF Stage
  <2>2. QED BY <1>4, <1>8, <2>1
<1>11. ASSUME NEW u \in Tasks PROVE Settled(task[u])'
  <2>1. CASE u = t
    <3>1. clipboard'[r.desk] = r.item.content
      BY <1>2 DEF Inv, TypeOK
    <3>2. QED BY <1>1, <1>2, <1>7, <1>8, <2>1, <3>1 DEF Settled, Taken
  <2>2. CASE u # t /\ ~task'[u].calm
    BY <2>2 DEF Settled
  <2>3. CASE u # t /\ task'[u].calm
    <3>1. task'[u] = task[u] /\ task[u].view # r.desk /\ Stage(task[u]) /\ Settled(task[u])
      BY <1>4, <1>8, <2>3 DEF Inv
    <3>2. PICK j : j = task[u]
      OBVIOUS
    <3>3. Settled(j)'
      BY <1>2, <2>3, <3>1, <3>2, Elsewhere
    <3>4. QED BY <3>1, <3>2, <3>3 DEF Settled, Taken
  <2>4. QED BY <2>1, <2>2, <2>3
<1>12. QED
  BY <1>9, <1>10, <1>11 DEF Inv, Stage

\* An application copies, or another desktop is selected.
LEMMA Interferes ==
  ASSUME Inv,
         \/ \E d \in Desktops, x \in Contents \cup {Nothing} : AppCopies(d, x)
         \/ \E d \in Desktops \cup {NoDesktop} : Select(d)
  PROVE  Inv'
<1>1. CASE \E d \in Desktops, x \in Contents \cup {Nothing} : AppCopies(d, x)
  <2>1. PICK d \in Desktops, x \in Contents \cup {Nothing} : AppCopies(d, x)
    BY <1>1
  <2> DEFINE D == Disturbed(d, Tasks)
  <2>2. /\ task' = D /\ UNCHANGED <<selected, panel>> /\ clipboard' = [clipboard EXCEPT ![d] = x]
    BY <2>1 DEF AppCopies
  <2>3. /\ D \in [Tasks -> Task]
        /\ \A u \in Tasks : Stage(D[u])
        /\ \A u \in Tasks : D[u] = task[u] \/ ~D[u].calm
        /\ \A u \in Tasks : task[u].view = d => ~D[u].calm
    BY Disturbs
  <2> HIDE DEF D
  <2>4. TypeOK'
    BY <2>2, <2>3 DEF Inv, TypeOK
  <2>5. ASSUME NEW u \in Tasks, task'[u].calm PROVE Settled(task[u])'
    <3>1. task'[u] = task[u] /\ task[u].view # d /\ Stage(task[u]) /\ Settled(task[u])
      BY <2>2, <2>3, <2>5 DEF Inv
    <3>2. PICK j : j = task[u]
      OBVIOUS
    <3>3. Settled(j)'
      BY <2>2, <2>5, <3>1, <3>2, Elsewhere
    <3>4. QED BY <3>1, <3>2, <3>3 DEF Settled, Taken
  <2>6. ASSUME NEW u \in Tasks, ~task'[u].calm PROVE Settled(task[u])'
    BY <2>6 DEF Settled
  <2>7. QED BY <2>2, <2>3, <2>4, <2>5, <2>6 DEF Inv, Stage
<1>2. CASE \E d \in Desktops \cup {NoDesktop} : Select(d)
  <2>1. PICK d \in Desktops \cup {NoDesktop} : Select(d)
    BY <1>2
  <2> DEFINE D == Disturbed(selected, Tasks)
  <2>2. task' = D /\ selected' = d /\ UNCHANGED <<clipboard, panel>>
    BY <2>1 DEF Select
  <2>3. /\ D \in [Tasks -> Task]
        /\ \A u \in Tasks : Stage(D[u])
        /\ \A u \in Tasks : D[u] = task[u] \/ ~D[u].calm
        /\ \A u \in Tasks : task[u].view = selected => ~D[u].calm
    BY Disturbs
  <2> HIDE DEF D
  <2>4. TypeOK'
    BY <2>1, <2>2, <2>3 DEF Inv, TypeOK
  <2>5. ASSUME NEW u \in Tasks PROVE ~task'[u].calm
    <3>1. Settled(task[u])
      BY DEF Inv
    <3>2. QED BY <2>2, <2>3, <3>1 DEF Settled
  <2>6. ASSUME NEW u \in Tasks PROVE Settled(task[u])'
    BY <2>5 DEF Settled
  <2>7. QED BY <2>2, <2>3, <2>4, <2>6 DEF Inv, Stage
<1>3. QED BY <1>1, <1>2

\* Every step keeps what the places of the tasks demand.
LEMMA InvStep == Inv /\ [Next]_vars => Inv'
<1> SUFFICES ASSUME Inv, [Next]_vars PROVE Inv'
  OBVIOUS
<1>1. ASSUME NEW t \in Tasks, Refresh(t) PROVE Inv'
  <2>1. panel' \in Panel
    BY <1>1 DEF Refresh, Overlaps, OnPanel, Inv, TypeOK, Panel
  <2>2. QED BY <1>1, <2>1, Begins DEF Refresh
<1>2. ASSUME NEW t \in Tasks, NEW x \in Uploads, Upload(t, x) \/ PasteImage(t, x) PROVE Inv'
  <2>1. panel' \in Panel
    BY <1>2 DEF Upload, PasteImage, Overlaps, OnPanel, Inv, TypeOK, Panel
  <2>2. x \in Values
    BY DEF Uploads
  <2>3. QED BY <1>2, <2>1, <2>2, Begins DEF Upload, PasteImage
<1>3. CASE Reload
  <2>1. \A t \in Tasks : task'[t] = NoTask
    BY <1>3 DEF Reload
  <2>2. TypeOK'
    BY <1>3, Plain DEF Reload, Inv, TypeOK
  <2>3. ASSUME NEW t \in Tasks PROVE Settled(task[t])'
    <3>1. ~task'[t].calm
      BY <2>1 DEF NoTask
    <3>2. QED BY <3>1 DEF Settled
  <2>4. ASSUME NEW t \in Tasks PROVE Stage(task[t])'
    BY <2>1, Plain DEF Stage
  <2>5. QED BY <2>2, <2>3, <2>4 DEF Inv
<1>4. CASE Dispose
  <2>1. panel' \in Panel
    BY <1>4 DEF Dispose, NoPanel, Overlaps, OnPanel, Inv, TypeOK, Panel
  <2>2. QED
    BY <1>4, <2>1 DEF Dispose, Inv, TypeOK, Stage, Settled, Taken, Offered
<1>5. CASE UNCHANGED vars
  BY <1>5 DEF vars, Inv, TypeOK, Stage, Settled, Taken, Offered
<1>6. QED
  BY <1>1, <1>2, <1>3, <1>4, <1>5, Handles, Reads, Takes, Ends, GoesOn, Interferes DEF Next, Step

\* At first nothing is under way.
LEMMA InvInit == Init => Inv
<1> SUFFICES ASSUME Init PROVE Inv
  OBVIOUS
<1>1. \A t \in Tasks : task[t] = NoTask
  BY DEF Init
<1>2. TypeOK
  BY Plain DEF Init, TypeOK
<1>3. Settled(NoTask)
  BY DEF Settled, NoTask
<1>4. QED
  BY <1>1, <1>2, <1>3, Plain DEF Inv

\* What every reachable state satisfies.
LEMMA Invariance == Spec => []Inv
<1>1. QED BY InvInit, InvStep, PTL DEF Spec

\* The types hold in every reachable state.
THEOREM TypeCorrect == Spec => []TypeOK
<1>1. Inv => TypeOK
  BY DEF Inv
<1>2. QED BY <1>1, Invariance, PTL

\* Two commands read the clipboard, and still what is answered is of the
\* announced type and, when nobody interfered, the best the clipboard offers.
THEOREM OneClipboard == Spec => []AnswerIsOneClipboard
<1>1. Inv => AnswerIsOneClipboard
  BY DEF Inv, Stage, Settled, AnswerIsOneClipboard
<1>2. QED BY <1>1, Invariance, PTL

\* A paste finds the image that was sent, unless another application, an operation
\* still under way or a new selection interfered; the wl-copy of an operation that
\* is over does not.
THEOREM ImageLands == Spec => []PasteLands
<1>1. Inv => PasteLands
  BY DEF Inv, Stage, Settled, Taken, PasteLands
<1>2. QED BY <1>1, Invariance, PTL
-----------------------------------------------------------------------------
(* The panel.                                                              *)

Matches == Shown = {panel.blob} \ {NoValue}

\* What the panel holds and shows while the only operation on it is at k.
PanelAt(k) ==
  /\ k.op = "refresh" /\ k.at # "showing" => panel.blob = NoValue
  /\ k.op = "upload" /\ k.at # "showing" => Matches
  /\ k.at = "showing" =>
       panel.blob = k.item /\ panel.text = NoValue /\ panel.image = NoValue

PanelInv ==
  ~panel.hurried =>
    /\ \A t, u \in Tasks : OnPanel(t) /\ OnPanel(u) => t = u
    /\ (\A t \in Tasks : ~OnPanel(t)) => Matches
    /\ \A t \in Tasks : OnPanel(t) => PanelAt(task[t])

\* To the panel the task u is where it was.
Same(u) ==
  /\ OnPanel(u)' <=> OnPanel(u)
  /\ OnPanel(u) => /\ task'[u].op = task[u].op
                   /\ task'[u].item = task[u].item
                   /\ task'[u].at = "showing" <=> task[u].at = "showing"

\* A step that the panel does not notice.
LEMMA PanelFrame ==
  ASSUME PanelInv, UNCHANGED panel, \A u \in Tasks : Same(u)
  PROVE  PanelInv'
BY DEF PanelInv, Same, PanelAt, Matches, Shown, OnPanel

\* The only operation on the panel comes to its end and leaves it as it should.
LEMMA PanelDone ==
  ASSUME PanelInv, NEW t \in Tasks, OnPanel(t), ~OnPanel(t)',
         \A u \in Tasks \ {t} : task'[u] = task[u],
         panel'.hurried = panel.hurried, ~panel.hurried => Matches'
  PROVE  PanelInv'
BY DEF PanelInv, OnPanel

\* An operation on the panel begins.
LEMMA PanelBegins ==
  ASSUME Inv, PanelInv, NEW t \in Tasks, NEW x, Refresh(t) \/ Upload(t, x)
  PROVE  PanelInv'
<1>1. PICK op \in PanelOps : Begin(t, op, IF op = "refresh" THEN NoValue ELSE x)
                              /\ (op = "refresh" <=> Refresh(t)) /\ (op = "upload" <=> Upload(t, x))
  <2>1. ~(Refresh(t) /\ Upload(t, x))
    <3>1. Refresh(t) => task'[t].op = "refresh"
      BY DEF Refresh, Begin, Becomes, NoTask, Inv, TypeOK
    <3>2. Upload(t, x) => task'[t].op = "upload"
      BY DEF Upload, Begin, Becomes, NoTask, Inv, TypeOK
    <3>3. QED BY <3>1, <3>2
  <2>2. CASE Refresh(t)
    BY <2>1, <2>2 DEF Refresh
  <2>3. CASE Upload(t, x)
    BY <2>1, <2>3 DEF Upload
  <2>4. QED BY <2>2, <2>3
<1>2. /\ \A u \in Tasks \ {t} : task'[u] = task[u]
      /\ task'[t].op = op /\ task'[t].at = "sent"
  BY <1>1 DEF Begin, Becomes, NoTask, Inv, TypeOK
<1>3. panel \in Panel
  BY DEF Inv, TypeOK
<1>4. CASE op = "refresh"
  <2>1. panel'.blob = NoValue /\ (panel'.hurried <=> Overlaps)
    BY <1>1, <1>3, <1>4 DEF Refresh, Panel
  <2>2. QED BY <1>2, <1>4, <2>1 DEF PanelInv, PanelAt, OnPanel, Overlaps
<1>5. CASE op = "upload"
  <2>1. /\ panel'.blob = panel.blob /\ panel'.text = panel.text /\ panel'.image = panel.image
        /\ panel'.hurried <=> (panel.hurried \/ Overlaps)
    BY <1>1, <1>3, <1>5 DEF Upload, Panel
  <2>2. Matches => Matches'
    BY <2>1 DEF Matches, Shown
  <2>3. QED BY <1>2, <1>5, <2>1, <2>2 DEF PanelInv, PanelAt, OnPanel, Overlaps
<1>6. QED BY <1>4, <1>5

\* A value is shown, at once or after an await.
LEMMA PanelLoads ==
  ASSUME Inv, PanelInv, NEW t \in Tasks, NEW x, Load(t, x), OnPanel(t)
  PROVE  PanelInv'
<1>1. panel \in Panel /\ task[t] \in Task
  BY DEF Inv, TypeOK
<1>2. \A u \in Tasks \ {t} : task'[u] = task[u]
  BY DEF Load, Becomes, Inv, TypeOK
<1>3. CASE x.type = "image"
  <2>1. /\ panel'.blob = x /\ panel'.image = x /\ panel'.text = NoValue
        /\ panel'.hurried = panel.hurried
    BY <1>1, <1>3 DEF Load, Panel
  <2>2. Matches'
    BY <2>1 DEF Matches, Shown
  <2>3. ~OnPanel(t)'
    BY <1>3 DEF Load, Becomes, NoTask, OnPanel, Inv, TypeOK
  <2>4. QED BY <1>2, <2>1, <2>2, <2>3, PanelDone
<1>4. CASE x.type # "image"
  <2>1. /\ panel'.blob = x /\ panel'.image = NoValue /\ panel'.text = NoValue
        /\ panel'.hurried = panel.hurried
    BY <1>1, <1>4 DEF Load, Panel
  <2>2. task'[t].at = "showing" /\ task'[t].item = x /\ task'[t].op = task[t].op
    <3>1. task'[t] = [task[t] EXCEPT !.at = "showing", !.item = x]
      BY <1>4 DEF Load, Becomes, Inv, TypeOK
    <3>2. QED BY <1>1, <3>1 DEF Task
  <2>3. QED BY <1>2, <2>1, <2>2 DEF PanelInv, PanelAt, OnPanel
<1>5. QED BY <1>3, <1>4

\* Every step keeps what the panel holds in step with what it shows.
LEMMA PanelStep == Inv /\ PanelInv /\ [Next]_vars => PanelInv'
<1> SUFFICES ASSUME Inv, PanelInv, [Next]_vars PROVE PanelInv'
  OBVIOUS
<1>0. panel \in Panel /\ task \in [Tasks -> Task]
  BY DEF Inv, TypeOK
<1>1. ASSUME NEW t \in Tasks, NEW x \in Uploads, Refresh(t) \/ Upload(t, x) PROVE PanelInv'
  BY <1>1, PanelBegins
<1>2. ASSUME NEW t \in Tasks, Refresh(t) PROVE PanelInv'
  BY <1>2, PanelBegins
<1>3. ASSUME NEW t \in Tasks, RefreshAnswered(t) PROVE PanelInv'
  <2>1. OnPanel(t) /\ task[t].at # "showing" /\ task[t].op = "refresh"
    BY <1>3 DEF RefreshAnswered, OnPanel
  <2>2. CASE Load(t, task[t].answer.value)
    BY <2>1, <2>2, PanelLoads
  <2>3. CASE Becomes(t, NoTask) /\ panel' = [panel EXCEPT !.text = NoValue, !.image = NoValue]
    <3>1. /\ panel'.blob = panel.blob /\ panel'.text = NoValue /\ panel'.image = NoValue
          /\ panel'.hurried = panel.hurried
      BY <1>0, <2>3 DEF Panel
    <3>2. ~panel.hurried => panel.blob = NoValue
      BY <2>1 DEF PanelInv, PanelAt
    <3>3. ~panel.hurried => Matches'
      BY <3>1, <3>2 DEF Matches, Shown
    <3>4. ~OnPanel(t)' /\ \A u \in Tasks \ {t} : task'[u] = task[u]
      BY <1>0, <2>3 DEF Becomes, NoTask, OnPanel
    <3>5. QED BY <2>1, <3>1, <3>3, <3>4, PanelDone
  <2>4. QED BY <1>3, <2>2, <2>3 DEF RefreshAnswered
<1>4. ASSUME NEW t \in Tasks, UploadAnswered(t) PROVE PanelInv'
  <2>1. OnPanel(t) /\ task[t].at # "showing" /\ task[t].op = "upload"
    BY <1>4 DEF UploadAnswered, OnPanel
  <2>2. CASE Load(t, task[t].item)
    BY <2>1, <2>2, PanelLoads
  <2>3. CASE Becomes(t, NoTask) /\ UNCHANGED panel
    <3>1. ~panel.hurried => Matches
      BY <2>1 DEF PanelInv, PanelAt
    <3>2. ~OnPanel(t)' /\ \A u \in Tasks \ {t} : task'[u] = task[u]
      BY <1>0, <2>3 DEF Becomes, NoTask, OnPanel
    <3>3. Matches => Matches'
      BY <2>3 DEF Matches, Shown
    <3>4. QED BY <2>1, <2>3, <3>1, <3>2, <3>3, PanelDone
  <2>4. QED BY <1>4, <2>2, <2>3 DEF UploadAnswered
<1>5. ASSUME NEW t \in Tasks, ShowText(t) PROVE PanelInv'
  <2>1. OnPanel(t) /\ task[t].at = "showing" /\ Becomes(t, NoTask)
        /\ panel' = [panel EXCEPT !.text = task[t].item]
    BY <1>5 DEF ShowText, Inv, Stage, OnPanel
  <2>2. /\ panel'.blob = panel.blob /\ panel'.text = task[t].item /\ panel'.image = panel.image
        /\ panel'.hurried = panel.hurried
    BY <1>0, <2>1 DEF Panel
  <2>3. ~panel.hurried => Matches'
    BY <2>1, <2>2 DEF PanelInv, PanelAt, Matches, Shown
  <2>4. ~OnPanel(t)' /\ \A u \in Tasks \ {t} : task'[u] = task[u]
    BY <1>0, <2>1 DEF Becomes, NoTask, OnPanel
  <2>5. QED BY <2>1, <2>2, <2>3, <2>4, PanelDone
<1>6. CASE Reload
  <2>1. \A t \in Tasks : ~OnPanel(t)'
    BY <1>6 DEF Reload, NoTask, OnPanel
  <2>2. Matches'
    BY <1>6 DEF Reload, NoPanel, Matches, Shown
  <2>3. QED BY <2>1, <2>2 DEF PanelInv
<1>7. ASSUME NEW t \in Tasks, Handle(t) \/ List(t) \/ Paste(t) \/ CopyDone(t) \/ TimeLimit(t)
      PROVE PanelInv'
  <2>1. PICK r \in Task : r = task[t] /\ r.at # "showing"
    BY <1>0, <1>7 DEF Handle, List, Paste, CopyDone, TimeLimit
  <2>2. PICK k : Becomes(t, k) /\ k.op = r.op /\ k.item = r.item /\ k.at # "showing"
    <3>1. \/ \E a : Respond(t, a)
          \/ Becomes(t, [r EXCEPT !.at = "listing", !.desk = selected])
          \/ Becomes(t, [r EXCEPT !.at = "copying", !.desk = selected, !.copying = TRUE])
          \/ \E m : Becomes(t, [r EXCEPT !.at = "pasting", !.mime = m])
      BY <1>7, <2>1 DEF Handle, List, Paste, CopyDone, TimeLimit
    <3>2. ASSUME NEW a, Respond(t, a)
          PROVE \E k : Becomes(t, k) /\ k.op = r.op /\ k.item = r.item /\ k.at # "showing"
      <4> DEFINE k == [r EXCEPT !.at = "answered", !.answer = a, !.copying = FALSE]
      <4>1. k.op = r.op /\ k.item = r.item /\ k.at # "showing"
        BY DEF Task
      <4>2. Becomes(t, k)
        BY <2>1, <3>2 DEF Respond
      <4>3. QED BY <4>1, <4>2
    <3>3. ASSUME NEW m, Becomes(t, [r EXCEPT !.at = "pasting", !.mime = m])
          PROVE \E k : Becomes(t, k) /\ k.op = r.op /\ k.item = r.item /\ k.at # "showing"
      <4> DEFINE k == [r EXCEPT !.at = "pasting", !.mime = m]
      <4>1. k.op = r.op /\ k.item = r.item /\ k.at # "showing"
        BY DEF Task
      <4>2. QED BY <3>3, <4>1
    <3>4. ASSUME Becomes(t, [r EXCEPT !.at = "listing", !.desk = selected])
          PROVE \E k : Becomes(t, k) /\ k.op = r.op /\ k.item = r.item /\ k.at # "showing"
      <4> DEFINE k == [r EXCEPT !.at = "listing", !.desk = selected]
      <4>1. k.op = r.op /\ k.item = r.item /\ k.at # "showing"
        BY DEF Task
      <4>2. QED BY <3>4, <4>1
    <3>5. ASSUME Becomes(t, [r EXCEPT !.at = "copying", !.desk = selected, !.copying = TRUE])
          PROVE \E k : Becomes(t, k) /\ k.op = r.op /\ k.item = r.item /\ k.at # "showing"
      <4> DEFINE k == [r EXCEPT !.at = "copying", !.desk = selected, !.copying = TRUE]
      <4>1. k.op = r.op /\ k.item = r.item /\ k.at # "showing"
        BY DEF Task
      <4>2. QED BY <3>5, <4>1
    <3>6. QED BY <3>1, <3>2, <3>3, <3>4, <3>5
  <2>3. \A u \in Tasks : Same(u)
    BY <1>0, <2>1, <2>2 DEF Becomes, Same, OnPanel
  <2>4. UNCHANGED panel
    BY <1>7 DEF Handle, List, Paste, CopyDone, TimeLimit
  <2>5. QED BY <2>3, <2>4, PanelFrame
<1>8. ASSUME NEW t \in Tasks, NEW x, PasteImage(t, x) PROVE PanelInv'
  <2>1. /\ \A u \in Tasks \ {t} : task'[u] = task[u]
        /\ task[t].at = "idle" /\ task'[t].op = "image" /\ UNCHANGED panel
    BY <1>0, <1>8 DEF PasteImage, Begin, Becomes, NoTask
  <2>2. Stage(task[t])
    BY DEF Inv
  <2>3. ~OnPanel(t) /\ ~OnPanel(t)'
    BY <2>1, <2>2 DEF OnPanel, Stage
  <2>4. \A u \in Tasks : Same(u)
    BY <2>1, <2>3 DEF Same, OnPanel
  <2>5. QED BY <2>1, <2>4, PanelFrame
<1>9. ASSUME NEW t \in Tasks, ImageAnswered(t) \/ Press(t) PROVE PanelInv'
  <2>1. task[t].op = "image" /\ UNCHANGED panel
    BY <1>9 DEF ImageAnswered, Press, Inv, Stage
  <2>2. /\ \A u \in Tasks \ {t} : task'[u] = task[u]
        /\ task'[t] = NoTask \/ task'[t] = [task[t] EXCEPT !.at = "pressing"]
    BY <1>0, <1>9 DEF ImageAnswered, Press, Becomes
  <2>3. task'[t].op \in {"none", "image"}
    BY <1>0, <2>1, <2>2 DEF NoTask, Task
  <2>4. \A u \in Tasks : Same(u)
    BY <2>1, <2>2, <2>3 DEF Same, OnPanel
  <2>5. QED BY <2>1, <2>4, PanelFrame
<1>10. ASSUME UNCHANGED panel,
              \A u \in Tasks : task'[u].op = task[u].op /\ task'[u].item = task[u].item
                              /\ task'[u].at = task[u].at
       PROVE  PanelInv'
  BY <1>10, PanelFrame DEF Same, OnPanel
<1>11. ASSUME NEW d, NEW others, NEW u \in Tasks
       PROVE  LET D == Disturbed(d, others)
              IN D[u].op = task[u].op /\ D[u].item = task[u].item /\ D[u].at = task[u].at
  <2>1. task[u] \in Task
    BY <1>0
  <2>2. QED BY <2>1, DisturbedIs DEF Disturbed
<1>12. ASSUME NEW t \in Tasks, CopyTakes(t) PROVE PanelInv'
  <2> DEFINE D == Disturbed(task[t].desk, IF task[t].at = "copying" THEN Tasks \ {t} ELSE {})
  <2>1. D \in [Tasks -> Task] /\ \A u \in Tasks : /\ D[u].op = task[u].op
                                                    /\ D[u].item = task[u].item
                                                    /\ D[u].at = task[u].at
    BY <1>11, Disturbs
  <2>2. task' = [D EXCEPT ![t].copying = FALSE] /\ UNCHANGED panel
    BY <1>12 DEF CopyTakes
  <2> HIDE DEF D
  <2>3. ASSUME NEW u \in Tasks
        PROVE /\ task'[u].op = task[u].op /\ task'[u].item = task[u].item
              /\ task'[u].at = task[u].at
    <3>1. PICK j \in Task : j = D[u]
      BY <2>1
    <3>2. task'[u] = j \/ task'[u] = [j EXCEPT !.copying = FALSE]
      BY <2>1, <2>2, <3>1
    <3>3. QED BY <2>1, <3>1, <3>2 DEF Task
  <2>4. QED BY <1>10, <2>2, <2>3
<1>13. ASSUME NEW d, NEW x, AppCopies(d, x) PROVE PanelInv'
  BY <1>10, <1>11, <1>13 DEF AppCopies
<1>14. ASSUME NEW d, Select(d) PROVE PanelInv'
  BY <1>10, <1>11, <1>14 DEF Select
<1>15. CASE UNCHANGED vars
  BY <1>10, <1>15 DEF vars
<1>16. CASE Dispose
  <2>1. panel'.hurried <=> (panel.hurried \/ Overlaps)
    BY <1>0, <1>16 DEF Dispose, NoPanel
  <2>2. Matches'
    BY <1>16 DEF Dispose, NoPanel, Matches, Shown
  <2>3. ~panel'.hurried => \A t \in Tasks : ~OnPanel(t)'
    BY <1>16, <2>1 DEF Dispose, Overlaps, OnPanel
  <2>4. QED BY <2>2, <2>3 DEF PanelInv
<1>17. QED
  BY <1>1, <1>2, <1>3, <1>4, <1>5, <1>6, <1>7, <1>8, <1>9, <1>12, <1>13, <1>14, <1>15, <1>16
     DEF Next, Step

\* What is copied to this computer is what the preview shows, unless operations
\* on the panel overlapped.
THEOREM PreviewIsBlob == Spec => []PreviewMatches
<1>1. Init => PanelInv
  BY DEF Init, PanelInv, NoTask, NoPanel, OnPanel, Matches, Shown
<1>2. PanelInv => PreviewMatches
  BY DEF PanelInv, PreviewMatches, Matches
<1>3. QED BY <1>1, <1>2, PanelStep, Invariance, PTL DEF Spec
=============================================================================
