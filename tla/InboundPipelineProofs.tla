------------------------ MODULE InboundPipelineProofs -----------------------
(***************************************************************************)
(* The outcomes of InboundPipeline for any number of workers, emails,      *)
(* attachments and conversations, any attempt budget and any number of     *)
(* reassignments: PipelineInv is inductive.                                *)
(***************************************************************************)
EXTENDS InboundPipeline, TLAPS

\* Leaves that need arithmetic or many updates at once cite SMT.
USE Zenon

-----------------------------------------------------------------------------
(* What a step of one worker leaves to the others.                         *)

\* The step does not touch what WorkInv says of v.
Untouched(v) ==
    /\ pc'[v] = pc[v] /\ email'[v] = email[v]
    /\ unresolved'[v] = unresolved[v] /\ resolution'[v] = resolution[v]

\* A Message stays stored and in its Thread, and a contact stays settled.
Forward ==
    /\ \A e \in Emails : msg[e] # "none" => msg'[e] # "none" /\ threadOf'[e] = threadOf[e]
    /\ \A c \in Conversations : Settled(c) => Settled(c)'

\* What the rows alone promise.
Outcomes ==
    /\ RowInv /\ ConfirmedDurable /\ ReadyComplete /\ EventExactlyOnce
    /\ LastMessageExact /\ AttemptBudget /\ OperatorWins

LEMMA InvParts ==
    PipelineInv <=> TypeOK /\ Outcomes /\ ThreadInv /\ \A w \in Workers : WorkInv(w)
BY DEF PipelineInv, Outcomes

\* A worker that is not touched keeps its invariant while the rows move forward and
\* the contact it has locked does not change.
LEMMA KeptWork ==
    ASSUME TypeOK, NEW v \in Workers, WorkInv(v), Untouched(v), Forward,
           \A c \in Conversations : HoldsThread(v, c) => contact'[c] = contact[c]
    PROVE  WorkInv(v)'
<1>. SUFFICES ASSUME pc[v] # "idle" PROVE WorkInv(v)'
  BY DEF WorkInv, Untouched
<1>1. PICK e \in Emails : e = email[v]
  BY DEF WorkInv
<1>2. PICK c \in Conversations : c = ConversationOf[e]
  BY PipelineAssumption
<1>3. email'[v] = e /\ pc'[v] = pc[v] /\ unresolved'[v] = unresolved[v] /\ resolution'[v] = resolution[v]
  BY <1>1 DEF Untouched
<1>4. /\ msg[e] # "none" => msg'[e] # "none" /\ threadOf'[e] = threadOf[e]
      /\ Settled(c) => Settled(c)'
  BY DEF Forward
<1>5. /\ pc[v] = "quarantine" <=> e \in Malformed
      /\ pc[v] \in Completing => msg[e] # "none"
      /\ pc[v] \in Completing /\ threadOf[e] = "regular" =>
            Settled(c) \/ IF pc[v] \in Looked THEN resolution[v] # "none" ELSE unresolved[v]
      /\ HoldsThread(v, c) => Unresolved(contact[c])
  BY <1>1, <1>2 DEF WorkInv
<1>6. HoldsThread(v, c)' => Unresolved(contact'[c])
  BY <1>1, <1>3, <1>5 DEF HoldsThread
<1>. QED  BY <1>2, <1>3, <1>4, <1>5, <1>6 DEF WorkInv

LEMMA KeptThreads ==
    ASSUME TypeOK, ThreadInv, NEW w \in Workers, pc'[w] # "marking",
           \A v \in Workers \ {w} : Untouched(v)
    PROVE  ThreadInv'
BY SMT DEF ThreadInv, HoldsThread, Untouched

\* A step that leaves the rows alone.
LEMMA SameRows ==
    ASSUME TypeOK, Outcomes, UNCHANGED <<messageVars, threadVars, confirmed, manual>>
    PROVE  Outcomes' /\ Forward
<1>1. UNCHANGED <<msg, threadOf, pending, attempts, failures, outbox, contact, last, confirmed, manual>>
  BY DEF messageVars, threadVars
<1>2. Forward
  BY <1>1 DEF Forward, Settled
<1>3. Outcomes'
  <2>1. RowInv' /\ ConfirmedDurable' /\ ReadyComplete'
    BY <1>1 DEF Outcomes, RowInv, ConfirmedDurable, ReadyComplete
  <2>2. EventExactlyOnce' /\ AttemptBudget' /\ OperatorWins'
    BY <1>1 DEF Outcomes, EventExactlyOnce, AttemptBudget, OperatorWins
  <2>3. LastMessageExact'
    BY <1>1 DEF Outcomes, LastMessageExact
  <2>. QED  BY <2>1, <2>2, <2>3 DEF Outcomes
<1>. QED  BY <1>2, <1>3

\* A step of w that moves the rows forward and takes no row lock.
LEMMA WorkStep ==
    ASSUME PipelineInv, TypeOK', NEW w \in Workers,
           \A v \in Workers \ {w} : Untouched(v), Forward, Outcomes',
           \A c \in Conversations : contact'[c] = contact[c] \/ \A v \in Workers \ {w} : ~HoldsThread(v, c),
           pc'[w] # "marking", WorkInv(w)'
    PROVE  PipelineInv'
<1>1. TypeOK /\ ThreadInv /\ \A v \in Workers : WorkInv(v)
  BY InvParts
<1>2. ASSUME NEW v \in Workers \ {w} PROVE WorkInv(v)'
  <2>1. WorkInv(v) /\ Untouched(v) /\ \A c \in Conversations : HoldsThread(v, c) => contact'[c] = contact[c]
    BY <1>1
  <2>. QED  BY <1>1, <2>1, KeptWork
<1>3. ThreadInv'
  BY <1>1, KeptThreads
<1>. QED  BY <1>2, <1>3 DEF PipelineInv, Outcomes

\* A step of w that leaves the rows alone as well.
LEMMA ControlStep ==
    ASSUME PipelineInv, TypeOK', NEW w \in Workers,
           \A v \in Workers \ {w} : Untouched(v),
           UNCHANGED <<messageVars, threadVars, confirmed, manual>>,
           pc'[w] # "marking", WorkInv(w)'
    PROVE  PipelineInv'
<1>1. TypeOK /\ Outcomes
  BY InvParts
<1>2. Outcomes' /\ Forward
  BY <1>1, SameRows
<1>3. UNCHANGED contact
  BY DEF threadVars
<1>. QED  BY <1>2, <1>3, WorkStep

\* The end of the handling of an email, with what it did to the rows.
LEMMA FinishFacts ==
    ASSUME TypeOK, NEW w \in Workers, Finish(w)
    PROVE  /\ pc' \in [Workers -> Step] /\ email' \in [Workers -> Emails \cup {NoEmail}]
           /\ todo' \in [Workers -> SUBSET Parts] /\ part' \in [Workers -> SUBSET Parts]
           /\ unresolved' \in [Workers -> BOOLEAN]
           /\ resolution' \in [Workers -> Lookup \cup {"none"}]
           /\ lock' \in Workers \cup {NoWorker}
           /\ pc'[w] = "idle"
           /\ \A v \in Workers \ {w} : Untouched(v)
<1>1. pc' \in [Workers -> Step] /\ pc'[w] = "idle"
  BY DEF TypeOK, Finish, Step
<1>2. email' \in [Workers -> Emails \cup {NoEmail}]
  BY DEF TypeOK, Finish
<1>3. todo' \in [Workers -> SUBSET Parts] /\ part' \in [Workers -> SUBSET Parts]
  BY DEF TypeOK, Finish
<1>4. unresolved' \in [Workers -> BOOLEAN] /\ resolution' \in [Workers -> Lookup \cup {"none"}]
  BY DEF TypeOK, Finish
<1>5. lock' \in Workers \cup {NoWorker}
  BY DEF TypeOK, Finish
<1>6. \A v \in Workers \ {w} : Untouched(v)
  BY DEF TypeOK, Finish, Untouched
<1>. QED  BY <1>1, <1>2, <1>3, <1>4, <1>5, <1>6

LEMMA FinishStep ==
    ASSUME PipelineInv, TypeOK', NEW w \in Workers, Finish(w), Forward, Outcomes',
           \A c \in Conversations : contact'[c] = contact[c] \/ \A v \in Workers \ {w} : ~HoldsThread(v, c)
    PROVE  PipelineInv'
<1>1. TypeOK
  BY DEF PipelineInv
<1>2. pc'[w] = "idle" /\ \A v \in Workers \ {w} : Untouched(v)
  BY <1>1, FinishFacts
<1>3. WorkInv(w)'
  BY <1>2 DEF WorkInv
<1>. QED  BY <1>2, <1>3, WorkStep
-----------------------------------------------------------------------------
(* The steps that leave the rows alone.                                    *)

\* Types of the worker's own state.
WorkType ==
    /\ pc \in [Workers -> Step] /\ email \in [Workers -> Emails \cup {NoEmail}]
    /\ token \in [Workers -> 0 .. MaxGeneration]
    /\ todo \in [Workers -> SUBSET Parts] /\ part \in [Workers -> SUBSET Parts]
    /\ unresolved \in [Workers -> BOOLEAN] /\ resolution \in [Workers -> Lookup \cup {"none"}]
    /\ lock \in Workers \cup {NoWorker}

LEMMA ControlType ==
    ASSUME TypeOK, UNCHANGED <<profileVars, messageVars, threadVars, manual, confirmed>>, WorkType'
    PROVE  TypeOK'
BY DEF TypeOK, WorkType, profileVars, messageVars, threadVars

LEMMA GotoFacts ==
    ASSUME TypeOK, NEW w \in Workers, NEW step \in Step, Goto(w, step)
    PROVE  pc' \in [Workers -> Step] /\ pc'[w] = step /\ \A v \in Workers \ {w} : pc'[v] = pc[v]
BY DEF TypeOK, Goto

\* The profile is assigned or taken away, and a poll starts.
LEMMA AssignmentKeeps ==
    ASSUME PipelineInv, NEW w \in Workers, Assign(w) \/ Unassign \/ StartPoll(w)
    PROVE  PipelineInv'
<1>1. UNCHANGED <<lock, messageVars, threadVars, pc, email, workVars, confirmed, manual>>
  BY DEF Assign, Unassign, StartPoll
<1>2. owner' \in Workers \cup {NoWorker}
  BY DEF Assign, Unassign, StartPoll, PipelineInv, TypeOK, profileVars
<1>3. generation' \in 0 .. MaxGeneration
  BY PipelineAssumption, SMT DEF Assign, Unassign, StartPoll, PipelineInv, TypeOK, profileVars
<1>4. token' \in [Workers -> 0 .. MaxGeneration]
  BY DEF Assign, Unassign, StartPoll, PipelineInv, TypeOK
<1>5. TypeOK'
  BY <1>1, <1>2, <1>3, <1>4 DEF PipelineInv, TypeOK, messageVars, threadVars, workVars
<1>6. (\A v \in Workers : Untouched(v)) /\ UNCHANGED contact
  BY <1>1 DEF Untouched, workVars, threadVars
<1>7. TypeOK /\ Outcomes /\ ThreadInv /\ \A v \in Workers : WorkInv(v)
  BY InvParts
<1>8. Outcomes' /\ Forward
  BY <1>1, <1>7, SameRows
<1>9. \A v \in Workers : WorkInv(v)'
  BY <1>6, <1>7, <1>8, KeptWork
<1>10. ThreadInv'
  BY <1>6, <1>7, SMT DEF ThreadInv, HoldsThread, Untouched
<1>. QED  BY <1>5, <1>8, <1>9, <1>10 DEF PipelineInv, Outcomes

LEMMA DeliverKeeps ==
    ASSUME PipelineInv, NEW w \in Workers, NEW e \in Emails, Deliver(w, e)
    PROVE  PipelineInv'
<1>1. /\ Goto(w, IF e \in Malformed THEN "quarantine" ELSE "begin")
      /\ email' = [email EXCEPT ![w] = e]
      /\ UNCHANGED <<profileVars, lock, messageVars, threadVars, token, workVars, confirmed, manual>>
  BY DEF Deliver
<1>2. /\ pc' \in [Workers -> Step] /\ pc'[w] = IF e \in Malformed THEN "quarantine" ELSE "begin"
      /\ \A v \in Workers \ {w} : pc'[v] = pc[v]
  BY <1>1, GotoFacts DEF Step, PipelineInv
<1>3. TypeOK'
  <2>1. email' \in [Workers -> Emails \cup {NoEmail}]
    BY <1>1 DEF PipelineInv, TypeOK
  <2>. QED  BY <1>1, <1>2, <2>1, ControlType DEF PipelineInv, TypeOK, WorkType, workVars
<1>4. email'[w] = e /\ \A v \in Workers \ {w} : Untouched(v)
  BY <1>1, <1>2 DEF PipelineInv, TypeOK, Untouched, workVars
<1>5. WorkInv(w)'
  BY <1>2, <1>4 DEF WorkInv, HoldsThread, Completing
<1>. QED  BY <1>1, <1>2, <1>3, <1>4, <1>5, ControlStep

\* The transaction of Handle, and each short one, reads the assignment first.
LEMMA EnsureKeeps ==
    ASSUME PipelineInv, NEW w \in Workers, EnsureEmailProfileAssignment(w)
    PROVE  PipelineInv'
<1>1. /\ pc[w] \in DOMAIN Ensured /\ Goto(w, Ensured[pc[w]])
      /\ lock' = IF pc[w] = "begin" THEN w ELSE lock
      /\ UNCHANGED <<profileVars, messageVars, threadVars, token, email, workVars, confirmed, manual>>
  BY DEF EnsureEmailProfileAssignment
<1>2. /\ pc[w] \in {"begin", "store", "spend", "fail", "complete"}
      /\ Ensured[pc[w]] = IF pc[w] = "begin" THEN "locate" ELSE IF pc[w] = "store" THEN "storing"
                          ELSE IF pc[w] = "spend" THEN "spending"
                          ELSE IF pc[w] = "fail" THEN "failing" ELSE "completing"
  BY <1>1, SMT DEF Ensured
<1>3. Ensured[pc[w]] \in Step
  BY <1>2 DEF Step
<1>4. /\ pc' \in [Workers -> Step] /\ pc'[w] = Ensured[pc[w]]
      /\ \A v \in Workers \ {w} : pc'[v] = pc[v]
  BY <1>1, <1>3, GotoFacts DEF PipelineInv
<1>5. TypeOK'
  <2>1. lock' \in Workers \cup {NoWorker}
    BY <1>1 DEF PipelineInv, TypeOK
  <2>. QED  BY <1>1, <1>4, <2>1, ControlType DEF PipelineInv, TypeOK, WorkType, workVars
<1>6. \A v \in Workers \ {w} : Untouched(v)
  BY <1>1, <1>4 DEF Untouched, workVars
<1>7. UNCHANGED <<email, msg, threadOf, contact, unresolved, resolution>>
  BY <1>1 DEF messageVars, threadVars, workVars
<1>8. WorkInv(w)'
  <2>1. WorkInv(w)
    BY DEF PipelineInv
  <2>. QED  BY <1>2, <1>4, <1>7, <2>1 DEF WorkInv, HoldsThread, Completing, Looked, Settled, Step
<1>. QED
  <2>1. pc'[w] # "marking"
    BY <1>2, <1>4
  <2>. QED  BY <1>1, <1>5, <1>6, <1>8, <2>1, ControlStep

\* Handle returned an error: a failed call, a dead process, a stale assignment, an
\* attempt on a finished Message, or an upload that is still missing.
LEMMA ReturnKeeps ==
    ASSUME PipelineInv, NEW w \in Workers,
           Abandon(w) \/ StaleAssignment(w) \/ SpendOnFinished(w) \/ ReportIncomplete(w)
    PROVE  PipelineInv'
<1>1. Return(w) /\ UNCHANGED <<profileVars, messageVars, threadVars, manual>>
  BY DEF Abandon, StaleAssignment, SpendOnFinished, ReportIncomplete
<1>2. Finish(w) /\ UNCHANGED confirmed /\ token' \in [Workers -> 0 .. MaxGeneration]
  BY <1>1, PipelineAssumption, SMT DEF Return, PipelineInv, TypeOK
<1>3. TypeOK /\ Outcomes
  BY InvParts
<1>4. TypeOK'
  <2>1. WorkType'
    BY <1>2, <1>3, FinishFacts DEF WorkType
  <2>. QED  BY <1>1, <1>2, <1>3, <2>1, ControlType
<1>5. Outcomes' /\ Forward
  BY <1>1, <1>2, <1>3, SameRows
<1>6. UNCHANGED contact
  BY <1>1 DEF threadVars
<1>. QED  BY <1>2, <1>4, <1>5, <1>6, FinishStep

\* A worker with an email of its own.
LEMMA AtWork ==
    ASSUME PipelineInv, NEW w \in Workers, pc[w] # "idle"
    PROVE  \E e \in Emails, c \in Conversations :
              /\ e = email[w] /\ c = ConversationOf[e] /\ c = ConversationOf[email[w]]
              /\ pc[w] = "quarantine" <=> e \in Malformed
              /\ pc[w] \in Completing => msg[e] # "none"
              /\ pc[w] \in Completing /\ threadOf[e] = "regular" =>
                    Settled(c) \/ IF pc[w] \in Looked THEN resolution[w] # "none" ELSE unresolved[w]
              /\ HoldsThread(w, c) => Unresolved(contact[c])
<1>1. WorkInv(w)
  BY DEF PipelineInv
<1>. QED  BY <1>1, PipelineAssumption DEF WorkInv

\* A worker that goes on with a stored Message.
LEMMA ContinueKeeps ==
    ASSUME PipelineInv, NEW w \in Workers, Continue(w)
    PROVE  PipelineInv'
<1>1. pc[w] = "locate"
  BY DEF Continue
<1>2. PICK e \in Emails, c \in Conversations :
          e = email[w] /\ c = ConversationOf[e] /\ e \notin Malformed
  BY <1>1, AtWork
<1>3. /\ msg[e] = "processing" /\ Goto(w, "list") /\ lock' = NoWorker
      /\ unresolved' = [unresolved EXCEPT ![w] = NeedsContactResolution(threadOf[e], contact[c])]
      /\ UNCHANGED <<profileVars, messageVars, threadVars, token, email, todo, part, resolution, confirmed, manual>>
  BY <1>2 DEF Continue
<1>4. /\ pc' \in [Workers -> Step] /\ pc'[w] = "list" /\ \A v \in Workers \ {w} : pc'[v] = pc[v]
  BY <1>3, GotoFacts DEF PipelineInv, Step
<1>5. /\ unresolved' \in [Workers -> BOOLEAN]
      /\ unresolved'[w] = NeedsContactResolution(threadOf[e], contact[c])
      /\ \A v \in Workers \ {w} : unresolved'[v] = unresolved[v]
  BY <1>3 DEF PipelineInv, TypeOK, NeedsContactResolution
<1>6. TypeOK'
  BY <1>3, <1>4, <1>5, ControlType DEF PipelineInv, TypeOK, WorkType
<1>7. \A v \in Workers \ {w} : Untouched(v)
  BY <1>3, <1>4, <1>5 DEF Untouched
<1>8. WorkInv(w)'
  <2>1. /\ email'[w] = e /\ msg'[e] = "processing" /\ threadOf'[e] = threadOf[e] /\ contact'[c] = contact[c]
    BY <1>2, <1>3 DEF messageVars, threadVars
  <2>2. threadOf[e] = "regular" => contact[c] # "absent"
    BY <1>2 DEF PipelineInv, RowInv
  <2>3. threadOf[e] = "regular" => Settled(c)' \/ unresolved'[w]
    BY <1>5, <2>1, <2>2 DEF Settled, NeedsContactResolution, Unresolved
  <2>. QED  BY <1>2, <1>4, <2>1, <2>3 DEF WorkInv, HoldsThread, Completing, Looked, Step
<1>. QED  BY <1>3, <1>4, <1>6, <1>7, <1>8, ControlStep

LEMMA ListKeeps ==
    ASSUME PipelineInv, NEW w \in Workers,
           List(w) \/ \E p \in Parts, a \in {"stored", "rejected", "error"} : Upload(w, p, a)
    PROVE  PipelineInv'
<1>1. /\ pc[w] \in {"list", "upload"}
      /\ UNCHANGED <<profileVars, lock, messageVars, threadVars, token, email, unresolved, resolution, confirmed, manual>>
  BY DEF List, Upload
<1>2. PICK e \in Emails, c \in Conversations :
          /\ e = email[w] /\ c = ConversationOf[e] /\ e \notin Malformed /\ msg[e] # "none"
          /\ threadOf[e] = "regular" => Settled(c) \/ unresolved[w]
  BY <1>1, AtWork DEF Completing, Looked, Step
<1>3. PICK step \in {"upload", "store", "fail", "spend"} : Goto(w, step)
  BY DEF List, Upload
<1>4. pc' \in [Workers -> Step] /\ pc'[w] = step /\ \A v \in Workers \ {w} : pc'[v] = pc[v]
  BY <1>3, GotoFacts DEF PipelineInv, Step
<1>5. todo' \in [Workers -> SUBSET Parts] /\ part' \in [Workers -> SUBSET Parts]
  <2>1. ASSUME List(w) PROVE todo' \in [Workers -> SUBSET Parts] /\ part' = part
    BY <1>2, <2>1 DEF List, PipelineInv, TypeOK
  <2>2. ASSUME NEW p \in Parts, NEW a \in {"stored", "rejected", "error"}, Upload(w, p, a)
        PROVE  part' \in [Workers -> SUBSET Parts] /\ todo' = todo
    BY <2>2, ZenonT(40) DEF Upload, PipelineInv, TypeOK
  <2>. QED  BY <2>1, <2>2 DEF PipelineInv, TypeOK
<1>6. TypeOK'
  BY <1>1, <1>4, <1>5, ControlType DEF PipelineInv, TypeOK, WorkType
<1>7. \A v \in Workers \ {w} : Untouched(v)
  BY <1>1, <1>4 DEF Untouched
<1>8. WorkInv(w)'
  <2>1. email'[w] = e /\ UNCHANGED <<msg, threadOf, contact, unresolved>>
    BY <1>1, <1>2 DEF messageVars, threadVars
  <2>. QED  BY <1>2, <1>4, <2>1 DEF WorkInv, HoldsThread, Completing, Looked, Step, Settled
<1>. QED  BY <1>1, <1>4, <1>6, <1>7, <1>8, ControlStep

LEMMA ResolveContactKeeps ==
    ASSUME PipelineInv, NEW w \in Workers, NEW a \in Lookup \cup {"none"}, ResolveContact(w, a)
    PROVE  PipelineInv'
<1>1. /\ pc[w] = "upload" /\ Goto(w, "complete")
      /\ IF unresolved[w] THEN a \in Lookup ELSE a = "none"
      /\ resolution' = [resolution EXCEPT ![w] = a]
      /\ UNCHANGED <<profileVars, lock, messageVars, threadVars, token, email, todo, part, unresolved, confirmed, manual>>
  BY DEF ResolveContact
<1>2. PICK e \in Emails, c \in Conversations :
          /\ e = email[w] /\ c = ConversationOf[e] /\ e \notin Malformed /\ msg[e] # "none"
          /\ threadOf[e] = "regular" => Settled(c) \/ unresolved[w]
  BY <1>1, AtWork DEF Completing, Looked, Step
<1>3. pc' \in [Workers -> Step] /\ pc'[w] = "complete" /\ \A v \in Workers \ {w} : pc'[v] = pc[v]
  BY <1>1, GotoFacts DEF PipelineInv, Step
<1>4. /\ resolution' \in [Workers -> Lookup \cup {"none"}] /\ resolution'[w] = a
      /\ \A v \in Workers \ {w} : resolution'[v] = resolution[v]
  BY <1>1 DEF PipelineInv, TypeOK
<1>5. TypeOK'
  BY <1>1, <1>3, <1>4, ControlType DEF PipelineInv, TypeOK, WorkType
<1>6. \A v \in Workers \ {w} : Untouched(v)
  BY <1>1, <1>3, <1>4 DEF Untouched
<1>7. WorkInv(w)'
  <2>1. email'[w] = e /\ UNCHANGED <<msg, threadOf, contact>> /\ (unresolved[w] => a # "none")
    BY <1>1, <1>2 DEF messageVars, threadVars, Lookup
  <2>. QED  BY <1>2, <1>3, <1>4, <2>1 DEF WorkInv, HoldsThread, Completing, Looked, Step, Settled
<1>. QED  BY <1>1, <1>3, <1>5, <1>6, <1>7, ControlStep

LEMMA IncompleteKeeps ==
    ASSUME PipelineInv, NEW w \in Workers, Incomplete(w)
    PROVE  PipelineInv'
<1>1. /\ pc[w] = "marking" /\ Goto(w, "incomplete")
      /\ UNCHANGED <<profileVars, lock, messageVars, threadVars, token, email, workVars, confirmed, manual>>
  BY DEF Incomplete
<1>2. PICK e \in Emails, c \in Conversations :
          /\ e = email[w] /\ c = ConversationOf[e] /\ e \notin Malformed /\ msg[e] # "none"
          /\ threadOf[e] = "regular" => Settled(c) \/ resolution[w] # "none"
  BY <1>1, AtWork DEF Completing, Looked, Step
<1>3. pc' \in [Workers -> Step] /\ pc'[w] = "incomplete" /\ \A v \in Workers \ {w} : pc'[v] = pc[v]
  BY <1>1, GotoFacts DEF PipelineInv, Step
<1>4. TypeOK'
  BY <1>1, <1>3, ControlType DEF PipelineInv, TypeOK, WorkType, workVars
<1>5. \A v \in Workers \ {w} : Untouched(v)
  BY <1>1, <1>3 DEF Untouched, workVars
<1>6. WorkInv(w)'
  <2>1. email'[w] = e /\ UNCHANGED <<msg, threadOf, contact, resolution>>
    BY <1>1, <1>2 DEF messageVars, threadVars, workVars
  <2>. QED  BY <1>2, <1>3, <2>1 DEF WorkInv, HoldsThread, Completing, Looked, Step, Settled
<1>. QED  BY <1>1, <1>3, <1>4, <1>5, <1>6, ControlStep

\* The step that takes the row lock of a Thread whose contact is still open.
LEMMA BeginMarkReadyKeeps ==
    ASSUME PipelineInv, NEW w \in Workers, BeginMarkReady(w)
    PROVE  PipelineInv'
<1>1. pc[w] = "completing"
  BY DEF BeginMarkReady
<1>2. PICK e \in Emails, c \in Conversations :
          /\ e = email[w] /\ c = ConversationOf[e] /\ e \notin Malformed /\ msg[e] # "none"
          /\ threadOf[e] = "regular" => Settled(c) \/ resolution[w] # "none"
  BY <1>1, AtWork DEF Completing, Looked, Step
<1>3. /\ Goto(w, "marking") /\ (Applies(w) => ThreadFree(w, c))
      /\ resolution' = [resolution EXCEPT ![w] = IF Applies(w) THEN @ ELSE "none"]
      /\ UNCHANGED <<profileVars, lock, messageVars, threadVars, token, email, todo, part, unresolved, confirmed, manual>>
  BY <1>2 DEF BeginMarkReady
<1>4. Applies(w) <=> resolution[w] # "none" /\ Unresolved(contact[c])
  BY <1>2 DEF Applies
<1>5. pc' \in [Workers -> Step] /\ pc'[w] = "marking" /\ \A v \in Workers \ {w} : pc'[v] = pc[v]
  BY <1>3, GotoFacts DEF PipelineInv, Step
<1>6. /\ resolution' \in [Workers -> Lookup \cup {"none"}]
      /\ resolution'[w] = IF Applies(w) THEN resolution[w] ELSE "none"
      /\ \A v \in Workers \ {w} : resolution'[v] = resolution[v]
  BY <1>3 DEF PipelineInv, TypeOK
<1>7. TypeOK'
  BY <1>3, <1>5, <1>6, ControlType DEF PipelineInv, TypeOK, WorkType
<1>8. \A v \in Workers \ {w} : Untouched(v)
  BY <1>3, <1>5, <1>6 DEF Untouched
<1>9. email'[w] = e /\ UNCHANGED <<msg, threadOf, contact>>
  BY <1>2, <1>3 DEF messageVars, threadVars
<1>10. HoldsThread(w, c)' => Applies(w)
  BY <1>6 DEF HoldsThread
<1>11. WorkInv(w)'
  <2>1. threadOf[e] = "regular" => contact[c] # "absent"
    BY <1>2 DEF PipelineInv, RowInv
  <2>2. threadOf[e] = "regular" => Settled(c) \/ resolution'[w] # "none"
    BY <1>2, <1>4, <1>6, <2>1 DEF Settled, Unresolved
  <2>. QED  BY <1>2, <1>4, <1>5, <1>9, <1>10, <2>2 DEF WorkInv, Completing, Looked, Step, Settled
<1>12. TypeOK /\ Outcomes /\ ThreadInv /\ \A v \in Workers : WorkInv(v)
  BY InvParts
<1>13. Outcomes' /\ Forward
  BY <1>3, <1>12, SameRows
<1>14. ASSUME NEW v \in Workers \ {w} PROVE WorkInv(v)'
  <2>1. WorkInv(v) /\ Untouched(v) /\ \A d \in Conversations : HoldsThread(v, d) => contact'[d] = contact[d]
    BY <1>8, <1>9, <1>12
  <2>. QED  BY <1>12, <1>13, <2>1, KeptWork
<1>15. ThreadInv'
  <2>1. \A d \in Conversations : HoldsThread(w, d)' => d = c /\ Applies(w)
    BY <1>2, <1>6, <1>9, <1>10 DEF HoldsThread
  <2>2. \A d \in Conversations, v \in Workers \ {w} : HoldsThread(v, d)' => HoldsThread(v, d)
    BY <1>8 DEF HoldsThread, Untouched
  <2>3. Applies(w) => \A v \in Workers \ {w} : ~HoldsThread(v, c)
    BY <1>3 DEF ThreadFree
  <2>. SUFFICES ASSUME NEW d \in Conversations, NEW u \in Workers, NEW v \in Workers,
                       HoldsThread(u, d)', HoldsThread(v, d)'
                PROVE  u = v
    BY DEF ThreadInv
  <2>4. CASE u # w /\ v # w
    BY <1>12, <2>2, <2>4 DEF ThreadInv
  <2>5. CASE u = w /\ v # w
    BY <2>1, <2>2, <2>3, <2>5
  <2>6. CASE u # w /\ v = w
    BY <2>1, <2>2, <2>3, <2>6
  <2>. QED  BY <2>4, <2>5, <2>6
<1>. QED  BY <1>7, <1>11, <1>13, <1>14, <1>15 DEF PipelineInv, Outcomes

-----------------------------------------------------------------------------
(* The events and the times of a Thread.                                   *)

Shown(f, c, k) == msg[f] = "ready" /\ threadOf[f] = k /\ ConversationOf[f] = c

\* LastMessageExact, without the set of times.
LastExact(c, k) ==
    /\ last[c][k] = 0 \/ \E f \in Emails : Shown(f, c, k) /\ last[c][k] = ReceivedAt[f]
    /\ \A f \in Emails : Shown(f, c, k) => ReceivedAt[f] <= last[c][k]

LEMMA LastPointwise ==
    /\ LastMessageExact <=> \A c \in Conversations, k \in Kinds : LastExact(c, k)
    /\ LastMessageExact' <=> \A c \in Conversations, k \in Kinds : LastExact(c, k)'
<1>1. LastMessageExact <=> \A c \in Conversations, k \in Kinds : LastExact(c, k)
  BY SMT DEF LastMessageExact, LastExact, Shown
<1>2. LastMessageExact' <=> \A c \in Conversations, k \in Kinds : LastExact(c, k)'
  BY SMT DEF LastMessageExact, LastExact, Shown
<1>. QED  BY <1>1, <1>2

\* No Message becomes visible or stops being so.
LEMMA SameVisible ==
    ASSUME EventExactlyOnce, LastMessageExact, UNCHANGED <<outbox, last>>,
           \A f \in Emails : /\ msg'[f] = "ready" <=> msg[f] = "ready"
                             /\ msg[f] = "ready" => threadOf'[f] = threadOf[f]
    PROVE  EventExactlyOnce' /\ LastMessageExact'
<1>1. EventExactlyOnce'
  BY DEF EventExactlyOnce
<1>2. ASSUME NEW c \in Conversations, NEW k \in Kinds PROVE LastExact(c, k)'
  BY LastPointwise, SMT DEF LastExact, Shown
<1>. QED  BY <1>1, <1>2, LastPointwise

\* EventWriter.Write and AdvanceLastMessage keep both exact.
LEMMA VisibleKeeps ==
    ASSUME TypeOK, EventExactlyOnce, LastMessageExact, NEW w \in Workers, NEW e \in Emails,
           NEW k \in Kinds, Visible(w, e, k), msg[e] = "ready" => threadOf[e] = k,
           msg'[e] = "ready", threadOf'[e] = k,
           \A f \in Emails \ {e} : msg'[f] = msg[f] /\ threadOf'[f] = threadOf[f]
    PROVE  /\ EventExactlyOnce' /\ LastMessageExact'
           /\ outbox' \in [Emails -> Nat] /\ last' \in [Conversations -> [Kinds -> Nat]]
<1>1. PICK c \in Conversations : c = ConversationOf[e]
  BY PipelineAssumption
<1>2. /\ last' = [last EXCEPT ![c][k] = Advanced(@, ReceivedAt[e])]
      /\ outbox' = [outbox EXCEPT ![e] = IF Eligible(e, k) THEN AppendOnce(@) ELSE @]
  BY <1>1 DEF Visible
<1>3. ReceivedAt[e] \in Nat /\ last \in [Conversations -> [Kinds -> Nat]] /\ outbox \in [Emails -> Nat]
  BY PipelineAssumption DEF TypeOK
<1>4. /\ last' \in [Conversations -> [Kinds -> Nat]]
      /\ last'[c][k] = IF last[c][k] < ReceivedAt[e] THEN ReceivedAt[e] ELSE last[c][k]
      /\ \A d \in Conversations, h \in Kinds : d # c \/ h # k => last'[d][h] = last[d][h]
  BY <1>2, <1>3, SMT DEF Advanced
<1>5. /\ outbox' \in [Emails -> Nat]
      /\ outbox'[e] = IF Eligible(e, k) THEN AppendOnce(outbox[e]) ELSE outbox[e]
      /\ \A f \in Emails \ {e} : outbox'[f] = outbox[f]
  BY <1>2, <1>3 DEF AppendOnce
<1>6. EventExactlyOnce'
  BY <1>5 DEF EventExactlyOnce, Eligible, AppendOnce
<1>7. ASSUME NEW d \in Conversations, NEW h \in Kinds PROVE LastExact(d, h)'
  <2>1. LastExact(d, h)
    BY LastPointwise
  <2>2. CASE d = c /\ h = k
    <3>1. /\ Shown(e, c, k)'
          /\ \A f \in Emails : Shown(f, c, k) => Shown(f, c, k)'
          /\ \A f \in Emails \ {e} : Shown(f, c, k)' => Shown(f, c, k)
      BY <1>1 DEF Shown
    <3>2. \A f \in Emails : ReceivedAt[f] \in Nat
      BY PipelineAssumption
    <3>3. last[c][k] \in Nat
      BY <1>3
    <3>4. LastExact(c, k)
      BY <2>1, <2>2
    <3>5. last'[c][k] = 0 \/ \E f \in Emails : Shown(f, c, k)' /\ last'[c][k] = ReceivedAt[f]
      BY <1>4, <3>1, <3>4 DEF LastExact
    <3>6. \A f \in Emails : Shown(f, c, k)' => ReceivedAt[f] <= last'[c][k]
      BY <1>3, <1>4, <3>1, <3>2, <3>3, <3>4, SMT DEF LastExact
    <3>7. LastExact(c, k)'
      BY <3>5, <3>6 DEF LastExact
    <3>. QED  BY <2>2, <3>7
  <2>3. CASE ~(d = c /\ h = k)
    <3>1. \A f \in Emails : Shown(f, d, h)' <=> Shown(f, d, h)
      BY <1>1, <2>3 DEF Shown
    <3>2. last'[d][h] = last[d][h]
      BY <1>4, <2>3
    <3>. QED  BY <2>1, <3>1, <3>2 DEF LastExact
  <2>. QED  BY <2>2, <2>3
<1>8. LastMessageExact'
  BY <1>7, LastPointwise
<1>. QED  BY <1>4, <1>5, <1>6, <1>8

-----------------------------------------------------------------------------
(* The steps that write rows and end the handling of the email.            *)

\* Types of the rows and of the history.
RowType ==
    /\ msg \in [Emails -> {"none", "processing", "ready", "failed"}]
    /\ threadOf \in [Emails -> Kinds \cup {"none"}]
    /\ pending \in [Emails -> SUBSET Parts] /\ attempts \in [Emails -> 0 .. MaxAttempts]
    /\ failures \in SUBSET Emails /\ outbox \in [Emails -> Nat]
    /\ contact \in [Conversations -> Contact] /\ last \in [Conversations -> [Kinds -> Nat]]
    /\ confirmed \in SUBSET Emails /\ manual \in [Conversations -> Decision \cup {"none"}]

LEMMA TypeParts ==
    /\ TypeOK => RowType /\ WorkType
    /\ TypeOK /\ UNCHANGED profileVars /\ RowType' /\ WorkType' => TypeOK'
<1>1. TypeOK => RowType /\ WorkType
  BY DEF TypeOK, RowType, WorkType
<1>2. TypeOK /\ UNCHANGED profileVars /\ RowType' /\ WorkType' => TypeOK'
  BY SMT DEF TypeOK, RowType, WorkType, profileVars
<1>. QED  BY <1>1, <1>2

LEMMA ConfirmFacts ==
    ASSUME TypeOK, NEW w \in Workers, NEW e \in Emails, e = email[w], Confirm(w)
    PROVE  /\ Finish(w) /\ WorkType' /\ confirmed' \in SUBSET Emails
           /\ confirmed' = confirmed \cup {e}
<1>1. Finish(w) /\ UNCHANGED token /\ confirmed' = confirmed \cup {e}
  BY DEF Confirm
<1>2. confirmed' \in SUBSET Emails /\ token' \in [Workers -> 0 .. MaxGeneration]
  BY <1>1 DEF TypeOK
<1>. QED  BY <1>1, <1>2, FinishFacts DEF WorkType

LEMMA ReturnFacts ==
    ASSUME TypeOK, NEW w \in Workers, Return(w)
    PROVE  Finish(w) /\ WorkType' /\ UNCHANGED confirmed
<1>1. Finish(w) /\ UNCHANGED confirmed /\ token' = [token EXCEPT ![w] = 0]
  BY DEF Return
<1>2. token' \in [Workers -> 0 .. MaxGeneration]
  BY <1>1, PipelineAssumption, SMT DEF TypeOK
<1>. QED  BY <1>1, <1>2, FinishFacts DEF WorkType

\* A record of an email that cannot be parsed, and a Message found finished.
LEMMA QuarantineKeeps ==
    ASSUME PipelineInv, NEW w \in Workers, Quarantine(w) \/ Duplicate(w)
    PROVE  PipelineInv'
<1>1. pc[w] \in {"quarantine", "locate"} /\ TypeOK /\ Outcomes /\ Confirm(w)
  BY InvParts DEF Quarantine, Duplicate
<1>2. PICK e \in Emails : e = email[w] /\ (pc[w] = "quarantine" <=> e \in Malformed)
  BY <1>1, AtWork
<1>3. Finish(w) /\ WorkType' /\ confirmed' \in SUBSET Emails /\ confirmed' = confirmed \cup {e}
  BY <1>1, <1>2, ConfirmFacts
<1>4. /\ UNCHANGED <<profileVars, msg, threadOf, pending, attempts, outbox, contact, last, manual>>
      /\ failures \subseteq failures' /\ failures' \in SUBSET Emails
      /\ \A f \in failures' : f \in failures \/ (f = e /\ e \in Malformed)
      /\ (msg[e] = "none" /\ e \in failures') \/ msg[e] \in {"ready", "failed"}
  <2>1. ASSUME Quarantine(w) PROVE <1>4!2 /\ <1>4!3 /\ <1>4!4
    <3>1. failures' = failures \cup {e} /\ e \in Malformed
      BY <1>2, <2>1 DEF Quarantine
    <3>2. msg[e] = "none"
      BY <3>1 DEF PipelineInv, RowInv
    <3>. QED  BY <1>1, <3>1, <3>2 DEF TypeOK
  <2>2. ASSUME Duplicate(w) PROVE <1>4!2 /\ <1>4!3 /\ <1>4!4
    BY <1>1, <1>2, <2>2 DEF Duplicate, TypeOK, messageVars
  <2>3. UNCHANGED <<profileVars, msg, threadOf, pending, attempts, outbox, contact, last, manual>>
    BY DEF Quarantine, Duplicate, messageVars, threadVars
  <2>. QED  BY <2>1, <2>2, <2>3
<1>5. TypeOK'
  <2>1. RowType'
    BY <1>1, <1>3, <1>4, TypeParts DEF RowType
  <2>. QED  BY <1>1, <1>3, <1>4, <2>1, TypeParts
<1>6. Forward /\ UNCHANGED contact
  BY <1>4 DEF Forward, Settled
<1>7. Outcomes'
  <2>1. RowInv'
    BY <1>1, <1>4 DEF Outcomes, RowInv
  <2>2. ConfirmedDurable'
    BY <1>1, <1>3, <1>4 DEF Outcomes, ConfirmedDurable, RowInv
  <2>3. ReadyComplete' /\ OperatorWins' /\ AttemptBudget'
    BY <1>1, <1>4 DEF Outcomes, ReadyComplete, OperatorWins, AttemptBudget
  <2>4. EventExactlyOnce' /\ LastMessageExact'
    BY <1>1, <1>4, SameVisible DEF Outcomes
  <2>. QED  BY <2>1, <2>2, <2>3, <2>4 DEF Outcomes
<1>. QED  BY <1>3, <1>5, <1>6, <1>7, FinishStep

\* quarantine of completion.go, with the attempts the transaction has counted.
LEMMA FailedRows ==
    ASSUME TypeOK, Outcomes, NEW e \in Emails, msg[e] # "none", QuarantineMessage(e),
           attempts' \in [Emails -> 0 .. MaxAttempts],
           msg[e] = "processing" \/ attempts'[e] = attempts[e],
           \A f \in Emails \ {e} : attempts'[f] = attempts[f],
           confirmed' = confirmed \cup {e},
           UNCHANGED <<threadOf, pending, outbox, threadVars, manual>>
    PROVE  RowType' /\ Outcomes' /\ Forward /\ UNCHANGED contact
<1>1. /\ msg' \in [Emails -> {"none", "processing", "ready", "failed"}] /\ failures' \in SUBSET Emails
      /\ \A f \in Emails \ {e} : msg'[f] = msg[f]
      /\ msg'[e] = IF msg[e] = "processing" THEN "failed" ELSE msg[e]
      /\ failures' = IF msg[e] = "processing" THEN failures \cup {e} ELSE failures
  BY SMT DEF QuarantineMessage, TypeOK
<1>2. UNCHANGED <<threadOf, pending, outbox, contact, last, manual>>
  BY DEF threadVars
<1>3. RowType'
  BY <1>1, <1>2, TypeParts DEF RowType
<1>4. Forward
  BY <1>1, <1>2 DEF Forward, Settled
<1>5. msg[e] \in {"processing", "ready", "failed"}
  BY DEF TypeOK
<1>6. RowInv'
  BY <1>1, <1>2, <1>5, ZenonT(40) DEF Outcomes, RowInv
<1>7. ConfirmedDurable'
  <2>1. ASSUME NEW f \in confirmed', f # e
        PROVE  msg'[f] = "ready" \/ (msg'[f] \in {"none", "failed"} /\ f \in failures')
    BY <1>1, <2>1 DEF Outcomes, ConfirmedDurable, TypeOK
  <2>2. msg'[e] = "ready" \/ (msg'[e] \in {"none", "failed"} /\ e \in failures')
    BY <1>1, <1>5 DEF Outcomes, RowInv
  <2>. QED  BY <2>1, <2>2 DEF ConfirmedDurable
<1>8. ReadyComplete' /\ OperatorWins'
  BY <1>1, <1>2 DEF Outcomes, ReadyComplete, OperatorWins
<1>9. AttemptBudget'
  BY <1>1 DEF Outcomes, AttemptBudget
<1>10. EventExactlyOnce' /\ LastMessageExact'
  <2>1. \A f \in Emails : (msg'[f] = "ready" <=> msg[f] = "ready") /\ threadOf'[f] = threadOf[f]
    BY <1>1, <1>2
  <2>. QED  BY <1>2, <2>1, SameVisible DEF Outcomes
<1>. QED  BY <1>2, <1>3, <1>4, <1>6, <1>7, <1>8, <1>9, <1>10 DEF Outcomes

LEMMA FailKeeps ==
    ASSUME PipelineInv, NEW w \in Workers, Fail(w)
    PROVE  PipelineInv'
<1>1. pc[w] = "failing" /\ TypeOK /\ Outcomes /\ Confirm(w)
  BY InvParts DEF Fail
<1>2. PICK e \in Emails : e = email[w] /\ msg[e] # "none"
  BY <1>1, AtWork DEF Completing, Step
<1>3. /\ QuarantineMessage(e)
      /\ UNCHANGED <<profileVars, threadOf, pending, attempts, outbox, threadVars, manual>>
  BY <1>2 DEF Fail
<1>4. Finish(w) /\ WorkType' /\ confirmed' = confirmed \cup {e}
  BY <1>1, <1>2, ConfirmFacts
<1>5. attempts' \in [Emails -> 0 .. MaxAttempts] /\ \A f \in Emails : attempts'[f] = attempts[f]
  BY <1>1, <1>3 DEF TypeOK
<1>6. RowType' /\ Outcomes' /\ Forward /\ UNCHANGED contact
  BY <1>1, <1>2, <1>3, <1>4, <1>5, FailedRows
<1>7. TypeOK'
  BY <1>1, <1>3, <1>4, <1>6, TypeParts
<1>. QED  BY <1>4, <1>6, <1>7, FinishStep

\* The attempt and what it leads to.
LEMMA SpendAttemptKeeps ==
    ASSUME PipelineInv, NEW w \in Workers, SpendAttempt(w)
    PROVE  PipelineInv'
<1>1. pc[w] = "spending" /\ TypeOK /\ Outcomes
  BY InvParts DEF SpendAttempt
<1>2. PICK e \in Emails : e = email[w]
  BY <1>1, AtWork
<1>3. /\ msg[e] = "processing" /\ attempts' = [attempts EXCEPT ![e] = @ + 1]
      /\ UNCHANGED <<profileVars, threadOf, pending, outbox, threadVars, manual>>
      /\ \/ Exhausted(attempts[e] + 1) /\ QuarantineMessage(e) /\ Confirm(w)
         \/ ~Exhausted(attempts[e] + 1) /\ Return(w) /\ UNCHANGED <<msg, failures>>
  BY <1>2 DEF SpendAttempt
<1>4. attempts[e] \in 0 .. MaxAttempts /\ ~(attempts[e] >= MaxAttempts) /\ MaxAttempts \in Nat
  BY <1>1, <1>3, PipelineAssumption DEF Outcomes, AttemptBudget, TypeOK
<1>5. /\ attempts' \in [Emails -> 0 .. MaxAttempts] /\ attempts'[e] = attempts[e] + 1
      /\ \A f \in Emails \ {e} : attempts'[f] = attempts[f]
  BY <1>1, <1>3, <1>4, SMT DEF TypeOK
<1>6. CASE QuarantineMessage(e) /\ Confirm(w)
  <2>1. Finish(w) /\ WorkType' /\ confirmed' = confirmed \cup {e}
    BY <1>1, <1>2, <1>6, ConfirmFacts
  <2>2. RowType' /\ Outcomes' /\ Forward /\ UNCHANGED contact
    BY <1>1, <1>3, <1>5, <1>6, <2>1, FailedRows
  <2>3. TypeOK'
    BY <1>1, <1>3, <2>1, <2>2, TypeParts
  <2>. QED  BY <2>1, <2>2, <2>3, FinishStep
<1>7. CASE ~Exhausted(attempts[e] + 1) /\ Return(w) /\ UNCHANGED <<msg, failures>>
  <2>1. Finish(w) /\ WorkType' /\ UNCHANGED confirmed
    BY <1>1, <1>7, ReturnFacts
  <2>2. UNCHANGED <<msg, threadOf, pending, failures, outbox, contact, last, confirmed, manual>>
    BY <1>3, <1>7, <2>1 DEF threadVars
  <2>3. RowType' /\ Forward
    BY <1>1, <1>5, <2>2, TypeParts DEF RowType, Forward, Settled
  <2>4. TypeOK'
    BY <1>1, <1>3, <2>1, <2>3, TypeParts
  <2>5. AttemptBudget'
    BY <1>1, <1>4, <1>5, <1>7, <2>2 DEF Outcomes, AttemptBudget, Exhausted
  <2>6. RowInv' /\ ConfirmedDurable' /\ ReadyComplete' /\ OperatorWins'
    BY <1>1, <2>2 DEF Outcomes, RowInv, ConfirmedDurable, ReadyComplete, OperatorWins
  <2>7. EventExactlyOnce' /\ LastMessageExact'
    BY <1>1, <2>2, SameVisible DEF Outcomes
  <2>8. Outcomes'
    BY <2>5, <2>6, <2>7 DEF Outcomes
  <2>. QED  BY <2>1, <2>2, <2>3, <2>4, <2>8, FinishStep
<1>. QED  BY <1>3, <1>6, <1>7

-----------------------------------------------------------------------------
(* The steps that change what a Message owes or the contact of a Thread.   *)

LEMMA MarkStoredKeeps ==
    ASSUME PipelineInv, NEW w \in Workers, MarkStored(w)
    PROVE  PipelineInv'
<1>1. pc[w] = "storing" /\ TypeOK /\ Outcomes
  BY InvParts DEF MarkStored
<1>2. PICK e \in Emails, c \in Conversations :
          /\ e = email[w] /\ c = ConversationOf[e] /\ e \notin Malformed /\ msg[e] # "none"
          /\ threadOf[e] = "regular" => Settled(c) \/ unresolved[w]
  BY <1>1, AtWork DEF Completing, Looked, Step
<1>3. /\ pending' = [pending EXCEPT ![e] = @ \ part[w]] /\ Goto(w, "upload")
      /\ todo' = [todo EXCEPT ![w] = @ \ part[w]] /\ part' = [part EXCEPT ![w] = {}]
      /\ UNCHANGED <<profileVars, lock, msg, threadOf, attempts, failures, outbox, contact, last>>
      /\ UNCHANGED <<token, email, unresolved, resolution, confirmed, manual>>
  BY <1>2 DEF MarkStored, threadVars
<1>4. pc' \in [Workers -> Step] /\ pc'[w] = "upload" /\ \A v \in Workers \ {w} : pc'[v] = pc[v]
  BY <1>1, <1>3, GotoFacts DEF Step
<1>5. pending' \in [Emails -> SUBSET Parts] /\ \A f \in Emails : pending'[f] \subseteq pending[f]
  BY <1>1, <1>3 DEF TypeOK
<1>6. todo' \in [Workers -> SUBSET Parts] /\ part' \in [Workers -> SUBSET Parts]
  BY <1>1, <1>3 DEF TypeOK
<1>7. TypeOK'
  <2>1. RowType'
    BY <1>1, <1>3, <1>5, TypeParts DEF RowType
  <2>2. WorkType'
    BY <1>1, <1>3, <1>4, <1>6, TypeParts DEF WorkType
  <2>. QED  BY <1>1, <1>3, <2>1, <2>2, TypeParts
<1>8. Forward /\ \A v \in Workers \ {w} : Untouched(v)
  BY <1>3, <1>4 DEF Forward, Settled, Untouched
<1>9. Outcomes'
  <2>1. ReadyComplete'
    BY <1>1, <1>3, <1>5 DEF Outcomes, ReadyComplete
  <2>2. RowInv' /\ ConfirmedDurable' /\ OperatorWins' /\ AttemptBudget'
    BY <1>1, <1>3 DEF Outcomes, RowInv, ConfirmedDurable, OperatorWins, AttemptBudget
  <2>3. EventExactlyOnce' /\ LastMessageExact'
    BY <1>1, <1>3, SameVisible DEF Outcomes
  <2>. QED  BY <2>1, <2>2, <2>3 DEF Outcomes
<1>10. WorkInv(w)'
  BY <1>2, <1>3, <1>4 DEF WorkInv, HoldsThread, Completing, Looked, Step, Settled
<1>. QED  BY <1>3, <1>4, <1>7, <1>8, <1>9, <1>10, WorkStep

\* A contact written by the pipeline: a new Thread, or an answer to an open question.
LEMMA ContactWritten ==
    ASSUME TypeOK, OperatorWins, NEW c \in Conversations, NEW r,
           contact' = [contact EXCEPT ![c] = r], UNCHANGED manual,
           \/ r = contact[c]
           \/ Unresolved(contact[c]) /\ r \in Lookup
           \/ contact[c] = "absent" /\ r = "pending"
    PROVE  /\ contact' \in [Conversations -> Contact] /\ contact'[c] = r
           /\ \A d \in Conversations \ {c} : contact'[d] = contact[d]
           /\ \A d \in Conversations : contact[d] # "absent" => contact'[d] # "absent"
           /\ \A d \in Conversations : Settled(d) => Settled(d)'
           /\ OperatorWins'
<1>1. /\ contact'[c] = r /\ \A d \in Conversations \ {c} : contact'[d] = contact[d]
  BY DEF TypeOK
<1>2. contact' \in [Conversations -> Contact]
  BY DEF TypeOK, Contact
<1>3. \A d \in Conversations : contact[d] # "absent" => contact'[d] # "absent"
  BY <1>1 DEF Lookup
<1>4. \A d \in Conversations : Settled(d) => Settled(d)'
  BY <1>1 DEF Settled, Lookup, Unresolved
<1>5. manual[c] # "none" => r = contact[c]
  BY DEF OperatorWins, TypeOK, Decision, Unresolved
<1>6. OperatorWins'
  BY <1>1, <1>5 DEF OperatorWins
<1>. QED  BY <1>1, <1>2, <1>3, <1>4, <1>6

\* The commit that makes e ready in the Thread k, whatever transaction does it.
LEMMA ReadyRows ==
    ASSUME TypeOK, Outcomes, NEW w \in Workers, NEW e \in Emails, NEW k \in Kinds,
           NEW c \in Conversations, c = ConversationOf[e], e \notin Malformed,
           msg[e] # "failed", msg[e] # "none" => threadOf[e] = k,
           Visible(w, e, k), confirmed' = confirmed \cup {e},
           msg' = [msg EXCEPT ![e] = "ready"], threadOf' = [threadOf EXCEPT ![e] = k],
           pending' \in [Emails -> SUBSET Parts], pending'[e] = {},
           \A f \in Emails \ {e} : pending'[f] = pending[f],
           UNCHANGED <<attempts, failures, manual>>,
           contact' \in [Conversations -> Contact], OperatorWins',
           k = "regular" => Settled(c)',
           \A d \in Conversations : contact[d] # "absent" => contact'[d] # "absent",
           \A d \in Conversations : Settled(d) => Settled(d)'
    PROVE  RowType' /\ Outcomes' /\ Forward
<1>1. /\ msg' \in [Emails -> {"none", "processing", "ready", "failed"}] /\ msg'[e] = "ready"
      /\ \A f \in Emails \ {e} : msg'[f] = msg[f]
  BY DEF TypeOK
<1>2. /\ threadOf' \in [Emails -> Kinds \cup {"none"}] /\ threadOf'[e] = k
      /\ \A f \in Emails \ {e} : threadOf'[f] = threadOf[f]
  BY DEF TypeOK
<1>3. /\ EventExactlyOnce' /\ LastMessageExact'
      /\ outbox' \in [Emails -> Nat] /\ last' \in [Conversations -> [Kinds -> Nat]]
  BY <1>1, <1>2, VisibleKeeps DEF Outcomes
<1>4. RowType'
  <2>1. attempts' \in [Emails -> 0 .. MaxAttempts] /\ failures' \in SUBSET Emails
        /\ confirmed' \in SUBSET Emails /\ manual' \in [Conversations -> Decision \cup {"none"}]
    BY DEF TypeOK
  <2>. QED  BY <1>1, <1>2, <1>3, <2>1 DEF RowType
<1>5. Forward
  BY <1>1, <1>2 DEF Forward
<1>6. RowInv'
  <2>1. ASSUME NEW f \in Emails \ {e}
        PROVE  /\ msg'[f] = "none" <=> threadOf'[f] = "none"
               /\ msg'[f] # "none" => f \notin Malformed
               /\ msg'[f] = "failed" => f \in failures
               /\ f \in failures => msg'[f] # "none" \/ f \in Malformed
               /\ threadOf'[f] = "regular" => contact'[ConversationOf[f]] # "absent"
    BY <1>1, <1>2, PipelineAssumption, SMT DEF Outcomes, RowInv
  <2>2. /\ msg'[e] = "ready" /\ threadOf'[e] # "none"
        /\ threadOf'[e] = "regular" => contact'[ConversationOf[e]] # "absent"
    BY <1>1, <1>2 DEF Kinds, Settled
  <2>. QED  BY <2>1, <2>2 DEF RowInv
<1>7. ConfirmedDurable'
  BY <1>1 DEF Outcomes, ConfirmedDurable, TypeOK
<1>8. ReadyComplete'
  <2>1. ASSUME NEW f \in Emails \ {e}, msg'[f] = "ready"
        PROVE  pending'[f] = {} /\ (threadOf'[f] = "regular" => Settled(ConversationOf[f])')
    BY <1>1, <1>2, <2>1, PipelineAssumption DEF Outcomes, ReadyComplete, Settled
  <2>2. pending'[e] = {} /\ (threadOf'[e] = "regular" => Settled(ConversationOf[e])')
    BY <1>2
  <2>. QED  BY <2>1, <2>2 DEF ReadyComplete, Settled
<1>9. AttemptBudget'
  <2>1. ~(attempts[e] >= MaxAttempts)
    BY DEF Outcomes, AttemptBudget
  <2>. QED  BY <1>1, <2>1 DEF Outcomes, AttemptBudget
<1>. QED  BY <1>3, <1>4, <1>5, <1>6, <1>7, <1>8, <1>9 DEF Outcomes

LEMMA CommitReadyKeeps ==
    ASSUME PipelineInv, NEW w \in Workers, CommitReady(w)
    PROVE  PipelineInv'
<1>1. pc[w] = "marking" /\ TypeOK /\ Outcomes /\ ThreadInv /\ Confirm(w)
  BY InvParts DEF CommitReady
<1>2. PICK e \in Emails, c \in Conversations :
          /\ e = email[w] /\ c = ConversationOf[e] /\ e \notin Malformed
          /\ threadOf[e] = "regular" => Settled(c) \/ resolution[w] # "none"
          /\ HoldsThread(w, c) => Unresolved(contact[c])
  BY <1>1, AtWork DEF Completing, Looked, Step
<1>3. /\ msg[e] = "processing" /\ pending[e] = {}
      /\ contact' = [contact EXCEPT ![c] = IF resolution[w] = "none" THEN contact[c] ELSE resolution[w]]
      /\ msg' = [msg EXCEPT ![e] = "ready"] /\ Visible(w, e, threadOf[e])
      /\ UNCHANGED <<profileVars, threadOf, pending, attempts, failures, manual>>
  BY <1>2 DEF CommitReady, Completes
<1>4. PICK k \in Kinds : k = threadOf[e]
  BY <1>1, <1>3 DEF Outcomes, RowInv, TypeOK
<1>5. resolution[w] # "none" => HoldsThread(w, c) /\ resolution[w] \in Lookup
  BY <1>1, <1>2 DEF HoldsThread, TypeOK
<1>6. /\ contact' \in [Conversations -> Contact]
      /\ contact'[c] = IF resolution[w] = "none" THEN contact[c] ELSE resolution[w]
      /\ \A d \in Conversations \ {c} : contact'[d] = contact[d]
      /\ \A d \in Conversations : contact[d] # "absent" => contact'[d] # "absent"
      /\ \A d \in Conversations : Settled(d) => Settled(d)'
      /\ OperatorWins'
  <2>. DEFINE r == IF resolution[w] = "none" THEN contact[c] ELSE resolution[w]
  <2>1. r = contact[c] \/ (Unresolved(contact[c]) /\ r \in Lookup)
    BY <1>2, <1>5
  <2>2. contact' = [contact EXCEPT ![c] = r] /\ OperatorWins /\ UNCHANGED manual
    BY <1>1, <1>3 DEF Outcomes
  <2>. HIDE DEF r
  <2>3. /\ contact' \in [Conversations -> Contact] /\ contact'[c] = r
        /\ \A d \in Conversations \ {c} : contact'[d] = contact[d]
        /\ \A d \in Conversations : contact[d] # "absent" => contact'[d] # "absent"
        /\ \A d \in Conversations : Settled(d) => Settled(d)'
        /\ OperatorWins'
    BY <1>1, <2>1, <2>2, ContactWritten
  <2>. QED  BY <2>3 DEF r
<1>7. k = "regular" => Settled(c)'
  BY <1>2, <1>4, <1>5, <1>6 DEF Settled, Lookup
<1>8. Finish(w) /\ WorkType' /\ confirmed' = confirmed \cup {e}
  BY <1>1, <1>2, ConfirmFacts
<1>9. RowType' /\ Outcomes' /\ Forward
  <2>1. threadOf' = [threadOf EXCEPT ![e] = k] /\ pending' \in [Emails -> SUBSET Parts]
    BY <1>1, <1>3, <1>4 DEF TypeOK
  <2>2. pending'[e] = {} /\ \A f \in Emails \ {e} : pending'[f] = pending[f]
    BY <1>3
  <2>. QED  BY <1>1, <1>2, <1>3, <1>4, <1>6, <1>7, <1>8, <2>1, <2>2, ReadyRows
<1>10. TypeOK'
  BY <1>1, <1>3, <1>8, <1>9, TypeParts
<1>11. \A d \in Conversations : contact'[d] = contact[d] \/ \A v \in Workers \ {w} : ~HoldsThread(v, d)
  <2>1. resolution[w] # "none" => \A v \in Workers \ {w} : ~HoldsThread(v, c)
    BY <1>1, <1>5 DEF ThreadInv
  <2>. QED  BY <1>6, <2>1
<1>. QED  BY <1>8, <1>9, <1>10, <1>11, FinishStep

\* A delivery that finds the Message finished stores its answer all the same.
LEMMA AlreadyFinishedKeeps ==
    ASSUME PipelineInv, NEW w \in Workers, AlreadyFinished(w)
    PROVE  PipelineInv'
<1>1. pc[w] = "completing" /\ TypeOK /\ Outcomes /\ Confirm(w)
  BY InvParts DEF AlreadyFinished
<1>2. PICK e \in Emails, c \in Conversations :
          e = email[w] /\ c = ConversationOf[e] /\ e \notin Malformed
  BY <1>1, AtWork
<1>3. /\ Applies(w) => ThreadFree(w, c)
      /\ contact' = [contact EXCEPT ![c] = IF Applies(w) THEN resolution[w] ELSE contact[c]]
      /\ \/ msg[e] = "ready" /\ Visible(w, e, threadOf[e])
         \/ msg[e] = "failed" /\ UNCHANGED <<last, outbox>>
      /\ UNCHANGED <<profileVars, msg, threadOf, pending, attempts, failures, manual>>
  BY <1>2 DEF AlreadyFinished
<1>4. Applies(w) => Unresolved(contact[c]) /\ resolution[w] \in Lookup
  BY <1>1, <1>2 DEF Applies, TypeOK
<1>5. /\ contact' \in [Conversations -> Contact]
      /\ \A d \in Conversations \ {c} : contact'[d] = contact[d]
      /\ ~Applies(w) => contact'[c] = contact[c]
      /\ \A d \in Conversations : contact[d] # "absent" => contact'[d] # "absent"
      /\ \A d \in Conversations : Settled(d) => Settled(d)'
      /\ OperatorWins'
  <2>. DEFINE r == IF Applies(w) THEN resolution[w] ELSE contact[c]
  <2>1. r = contact[c] \/ (Unresolved(contact[c]) /\ r \in Lookup)
    BY <1>4
  <2>2. contact' = [contact EXCEPT ![c] = r] /\ OperatorWins /\ UNCHANGED manual
    BY <1>1, <1>3 DEF Outcomes
  <2>3. ~Applies(w) => r = contact[c]
    OBVIOUS
  <2>. HIDE DEF r
  <2>. QED  BY <1>1, <2>1, <2>2, <2>3, ContactWritten
<1>6. Finish(w) /\ WorkType' /\ confirmed' \in SUBSET Emails /\ confirmed' = confirmed \cup {e}
  BY <1>1, <1>2, ConfirmFacts
<1>7. RowType' /\ Outcomes' /\ Forward
  <2>1. CASE msg[e] = "ready" /\ Visible(w, e, threadOf[e])
    <3>1. PICK k \in Kinds : k = threadOf[e]
      BY <1>1, <2>1 DEF Outcomes, RowInv, TypeOK
    <3>2. msg' = [msg EXCEPT ![e] = "ready"] /\ threadOf' = [threadOf EXCEPT ![e] = k]
      BY <1>1, <1>3, <2>1, <3>1 DEF TypeOK
    <3>3. /\ pending' \in [Emails -> SUBSET Parts] /\ pending'[e] = {}
          /\ \A f \in Emails \ {e} : pending'[f] = pending[f]
      BY <1>1, <1>3, <2>1 DEF TypeOK, Outcomes, ReadyComplete
    <3>4. k = "regular" => Settled(c)'
      BY <1>1, <1>2, <1>5, <2>1, <3>1 DEF Outcomes, ReadyComplete, Settled
    <3>. QED  BY <1>1, <1>2, <1>3, <1>5, <1>6, <2>1, <3>1, <3>2, <3>3, <3>4, ReadyRows
  <2>2. CASE msg[e] = "failed" /\ UNCHANGED <<last, outbox>>
    <3>1. UNCHANGED <<msg, threadOf, pending, attempts, failures, last, outbox, manual>>
      BY <1>3, <2>2
    <3>2. RowType'
      BY <1>1, <1>5, <1>6, <3>1, TypeParts DEF RowType
    <3>3. Forward
      BY <1>5, <3>1 DEF Forward
    <3>4. RowInv' /\ ReadyComplete'
      BY <1>1, <1>5, <3>1, PipelineAssumption DEF Outcomes, RowInv, ReadyComplete, Settled
    <3>5. ConfirmedDurable'
      BY <1>1, <1>6, <2>2, <3>1 DEF Outcomes, RowInv, ConfirmedDurable
    <3>6. AttemptBudget'
      BY <1>1, <3>1 DEF Outcomes, AttemptBudget
    <3>7. EventExactlyOnce' /\ LastMessageExact'
      BY <1>1, <3>1, SameVisible DEF Outcomes
    <3>. QED  BY <1>5, <3>2, <3>3, <3>4, <3>5, <3>6, <3>7 DEF Outcomes
  <2>. QED  BY <1>3, <2>1, <2>2
<1>8. TypeOK'
  BY <1>1, <1>3, <1>6, <1>7, TypeParts
<1>9. \A d \in Conversations : contact'[d] = contact[d] \/ \A v \in Workers \ {w} : ~HoldsThread(v, d)
  BY <1>3, <1>5 DEF ThreadFree
<1>. QED  BY <1>6, <1>7, <1>8, <1>9, FinishStep

\* The transaction of Handle: Thread, Message and manifest.
LEMMA PersistKeeps ==
    ASSUME PipelineInv, NEW w \in Workers, NEW k \in Kinds, Persist(w, k)
    PROVE  PipelineInv'
<1>1. pc[w] = "locate" /\ TypeOK /\ Outcomes /\ \A v \in Workers : WorkInv(v)
  BY InvParts DEF Persist
<1>2. PICK e \in Emails, c \in Conversations :
          e = email[w] /\ c = ConversationOf[e] /\ e \notin Malformed
  BY <1>1, AtWork
<1>. DEFINE state == IF k = "regular" /\ contact[c] = "absent" THEN "pending" ELSE contact[c]
            unfinished == PartsOf[e] # {} \/ NeedsContactResolution(k, state)
<1>3. /\ msg[e] = "none" /\ threadOf' = [threadOf EXCEPT ![e] = k]
      /\ contact' = [contact EXCEPT ![c] = state] /\ pending' = [pending EXCEPT ![e] = PartsOf[e]]
      /\ msg' = [msg EXCEPT ![e] = IF unfinished THEN "processing" ELSE "ready"]
      /\ UNCHANGED <<profileVars, attempts, failures, manual>>
  BY <1>2 DEF Persist
<1>4. \/ /\ unfinished /\ Goto(w, "list") /\ lock' = NoWorker
         /\ unresolved' = [unresolved EXCEPT ![w] = NeedsContactResolution(k, state)]
         /\ UNCHANGED <<outbox, last, email, todo, part, resolution, confirmed, token>>
      \/ ~unfinished /\ Visible(w, e, k) /\ Confirm(w)
  BY <1>2 DEF Persist
<1>5. /\ state = contact[c] \/ (contact[c] = "absent" /\ state = "pending")
      /\ k = "regular" => state # "absent"
      /\ k = "regular" /\ ~NeedsContactResolution(k, state) => state \notin {"absent", "pending"}
      /\ NeedsContactResolution(k, state) \in BOOLEAN
  BY DEF NeedsContactResolution, Unresolved
<1>6. PartsOf[e] \in SUBSET Parts
  BY PipelineAssumption
<1>. HIDE DEF state
<1>7. /\ contact' \in [Conversations -> Contact] /\ contact'[c] = state
      /\ \A d \in Conversations \ {c} : contact'[d] = contact[d]
      /\ \A d \in Conversations : contact[d] # "absent" => contact'[d] # "absent"
      /\ \A d \in Conversations : Settled(d) => Settled(d)'
      /\ OperatorWins'
  BY <1>1, <1>3, <1>5, ContactWritten DEF Outcomes
<1>8. /\ pending' \in [Emails -> SUBSET Parts] /\ pending'[e] = PartsOf[e]
      /\ \A f \in Emails \ {e} : pending'[f] = pending[f]
  BY <1>1, <1>3, <1>6 DEF TypeOK
<1>9. \A d \in Conversations : contact'[d] = contact[d] \/ \A v \in Workers \ {w} : ~HoldsThread(v, d)
  <2>1. contact[c] = "absent" => \A v \in Workers : ~HoldsThread(v, c)
    BY <1>1 DEF WorkInv, HoldsThread, Unresolved
  <2>. QED  BY <1>5, <1>7, <2>1
<1>10. CASE ~unfinished /\ Visible(w, e, k) /\ Confirm(w)
  <2>1. Finish(w) /\ WorkType' /\ confirmed' = confirmed \cup {e}
    BY <1>1, <1>2, <1>10, ConfirmFacts
  <2>2. msg' = [msg EXCEPT ![e] = "ready"] /\ PartsOf[e] = {}
    BY <1>3, <1>10
  <2>3. k = "regular" => Settled(c)'
    BY <1>5, <1>7, <1>10 DEF Settled
  <2>4. RowType' /\ Outcomes' /\ Forward
    <3>. HIDE DEF unfinished
    <3>. QED  BY <1>1, <1>2, <1>3, <1>7, <1>8, <1>10, <2>1, <2>2, <2>3, ReadyRows
  <2>5. TypeOK'
    BY <1>1, <1>3, <2>1, <2>4, TypeParts
  <2>. QED  BY <1>9, <2>1, <2>4, <2>5, FinishStep
<1>11. CASE /\ unfinished /\ Goto(w, "list") /\ lock' = NoWorker
            /\ unresolved' = [unresolved EXCEPT ![w] = NeedsContactResolution(k, state)]
            /\ UNCHANGED <<outbox, last, email, todo, part, resolution, confirmed, token>>
  <2>1. pc' \in [Workers -> Step] /\ pc'[w] = "list" /\ \A v \in Workers \ {w} : pc'[v] = pc[v]
    BY <1>1, <1>11, GotoFacts DEF Step
  <2>2. /\ unresolved' \in [Workers -> BOOLEAN] /\ unresolved'[w] = NeedsContactResolution(k, state)
        /\ \A v \in Workers \ {w} : unresolved'[v] = unresolved[v]
    BY <1>1, <1>5, <1>11 DEF TypeOK
  <2>3. /\ msg' \in [Emails -> {"none", "processing", "ready", "failed"}] /\ msg'[e] = "processing"
        /\ \A f \in Emails \ {e} : msg'[f] = msg[f]
    BY <1>1, <1>3, <1>11 DEF TypeOK
  <2>4. /\ threadOf' \in [Emails -> Kinds \cup {"none"}] /\ threadOf'[e] = k
        /\ \A f \in Emails \ {e} : threadOf'[f] = threadOf[f]
    BY <1>1, <1>3 DEF TypeOK
  <2>5. UNCHANGED <<attempts, failures, manual, outbox, last, email, todo, part, resolution, confirmed, token>>
    BY <1>3, <1>11
  <2>6. TypeOK'
    <3>1. RowType'
      BY <1>1, <1>7, <1>8, <2>3, <2>4, <2>5, TypeParts DEF RowType
    <3>2. WorkType'
      BY <1>1, <1>11, <2>1, <2>2, <2>5, TypeParts DEF WorkType
    <3>. QED  BY <1>1, <1>3, <3>1, <3>2, TypeParts
  <2>7. Forward /\ \A v \in Workers \ {w} : Untouched(v)
    BY <1>3, <1>7, <2>1, <2>2, <2>3, <2>4, <2>5 DEF Forward, Untouched
  <2>8. RowInv'
    <3>1. ASSUME NEW f \in Emails \ {e}
          PROVE  /\ msg'[f] = "none" <=> threadOf'[f] = "none"
                 /\ msg'[f] # "none" => f \notin Malformed
                 /\ msg'[f] = "failed" => f \in failures
                 /\ f \in failures => msg'[f] # "none" \/ f \in Malformed
                 /\ threadOf'[f] = "regular" => contact'[ConversationOf[f]] # "absent"
      BY <1>1, <1>7, <2>3, <2>4, PipelineAssumption, ZenonT(40) DEF Outcomes, RowInv
    <3>2. /\ msg'[e] = "processing" /\ threadOf'[e] # "none"
          /\ threadOf'[e] = "regular" => contact'[ConversationOf[e]] # "absent"
      BY <1>2, <1>5, <1>7, <2>3, <2>4 DEF Kinds
    <3>. QED  BY <1>2, <2>5, <3>1, <3>2 DEF RowInv
  <2>9. ConfirmedDurable'
    <3>1. e \notin confirmed
      BY <1>1, <1>2, <1>3 DEF Outcomes, ConfirmedDurable, RowInv
    <3>. QED  BY <1>1, <2>3, <2>5, <3>1 DEF Outcomes, ConfirmedDurable, TypeOK
  <2>10. ReadyComplete'
    BY <1>1, <1>7, <1>8, <2>3, <2>4, PipelineAssumption DEF Outcomes, ReadyComplete, Settled
  <2>11. AttemptBudget'
    BY <1>1, <1>3, <2>3, <2>5 DEF Outcomes, AttemptBudget
  <2>12. EventExactlyOnce' /\ LastMessageExact'
    <3>1. \A f \in Emails : /\ msg'[f] = "ready" <=> msg[f] = "ready"
                            /\ msg[f] = "ready" => threadOf'[f] = threadOf[f]
      BY <1>3, <2>3, <2>4
    <3>. QED  BY <1>1, <2>5, <3>1, SameVisible DEF Outcomes
  <2>13. Outcomes'
    BY <1>7, <2>8, <2>9, <2>10, <2>11, <2>12 DEF Outcomes
  <2>14. WorkInv(w)'
    <3>1. email'[w] = e /\ ~HoldsThread(w, c)'
      BY <1>2, <2>1, <2>5 DEF HoldsThread
    <3>2. k = "regular" => Settled(c)' \/ unresolved'[w]
      BY <1>5, <1>7, <2>2 DEF Settled
    <3>. QED  BY <1>2, <2>1, <2>3, <2>4, <3>1, <3>2 DEF WorkInv, Completing, Looked, Step
  <2>. QED  BY <1>9, <2>1, <2>6, <2>7, <2>13, <2>14, WorkStep
<1>. QED  BY <1>4, <1>10, <1>11

\* The operator waits for the row lock and answers the question for good.
LEMMA SetContactKeeps ==
    ASSUME PipelineInv, NEW c \in Conversations, NEW d \in Decision, SetContactManually(c, d)
    PROVE  PipelineInv'
<1>1. TypeOK /\ Outcomes /\ ThreadInv /\ \A v \in Workers : WorkInv(v)
  BY InvParts
<1>2. /\ contact[c] # "absent" /\ \A v \in Workers : ~HoldsThread(v, c)
      /\ contact' = [contact EXCEPT ![c] = d] /\ manual' = [manual EXCEPT ![c] = d]
      /\ UNCHANGED <<profileVars, lock, msg, threadOf, pending, attempts, failures, outbox, last>>
      /\ UNCHANGED <<pc, token, email, todo, part, unresolved, resolution, confirmed>>
  BY PipelineAssumption DEF SetContactManually, ThreadFree, messageVars, workVars
<1>3. /\ contact' \in [Conversations -> Contact] /\ contact'[c] = d /\ d \notin {"absent", "pending"}
      /\ \A b \in Conversations \ {c} : contact'[b] = contact[b]
  BY <1>1, <1>2 DEF TypeOK, Contact, Decision
<1>4. /\ manual' \in [Conversations -> Decision \cup {"none"}] /\ manual'[c] = d
      /\ \A b \in Conversations \ {c} : manual'[b] = manual[b]
  BY <1>1, <1>2 DEF TypeOK
<1>5. TypeOK'
  BY <1>1, <1>2, <1>3, <1>4, TypeParts DEF RowType, WorkType
<1>6. Forward /\ \A v \in Workers : Untouched(v)
  BY <1>2, <1>3 DEF Forward, Settled, Untouched
<1>7. Outcomes'
  <2>1. RowInv' /\ ReadyComplete'
    BY <1>1, <1>2, <1>3, PipelineAssumption DEF Outcomes, RowInv, ReadyComplete
  <2>2. ConfirmedDurable' /\ AttemptBudget'
    BY <1>1, <1>2 DEF Outcomes, ConfirmedDurable, AttemptBudget
  <2>3. EventExactlyOnce' /\ LastMessageExact'
    BY <1>1, <1>2, SameVisible DEF Outcomes
  <2>4. OperatorWins'
    BY <1>1, <1>3, <1>4 DEF Outcomes, OperatorWins
  <2>. QED  BY <2>1, <2>2, <2>3, <2>4 DEF Outcomes
<1>8. ASSUME NEW v \in Workers PROVE WorkInv(v)'
  <2>1. WorkInv(v) /\ Untouched(v) /\ \A b \in Conversations : HoldsThread(v, b) => contact'[b] = contact[b]
    BY <1>1, <1>2, <1>3, <1>6
  <2>. QED  BY <1>1, <1>6, <2>1, KeptWork
<1>9. ThreadInv'
  BY <1>1, <1>6, ZenonT(40) DEF ThreadInv, HoldsThread, Untouched
<1>. QED  BY <1>5, <1>7, <1>8, <1>9 DEF PipelineInv, Outcomes
-----------------------------------------------------------------------------
(* The theorems.                                                           *)

LEMMA InitInv == Init => PipelineInv
<1>. SUFFICES ASSUME Init PROVE PipelineInv
  OBVIOUS
<1>1. RowType
  <2>1. MaxAttempts \in Nat
    BY PipelineAssumption
  <2>. QED  BY <2>1, SMT DEF Init, RowType, Contact
<1>2. WorkType
  BY PipelineAssumption, SMT DEF Init, WorkType, Step
<1>3. TypeOK
  <2>1. owner \in Workers \cup {NoWorker} /\ generation \in 0 .. MaxGeneration
    BY PipelineAssumption, SMT DEF Init
  <2>. QED  BY <1>1, <1>2, <2>1 DEF RowType, WorkType, TypeOK
<1>4. (\A w \in Workers : WorkInv(w)) /\ ThreadInv
  BY DEF Init, WorkInv, ThreadInv, HoldsThread
<1>5. RowInv /\ ConfirmedDurable /\ ReadyComplete /\ EventExactlyOnce /\ OperatorWins
  BY DEF Init, RowInv, ConfirmedDurable, ReadyComplete, EventExactlyOnce, OperatorWins
<1>6. AttemptBudget
  BY PipelineAssumption, SMT DEF Init, AttemptBudget
<1>7. LastMessageExact
  BY LastPointwise DEF Init, LastExact, Shown
<1>. QED  BY <1>3, <1>4, <1>5, <1>6, <1>7 DEF PipelineInv

LEMMA NextInv == PipelineInv /\ [Next]_vars => PipelineInv'
<1>. SUFFICES ASSUME PipelineInv, [Next]_vars PROVE PipelineInv'
  OBVIOUS
<1>1. ASSUME NEW w \in Workers, Handle(w) PROVE PipelineInv'
  <2>1. CASE \E e \in Emails : Deliver(w, e)
    BY <2>1, DeliverKeeps
  <2>2. CASE Quarantine(w) \/ Duplicate(w)
    BY <2>2, QuarantineKeeps
  <2>3. CASE EnsureEmailProfileAssignment(w)
    BY <2>3, EnsureKeeps
  <2>4. CASE StaleAssignment(w) \/ SpendOnFinished(w) \/ ReportIncomplete(w)
    BY <2>4, ReturnKeeps
  <2>5. CASE Continue(w)
    BY <2>5, ContinueKeeps
  <2>6. CASE \E k \in Kinds : Persist(w, k)
    BY <2>6, PersistKeeps
  <2>7. CASE List(w) \/ \E p \in Parts, a \in {"stored", "rejected", "error"} : Upload(w, p, a)
    BY <2>7, ListKeeps
  <2>8. CASE MarkStored(w)
    BY <2>8, MarkStoredKeeps
  <2>9. CASE Fail(w)
    BY <2>9, FailKeeps
  <2>10. CASE SpendAttempt(w)
    BY <2>10, SpendAttemptKeeps
  <2>11. CASE \E a \in Lookup \cup {"none"} : ResolveContact(w, a)
    BY <2>11, ResolveContactKeeps
  <2>12. CASE BeginMarkReady(w)
    BY <2>12, BeginMarkReadyKeeps
  <2>13. CASE CommitReady(w)
    BY <2>13, CommitReadyKeeps
  <2>14. CASE Incomplete(w)
    BY <2>14, IncompleteKeeps
  <2>15. CASE AlreadyFinished(w)
    BY <2>15, AlreadyFinishedKeeps
  <2>. QED  BY <1>1, <2>1, <2>2, <2>3, <2>4, <2>5, <2>6, <2>7, <2>8, <2>9, <2>10, <2>11, <2>12, <2>13, <2>14, <2>15 DEF Handle
<1>2. ASSUME NEW w \in Workers, Assign(w) \/ StartPoll(w) PROVE PipelineInv'
  BY <1>2, AssignmentKeeps
<1>3. ASSUME NEW w \in Workers, Abandon(w) PROVE PipelineInv'
  BY <1>3, ReturnKeeps
<1>4. CASE Unassign
  <2>1. CASE \E w \in Workers : TRUE
    BY <1>4, <2>1, AssignmentKeeps
  <2>2. CASE ~\E w \in Workers : TRUE
    BY <1>4, <2>2 DEF Unassign, PipelineInv, TypeOK
  <2>. QED  BY <2>1, <2>2
<1>5. ASSUME NEW c \in Conversations, NEW d \in Decision, SetContactManually(c, d) PROVE PipelineInv'
  BY <1>5, SetContactKeeps
<1>6. CASE UNCHANGED vars
  <2>1. TypeOK /\ Outcomes /\ ThreadInv /\ \A v \in Workers : WorkInv(v)
    BY InvParts
  <2>2. UNCHANGED <<messageVars, threadVars, confirmed, manual>>
    BY <1>6 DEF vars
  <2>3. UNCHANGED profileVars /\ UNCHANGED <<lock, pc, token, email, todo, part, unresolved, resolution>>
    BY <1>6 DEF vars, workVars
  <2>4. Outcomes' /\ Forward
    BY <2>1, <2>2, SameRows
  <2>5. TypeOK'
    BY <2>1, <2>2, <2>3, ControlType DEF TypeOK, WorkType
  <2>6. (\A v \in Workers : Untouched(v)) /\ UNCHANGED contact
    BY <2>2, <2>3 DEF Untouched, threadVars
  <2>7. \A v \in Workers : WorkInv(v)'
    BY <2>1, <2>4, <2>6, KeptWork
  <2>8. ThreadInv'
    BY <2>1, <2>6, ZenonT(40) DEF ThreadInv, HoldsThread, Untouched
  <2>. QED  BY <2>4, <2>5, <2>7, <2>8 DEF PipelineInv, Outcomes
<1>. QED  BY <1>1, <1>2, <1>3, <1>4, <1>5, <1>6 DEF Next

\* The inductive invariant of the pipeline, for every instance of the constants: any
\* workers handle any emails at the same time, fail anywhere and are reassigned.
THEOREM PipelineInvariant == Spec => []PipelineInv
<1>. QED  BY InitInv, NextInv, PTL DEF Spec

\* The cursor passes only emails whose outcome is stored (persistence.go:39-40).
THEOREM ConfirmedIsDurable == Spec => []ConfirmedDurable
<1>1. PipelineInv => ConfirmedDurable
  BY DEF PipelineInv
<1>. QED  BY <1>1, PipelineInvariant, PTL

\* A visible Message has its files and a Thread whose contact was looked for (markReady).
THEOREM ReadyIsComplete == Spec => []ReadyComplete
<1>1. PipelineInv => ReadyComplete
  BY DEF PipelineInv
<1>. QED  BY <1>1, PipelineInvariant, PTL

\* A Message without attempts left is failed and has a record, whichever workers spent
\* them (uploadFailed).
THEOREM BudgetHolds == Spec => []AttemptBudget
<1>1. PipelineInv => AttemptBudget
  BY DEF PipelineInv
<1>. QED  BY <1>1, PipelineInvariant, PTL

\* One event per regular Message that is ready (outbox.go), however many workers
\* complete it.
THEOREM AnnouncedOnce == Spec => []EventExactlyOnce
<1>1. PipelineInv => EventExactlyOnce
  BY DEF PipelineInv
<1>. QED  BY <1>1, PipelineInvariant, PTL

\* last_message_at of every Thread is the time of its latest ready Message, in whatever
\* order emails complete (AdvanceLastMessage).
THEOREM LastMessageFollows == Spec => []LastMessageExact
<1>1. PipelineInv => LastMessageExact
  BY DEF PipelineInv
<1>. QED  BY <1>1, PipelineInvariant, PTL

\* No automatic outcome overwrites an operator's decision (storeResolution).
THEOREM OperatorPrevails == Spec => []OperatorWins
<1>1. PipelineInv => OperatorWins
  BY DEF PipelineInv
<1>. QED  BY <1>1, PipelineInvariant, PTL
-----------------------------------------------------------------------------
(* An outcome is final.                                                    *)

Final ==
    /\ \A e \in Emails : msg[e] \in {"ready", "failed"} => msg'[e] = msg[e]
    /\ \A e \in Emails : outbox'[e] >= outbox[e]
    /\ failures \subseteq failures'

\* An event written is not taken back.
LEMMA VisibleGrows ==
    ASSUME TypeOK, NEW w \in Workers, NEW e \in Emails, NEW k, Visible(w, e, k)
    PROVE  \A f \in Emails : outbox'[f] >= outbox[f]
<1>1. \A f \in Emails : outbox[f] \in Nat
  BY DEF TypeOK
<1>2. outbox' = [outbox EXCEPT ![e] = IF Eligible(e, k) THEN AppendOnce(@) ELSE @]
  BY DEF Visible
<1>3. outbox'[e] \in {outbox[e], AppendOnce(outbox[e])} /\ \A f \in Emails \ {e} : outbox'[f] = outbox[f]
  BY <1>2 DEF TypeOK
<1>. QED  BY <1>1, <1>3, SMT DEF AppendOnce

LEMMA StepFinal ==
    ASSUME PipelineInv, Next PROVE Final
<1>0. TypeOK /\ \A e \in Emails : outbox[e] \in Nat
  BY DEF PipelineInv, TypeOK
<1>1. CASE UNCHANGED messageVars
  BY <1>0, <1>1, SMT DEF messageVars, Final
<1>2. ASSUME NEW w \in Workers, Quarantine(w) \/ MarkStored(w) PROVE Final
  <2>1. UNCHANGED <<msg, outbox>> /\ failures \subseteq failures'
    BY <1>2 DEF Quarantine, MarkStored
  <2>. QED  BY <1>0, <2>1, SMT DEF Final
<1>3. ASSUME NEW w \in Workers, Fail(w) \/ SpendAttempt(w) PROVE Final
  <2>1. UNCHANGED outbox /\ (QuarantineMessage(email[w]) \/ UNCHANGED <<msg, failures>>)
    BY <1>3 DEF Fail, SpendAttempt
  <2>2. \A e \in Emails : msg[e] \in {"ready", "failed"} => msg'[e] = msg[e]
    BY <1>0, <2>1 DEF QuarantineMessage, TypeOK
  <2>3. failures \subseteq failures'
    BY <2>1 DEF QuarantineMessage
  <2>. QED  BY <1>0, <2>1, <2>2, <2>3, SMT DEF Final
<1>4. ASSUME NEW w \in Workers, CommitReady(w) \/ AlreadyFinished(w) \/ \E k \in Kinds : Persist(w, k)
      PROVE  Final
  <2>1. pc[w] # "idle"
    BY <1>4 DEF CommitReady, AlreadyFinished, Persist
  <2>2. PICK e \in Emails : e = email[w]
    BY <2>1, AtWork
  <2>3. UNCHANGED failures /\ (UNCHANGED outbox \/ \E k : Visible(w, e, k))
    BY <1>4, <2>2 DEF CommitReady, AlreadyFinished, Persist
  <2>4. \A f \in Emails : outbox'[f] >= outbox[f]
    BY <1>0, <2>3, VisibleGrows, SMT
  <2>5. UNCHANGED msg \/ (msg[e] \in {"none", "processing"} /\ \E s : msg' = [msg EXCEPT ![e] = s])
    BY <1>4, <2>2 DEF CommitReady, AlreadyFinished, Persist, Completes
  <2>6. \A f \in Emails : msg[f] \in {"ready", "failed"} => msg'[f] = msg[f]
    BY <1>0, <2>5 DEF TypeOK
  <2>. QED  BY <2>3, <2>4, <2>6 DEF Final
<1>5. ASSUME NEW w \in Workers, Handle(w) PROVE Final
  <2>1. CASE \/ \E e \in Emails : Deliver(w, e)
             \/ EnsureEmailProfileAssignment(w) \/ StaleAssignment(w) \/ Continue(w) \/ Duplicate(w)
             \/ List(w) \/ \E p \in Parts, a \in {"stored", "rejected", "error"} : Upload(w, p, a)
    BY <1>1, <2>1 DEF Deliver, EnsureEmailProfileAssignment, StaleAssignment, Continue, Duplicate, List, Upload
  <2>2. CASE \/ SpendOnFinished(w) \/ \E a \in Lookup \cup {"none"} : ResolveContact(w, a)
             \/ BeginMarkReady(w) \/ Incomplete(w) \/ ReportIncomplete(w)
    BY <1>1, <2>2 DEF SpendOnFinished, ResolveContact, BeginMarkReady, Incomplete, ReportIncomplete
  <2>. QED  BY <1>2, <1>3, <1>4, <1>5, <2>1, <2>2 DEF Handle
<1>6. ASSUME NEW w \in Workers, Assign(w) \/ StartPoll(w) \/ Abandon(w) PROVE Final
  BY <1>1, <1>6 DEF Assign, StartPoll, Abandon
<1>7. CASE Unassign \/ \E c \in Conversations, d \in Decision : SetContactManually(c, d)
  BY <1>1, <1>7 DEF Unassign, SetContactManually
<1>. QED  BY <1>5, <1>6, <1>7 DEF Next

\* No late worker changes a finished Message, takes back an event or drops a record.
THEOREM OutcomesAreFinal == Spec => OutcomeIsFinal
<1>1. PipelineInv /\ [Next]_vars => [Final]_vars
  BY StepFinal
<1>2. [][Final]_vars => OutcomeIsFinal
  BY PTL DEF OutcomeIsFinal, Final
<1>. QED  BY <1>1, <1>2, PipelineInvariant, PTL DEF Spec
=============================================================================
