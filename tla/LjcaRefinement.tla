--------------------------- MODULE LjcaRefinement ---------------------------
(***************************************************************************)
(* Ljca implements LjcaCalls, for every set of threads, stubs and commands *)
(* and every number of calls.                                              *)
(***************************************************************************)
EXTENDS LjcaProofs

\* A call is answered at most once: no two unanswered requests have the same
\* identity, none has that of a call that is still to send its request.
RequestInv ==
  /\ \A m \in Unanswered : m.stub = StubOf[m.id[1]] /\ m.id[2] <= n[m.id[1]]
  /\ \A m, o \in Unanswered : m.id = o.id => m = o
  /\ \A t \in Threads : pc[t] \in {"prep", "send"} => \A m \in Unanswered : m.id # Id(t)
  /\ rx.phase \in {"match", "copy"} => rx.msg \notin fw

\* A call that expects an answer ends its wait by an acknowledgement.
AckedInv == \A t \in Threads : (pc[t] = "fin" /\ kind[t] # "noack") => acked[StubOf[t]]

RInv == IInv /\ RequestInv /\ AckedInv

-----------------------------------------------------------------------------
(* The invariant.                                                          *)

\* Requests have their type.
LEMMA UnansweredType ==
  ASSUME TypeOK
  PROVE  /\ Unanswered \subseteq Messages
         /\ rx.phase # "idle" => rx.msg \in Messages
BY DEF TypeOK, Unanswered, NoRx

\* Steps that leave the requests, the numbers of the calls and the callers'
\* places before the request alone.
LEMMA RequestsKept ==
  ASSUME RInv, TypeOK', UNCHANGED <<fw, rx, n>>,
         \A t \in Threads : pc'[t] \in {"prep", "send"} => pc[t] \in {"prep", "send"}
  PROVE  RequestInv'
BY DEF RInv, RequestInv, Unanswered, Id

\* A new call gets a new number.
LEMMA RequestsEnter ==
  ASSUME RInv, TypeOK', NEW t \in Threads, n' = [n EXCEPT ![t] = @ + 1], UNCHANGED <<fw, rx>>,
         \A u \in Threads : u # t /\ pc'[u] \in {"prep", "send"} => pc[u] \in {"prep", "send"}
  PROVE  RequestInv'
<1> USE DEF RInv, IInv, TypeOK
<1>1. Unanswered' = Unanswered  BY DEF Unanswered
<1>2. Unanswered \subseteq Messages  BY UnansweredType
<1>3. ASSUME NEW m \in Unanswered  PROVE m.id[2] <= n'[m.id[1]] /\ m.id # <<t, n'[t]>>
  <2>1. m.id \in Ids  BY <1>2 DEF Messages
  <2>2. m.id[1] \in Threads /\ m.id[2] \in Nat /\ m.id[2] <= n[m.id[1]]
    BY <2>1 DEF Ids, RequestInv
  <2> QED BY <2>1, <2>2
<1>4. ASSUME NEW u \in Threads, pc'[u] \in {"prep", "send"}, NEW m \in Unanswered
      PROVE  m.id # Id(u)'
  BY <1>3, <1>4 DEF RequestInv, Id
<1> QED BY <1>1, <1>3, <1>4 DEF RequestInv, Unanswered

\* A request is sent once.
LEMMA RequestsSend ==
  ASSUME RInv, TypeOK', NEW t \in Threads, pc[t] = "send", fw' = fw \cup {Request(t)},
         pc'[t] \notin {"prep", "send"}, UNCHANGED <<rx, n>>,
         \A u \in Threads : u # t => pc'[u] = pc[u]
  PROVE  RequestInv'
<1> USE DEF RInv, IInv, TypeOK
<1>1. Unanswered' = Unanswered \cup {Request(t)}  BY DEF Unanswered
<1>2. \A m \in Unanswered : m.id # Id(t)  BY DEF RequestInv
<1>3. Request(t).id = Id(t) /\ Request(t).stub = StubOf[t] /\ Id(t)[1] = t /\ Id(t)[2] = n[t]
  BY DEF Request, Id
<1>4. \A u \in Threads : Id(u)' = Id(u) /\ (u # t => Id(u) # Id(t))  BY DEF Id
<1>5. rx.phase \in {"match", "copy"} => rx.msg # Request(t)
  BY <1>2, <1>3 DEF Unanswered
<1>6. n[t] \in Nat /\ n[t] <= n[t]  OBVIOUS
<1>7. \A m \in Unanswered' : m.stub = StubOf[m.id[1]] /\ m.id[2] <= n'[m.id[1]]
  BY <1>1, <1>3, <1>6 DEF RequestInv
<1>8. \A m, o \in Unanswered' : m.id = o.id => m = o
  BY <1>1, <1>2, <1>3 DEF RequestInv
<1>9. ASSUME NEW u \in Threads, pc'[u] \in {"prep", "send"}, NEW m \in Unanswered'
      PROVE  m.id # Id(u)'
  <2>1. u # t /\ pc[u] \in {"prep", "send"}  BY <1>9
  <2>2. CASE m \in Unanswered  BY <1>4, <2>1, <2>2 DEF RequestInv
  <2>3. CASE m = Request(t)  BY <1>3, <1>4, <2>1, <2>3
  <2> QED BY <1>1, <2>2, <2>3
<1> QED BY <1>5, <1>7, <1>8, <1>9 DEF RequestInv

\* The firmware or the handler discards a request.
LEMMA RequestsDrop ==
  ASSUME RInv, TypeOK', Unanswered' \subseteq Unanswered, fw' \subseteq fw,
         rx' = rx \/ rx'.phase \notin {"match", "copy"}
                  \/ rx'.msg \notin fw', UNCHANGED <<n, pc>>
  PROVE  RequestInv'
BY DEF RInv, RequestInv, Id
\* The initial state satisfies the invariant.
LEMMA RInvInit == Init => RInv
<1> SUFFICES ASSUME Init  PROVE RInv  OBVIOUS
<1>1. Unanswered = {}  BY DEF Init, Unanswered, NoRx
<1>2. RequestInv  BY <1>1 DEF Init, RequestInv, NoRx
<1>3. AckedInv  BY DEF Init, AckedInv
<1> QED BY <1>2, <1>3, IInvInit DEF RInv

\* Only Lock withdraws an acknowledgement, when nobody is in the section.
LEMMA AckedNext ==
  ASSUME RInv, TypeOK', Next
  PROVE  AckedInv'
<1> USE ThreadsAssumption, NoneAssumption DEF RInv, IInv, TypeOK, AckedInv
<1>1. ASSUME NEW t \in Threads, Writer(t)  PROVE AckedInv'
  <2>1. CASE \E c \in Cmds, k \in Kinds : EnterRefused(t, c, k) \/ Enter(t, c, k)
    <3>1. UNCHANGED acked /\ \A u \in Threads : pc'[u] = "fin" => u # t
      BY <2>1 DEF EnterRefused, Enter, Return, stubVars
    <3>2. \A u \in Threads : u # t => pc'[u] = pc[u] /\ kind'[u] = kind[u]
      BY <2>1 DEF EnterRefused, Enter, Call, Return
    <3> QED BY <3>1, <3>2
  <2>2. CASE Lock(t)
    BY <2>2 DEF Lock, LockInv, InSection, callVars
  <2>3. CASE SendOk(t)
    BY <2>3 DEF SendOk, callVars, stubVars
  <2>4. CASE SendFail(t) \/ SendShort(t) \/ WaitTimeout(t)
    BY <2>4 DEF SendFail, SendShort, WaitTimeout, Fail, Return, callVars, stubVars
  <2>5. CASE WaitAcked(t) \/ Finish(t)
    BY <2>5 DEF WaitAcked, Finish, Return, callVars, stubVars
  <2> QED BY <1>1, <2>1, <2>2, <2>3, <2>4, <2>5 DEF Writer, Section
<1>2. CASE (\E m \in fw : FwDrop(m)) \/ Reader
  BY <1>2 DEF FwDrop, Reader, ReadJunk, ReadMismatch, ReadMatch, ParseLoad, ParseCopy,
     ParseAck, stubVars, callVars
<1>3. CASE Device
  BY <1>3 DEF Device, ljca_suspend, ljca_resume, ljca_stop, DisconnectStopped,
     DisconnectFree, Quiet, stubVars, callVars
<1> QED BY <1>1, <1>2, <1>3 DEF Next

\* Every step keeps the requests apart.
LEMMA RequestNext ==
  ASSUME RInv, TypeOK', Next
  PROVE  RequestInv'
<1>1. ASSUME NEW t \in Threads, Writer(t)  PROVE RequestInv'
  <2> USE DEF RInv, IInv, TypeOK
  <2>1. CASE \E c \in Cmds, k \in Kinds : EnterRefused(t, c, k) \/ Enter(t, c, k)
    <3>1. n' = [n EXCEPT ![t] = @ + 1] /\ UNCHANGED <<fw, rx>>
      BY <2>1 DEF EnterRefused, Enter, Call
    <3>2. \A u \in Threads : u # t => pc'[u] = pc[u]
      BY <2>1 DEF EnterRefused, Enter, Return
    <3> QED BY <3>1, <3>2, RequestsEnter
  <2>2. CASE Lock(t) \/ WaitAcked(t) \/ WaitTimeout(t) \/ Finish(t)
    <3>1. UNCHANGED <<fw, rx, n>>
      BY <2>2 DEF Lock, WaitAcked, WaitTimeout, Finish, callVars
    <3>2. \A u \in Threads : pc'[u] \in {"prep", "send"} => pc[u] \in {"prep", "send"}
      BY <2>2 DEF Lock, WaitAcked, WaitTimeout, Finish, Fail, Return
    <3> QED BY <3>1, <3>2, RequestsKept
  <2>3. CASE SendOk(t) \/ SendFail(t) \/ SendShort(t)
    <3>1. /\ UNCHANGED <<rx, n>> /\ pc[t] = "send" /\ pc'[t] \notin {"prep", "send"}
          /\ \A u \in Threads : u # t => pc'[u] = pc[u]
      BY <2>3 DEF SendOk, SendFail, SendShort, Fail, Return, callVars
    <3>2. fw' = fw \/ fw' = fw \cup {Request(t)}
      BY <2>3 DEF SendOk, SendFail, SendShort
    <3> QED BY <3>1, <3>2, RequestsSend, RequestsKept
  <2> QED BY <1>1, <2>1, <2>2, <2>3 DEF Writer, Section
<1>2. CASE (\E m \in fw : FwDrop(m)) \/ ReadJunk \/ (\E m \in fw : ReadMismatch(m))
  <2>1. fw' \subseteq fw /\ UNCHANGED <<rx, n, pc>>
    BY <1>2 DEF FwDrop, ReadJunk, ReadMismatch, callVars
  <2> QED BY <2>1, RequestsDrop DEF Unanswered
<1>3. ASSUME NEW m \in fw, ReadMatch(m)  PROVE RequestInv'
  <2>1. /\ fw' = fw \ {m} /\ rx'.msg = m /\ rx'.phase = "match" /\ rx.phase = "idle"
        /\ UNCHANGED <<n, pc>>
    BY <1>3 DEF ReadMatch, ReaderIdle, callVars
  <2>2. Unanswered' = Unanswered  BY <2>1 DEF Unanswered
  <2> QED BY <2>1, <2>2, RequestsDrop
<1>4. CASE ParseLoad
  <2>1. UNCHANGED <<fw, n, pc>> /\ rx.phase = "match" /\ rx'.phase = "copy" /\ rx'.msg = rx.msg
    <3>1. rx \in [phase : {"match", "copy", "ack"}, msg : Messages, ptr : Ids \cup {None}]
      BY <1>4 DEF RInv, IInv, TypeOK, ParseLoad, NoRx
    <3> QED BY <1>4, <3>1 DEF ParseLoad, callVars
  <2>2. Unanswered' = Unanswered  BY <2>1 DEF Unanswered
  <2>3. rx'.msg \notin fw'  BY <2>1 DEF RInv, RequestInv
  <2> QED BY <2>1, <2>2, <2>3, RequestsDrop
<1>5. CASE ParseCopy \/ ParseAck
  <2>1. UNCHANGED <<fw, n, pc>> /\ rx'.phase \notin {"match", "copy"}
    <3>1. rx \in [phase : {"match", "copy", "ack"}, msg : Messages, ptr : Ids \cup {None}]
      BY <1>5 DEF RInv, IInv, TypeOK, ParseCopy, ParseAck, NoRx
    <3> QED BY <1>5, <3>1 DEF ParseCopy, ParseAck, NoRx, callVars
  <2>2. Unanswered' \subseteq Unanswered  BY <2>1 DEF Unanswered
  <2> QED BY <2>1, <2>2, RequestsDrop
<1>6. CASE Device
  <2>1. UNCHANGED <<fw, rx, n, pc>>
    BY <1>6 DEF Device, ljca_suspend, ljca_resume, ljca_stop, DisconnectStopped,
       DisconnectFree, Quiet, callVars
  <2> QED BY <2>1, RequestsKept
<1> QED BY <1>1, <1>2, <1>3, <1>4, <1>5, <1>6 DEF Next, Reader

\* Every step preserves the invariant.
LEMMA RInvNext == RInv /\ [Next]_vars => RInv'
<1> SUFFICES ASSUME RInv, [Next]_vars  PROVE RInv'  OBVIOUS
<1>1. IInv'  BY IInvNext DEF RInv
<1>2. TypeOK'  BY <1>1 DEF IInv
<1>3. CASE Next  BY <1>1, <1>2, <1>3, AckedNext, RequestNext DEF RInv
<1>4. CASE UNCHANGED vars
  BY <1>1, <1>4 DEF vars, RInv, RequestInv, AckedInv, Unanswered, Id
<1> QED BY <1>3, <1>4
-----------------------------------------------------------------------------
(* The refinement mapping.                                                 *)

\* A thread outside the section is idle or has called.
LEMMA PhaseOutside ==
  ASSUME LockInv, TypeOK, NEW t \in Threads, ~InSection(t)
  PROVE  Phase(t) = IF pc[t] = "idle" THEN "idle" ELSE "called"
BY DEF TypeOK, InSection, Phase, Answered

\* The phases of the section, and of an idle thread.
LEMMA PhaseInside ==
  ASSUME TypeOK, NEW t \in Threads
  PROVE  /\ pc[t] = "send" => Phase(t) = "called"
         /\ pc[t] \in {"wait", "fin"} => Phase(t) = IF Answered(t) THEN "answered" ELSE "sent"
         /\ Phase(t) = "idle" <=> pc[t] = "idle"
BY DEF TypeOK, Phase, Answered

\* What a step that leaves a thread's call alone does to its mapped state.
LEMMA MappedKept ==
  ASSUME TypeOK, TypeOK', LockInv, LockInv', NEW t \in Threads, pc'[t] = pc[t], res'[t] = res[t],
         InSection(t) => (Answered(t)' <=> Answered(t))
  PROVE  Phase(t)' = Phase(t) /\ Outcome(t)' = Outcome(t) /\ Length(t)' = Length(t)
<1>1. Outcome(t)' = Outcome(t) /\ Length(t)' = Length(t)  BY DEF Outcome, Length
<1>2. CASE InSection(t)
  BY <1>1, <1>2, PhaseInside DEF InSection, Phase
<1>3. CASE ~InSection(t)
  BY <1>1, <1>3 DEF InSection, Phase, Answered, TypeOK
<1> QED BY <1>2, <1>3

\* Initial states map to initial states.
LEMMA InitMapped == Init => Calls!Init
<1> SUFFICES ASSUME Init  PROVE Calls!Init  OBVIOUS
<1>1. Unanswered = {}  BY DEF Init, Unanswered, NoRx
<1>2. \A t \in Threads : Phase(t) = "idle" /\ Outcome(t) = "none" /\ Length(t) = "zero"
  BY DEF Init, Phase, Answered, Outcome, Length
<1> QED BY <1>1, <1>2 DEF Init, Calls!Init
\* Threads that a step of t leaves alone are outside the section.
LEMMA OthersKept ==
  ASSUME RInv, RInv', NEW t \in Threads, NEW u \in Threads, u # t, lock \in {t, None},
         pc'[u] = pc[u], res'[u] = res[u]
  PROVE  Phase(u)' = Phase(u) /\ Outcome(u)' = Outcome(u) /\ Length(u)' = Length(u)
<1>1. ~InSection(u)  BY NoneAssumption DEF RInv, IInv, LockInv
<1> QED BY <1>1, MappedKept DEF RInv, IInv

\* A call that begins or is refused.
LEMMA EnterMapped ==
  ASSUME RInv, RInv', NEW t \in Threads, NEW c \in Cmds, NEW k \in Kinds,
         EnterRefused(t, c, k) \/ Enter(t, c, k)
  PROVE  Calls!Call(t, c, k) \/ Calls!Refuse(t, c, k)
<1>1. /\ MayCall(t) /\ Call(t, c, k) /\ UNCHANGED <<fw, rx, failed>>
      /\ \A u \in Threads : u # t => pc'[u] = pc[u] /\ res'[u] = res[u]
      /\ \/ pc'[t] = "prep"
         \/ /\ pc'[t] = "idle" /\ res'[t].len = None
            /\ res'[t].ret \in {"ENODEV", "EINVAL", "ENOMEM"}
  BY DEF EnterRefused, Enter, Return, RInv, IInv, TypeOK
<1>2. ASSUME NEW u \in Threads, u # t
      PROVE  Phase(u)' = Phase(u) /\ Outcome(u)' = Outcome(u) /\ Length(u)' = Length(u)
  <2>1. Answered(u)' <=> Answered(u)
    BY <1>1, <1>2 DEF EnterRefused, Enter, Call, stubVars, Answered, Clean, RInv, IInv, TypeOK
  <2> QED BY <1>1, <1>2, <2>1, MappedKept DEF RInv, IInv
<1>3. Unanswered' = Unanswered /\ failed' = failed  BY <1>1 DEF Unanswered
<1>4. Phase(t) = "idle"  BY <1>1, PhaseInside DEF MayCall, RInv, IInv
<1>5. n[t] < MaxCalls  BY <1>1 DEF MayCall
<1>6. CASE pc'[t] = "prep"
  <2>1. Phase(t)' = "called" /\ Outcome(t)' = "none" /\ Length(t)' = "zero"
    BY <1>6 DEF Phase, Answered, Outcome, Length
  <2> QED BY <1>1, <1>2, <1>3, <1>4, <1>5, <2>1 DEF Call, Calls!Call, Calls!Begin
<1>7. CASE pc'[t] = "idle"
  <2>1. Phase(t)' = "idle" /\ Outcome(t)' = "error" /\ Length(t)' = "zero"
    BY <1>1, <1>7 DEF Phase, Answered, Outcome, Length
  <2> QED BY <1>1, <1>2, <1>3, <1>4, <1>5, <2>1 DEF Call, Calls!Refuse, Calls!Begin, Calls!Return
<1> QED BY <1>1, <1>6, <1>7

\* Taking the mutex and seeing the acknowledgement are internal.
LEMMA InternalMapped ==
  ASSUME RInv, RInv', NEW t \in Threads, Lock(t) \/ WaitAcked(t)
  PROVE  UNCHANGED Calls!vars
<1>1. UNCHANGED <<cmd, kind, n, buf, res, fw, rx, failed>>
  BY DEF Lock, WaitAcked, callVars
<1>2. lock \in {t, None} /\ \A u \in Threads : u # t => pc'[u] = pc[u]
  BY DEF Lock, WaitAcked, RInv, IInv, TypeOK, LockInv, InSection
<1>3. Phase(t)' = Phase(t) /\ Outcome(t)' = Outcome(t) /\ Length(t)' = Length(t)
  <2>1. CASE Lock(t)
    <3>1. pc[t] = "prep" /\ pc'[t] = "send"  BY <2>1 DEF Lock, RInv, IInv, TypeOK
    <3> QED BY <3>1 DEF Phase, Answered, Outcome, Length
  <2>2. CASE WaitAcked(t)
    <3>1. pc[t] = "wait" /\ pc'[t] = "fin" /\ UNCHANGED acked
      BY <2>2 DEF WaitAcked, stubVars, RInv, IInv, TypeOK
    <3> QED BY <1>1, <3>1 DEF Phase, Answered, Outcome, Length, Clean
  <2> QED BY <2>1, <2>2
<1>4. \A u \in Threads :
        Phase(u)' = Phase(u) /\ Outcome(u)' = Outcome(u) /\ Length(u)' = Length(u)
  BY <1>1, <1>2, <1>3, OthersKept
<1>5. Unanswered' = Unanswered  BY <1>1 DEF Unanswered
<1> QED BY <1>1, <1>4, <1>5 DEF Calls!vars
\* The command is delivered: the request is issued.
LEMMA SendOkMapped ==
  ASSUME RInv, RInv', NEW t \in Threads, SendOk(t)
  PROVE  Calls!Issue(t)
<1>1. /\ pc[t] = "send" /\ pc'[t] = IF kind[t] = "noack" THEN "fin" ELSE "wait"
      /\ fw' = IF kind[t] = "noack" THEN fw ELSE fw \cup {Request(t)}
      /\ \A u \in Threads : u # t => pc'[u] = pc[u]
      /\ UNCHANGED <<cmd, kind, n, buf, res, rx, failed, acked, lock>>
  BY DEF SendOk, callVars, stubVars, RInv, IInv, TypeOK
<1>2. lock = t  BY <1>1 DEF RInv, IInv, LockInv, InSection
<1>3. ASSUME NEW u \in Threads, u # t
      PROVE  /\ Phase(u)' = Phase(u) /\ Outcome(u)' = Outcome(u) /\ Length(u)' = Length(u)
             /\ Phase(u) \in {"idle", "called"}
  <2>1. ~InSection(u)  BY <1>2, <1>3 DEF RInv, IInv, LockInv
  <2> QED BY <1>1, <1>2, <1>3, <2>1, OthersKept, PhaseOutside DEF RInv, IInv
<1>4. Phase(t) = "called"  BY <1>1, PhaseInside DEF RInv, IInv
<1>5. ~Answered(t)'
  <2>1. ASSUME kind[t] # "noack", Clean(StubOf[t])
        PROVE  ~acked[StubOf[t]] /\ ~(rx.phase = "ack" /\ rx.msg.stub = StubOf[t])
    BY <1>1, <1>2, <2>1 DEF RInv, IInv, OutstandingInv, Awaited
  <2> QED BY <1>1, <2>1 DEF Answered, Clean
<1>6. Phase(t)' = "sent" /\ Outcome(t)' = Outcome(t) /\ Length(t)' = Length(t)
  BY <1>1, <1>5 DEF Phase, Outcome, Length
<1>7. {m.id : m \in Unanswered'} =
        IF kind[t] = "noack" THEN {m.id : m \in Unanswered}
        ELSE {m.id : m \in Unanswered} \cup {Id(t)}
  <2>1. Unanswered' = IF kind[t] = "noack" THEN Unanswered ELSE Unanswered \cup {Request(t)}
    BY <1>1 DEF Unanswered
  <2>2. Request(t).id = Id(t)  BY DEF Request
  <2> QED BY <2>1, <2>2
<1> QED BY <1>1, <1>3, <1>4, <1>6, <1>7
        DEF Calls!Issue, Calls!Id, Calls!callVars, Id

\* A successful return.
LEMMA FinishMapped ==
  ASSUME RInv, RInv', NEW t \in Threads, Finish(t)
  PROVE  Calls!Succeed(t)
<1>1. /\ pc[t] = "fin" /\ pc'[t] = "idle"
      /\ res'[t] = [ret |-> "ok", len |-> IF kind[t] = "read" THEN ibuf_len[StubOf[t]] ELSE None]
      /\ \A u \in Threads : u # t => pc'[u] = pc[u] /\ res'[u] = res[u]
      /\ UNCHANGED <<cmd, kind, n, buf, fw, rx, failed>>
  BY DEF Finish, Return, callVars, RInv, IInv, TypeOK
<1>2. lock = t  BY <1>1 DEF RInv, IInv, LockInv, InSection
<1>3. \A u \in Threads : u # t =>
        Phase(u)' = Phase(u) /\ Outcome(u)' = Outcome(u) /\ Length(u)' = Length(u)
  BY <1>1, <1>2, OthersKept
<1>4. Phase(t) = IF Answered(t) THEN "answered" ELSE "sent"
  BY <1>1, PhaseInside DEF RInv, IInv
<1>5. Clean(StubOf[t]) /\ kind[t] # "noack" => Answered(t)
  BY <1>1 DEF RInv, AckedInv, Answered
<1>6. Phase(t)' = "idle" /\ Outcome(t)' = "ok"
  BY <1>1 DEF Phase, Outcome, Answered
<1>7. Length(t)' \in Calls!Lens(t)
  <2>1. CASE kind[t] # "read"
    BY <1>1, <2>1 DEF Length, Calls!Lens
  <2>2. CASE kind[t] = "read" /\ Sole(t) /\ Clean(StubOf[t])
    <3>1. ibuf_len[StubOf[t]] = Id(t)
      BY <1>1, <2>2 DEF RInv, IInv, DeliveryInv, OwnLen
    <3>2. Id(t) # None  BY NoneAssumption DEF Id, RInv, IInv, TypeOK
    <3>3. Length(t)' = "some"  BY <1>1, <2>2, <3>1, <3>2 DEF Length
    <3> QED BY <2>2, <3>3 DEF Calls!Lens, Calls!Sole, Calls!Clean, Sole, Clean
  <2>3. CASE kind[t] = "read" /\ ~(Sole(t) /\ Clean(StubOf[t]))
    <3>1. Length(t)' \in {"some", "zero"}  BY DEF Length
    <3> QED BY <2>3, <3>1 DEF Calls!Lens, Calls!Sole, Calls!Clean, Sole, Clean
  <2> QED BY <2>1, <2>2, <2>3
<1>8. Unanswered' = Unanswered  BY <1>1 DEF Unanswered
<1>9. Calls!Return(t, "ok", Length(t)')
  BY <1>3, <1>6 DEF Calls!Return
<1>10. Phase(t) = "answered" \/ (Phase(t) = "sent" /\ (kind[t] = "noack" \/ ~Calls!Clean(t)))
  BY <1>4, <1>5 DEF Calls!Clean, Clean
<1> QED BY <1>1, <1>7, <1>8, <1>9, <1>10 DEF Calls!Succeed, Calls!callVars

\* The error path.
LEMMA FailMapped ==
  ASSUME RInv, RInv', NEW t \in Threads, SendFail(t) \/ WaitTimeout(t)
  PROVE  Calls!Fail(t)
<1>1. /\ pc[t] \in {"send", "wait"} /\ pc'[t] = "idle"
      /\ res'[t].ret \in {"EIO", "ETIMEDOUT"} /\ res'[t].len = None
      /\ \A u \in Threads : u # t => pc'[u] = pc[u] /\ res'[u] = res[u]
      /\ failed' = failed \cup {Id(t)}
      /\ UNCHANGED <<cmd, kind, n, buf, rx>>
  BY DEF SendFail, WaitTimeout, Fail, Return, callVars, RInv, IInv, TypeOK
<1>2. lock = t  BY <1>1 DEF RInv, IInv, LockInv, InSection
<1>3. \A u \in Threads : u # t =>
        Phase(u)' = Phase(u) /\ Outcome(u)' = Outcome(u) /\ Length(u)' = Length(u)
  BY <1>1, <1>2, OthersKept
<1>4. Phase(t) # "idle" /\ (pc[t] = "send" => Phase(t) = "called")
  BY <1>1, PhaseInside DEF RInv, IInv
<1>5. Phase(t)' = "idle" /\ Outcome(t)' = "error" /\ Length(t)' = "zero"
  BY <1>1 DEF Phase, Outcome, Answered, Length
<1>6. {StubOf[i[1]] : i \in failed'} = {StubOf[i[1]] : i \in failed} \cup {StubOf[t]}
  <2>1. StubOf[Id(t)[1]] = StubOf[t]  BY DEF Id
  <2> QED BY <1>1, <2>1
<1>7. \/ Unanswered' = Unanswered
      \/ /\ pc[t] = "send" /\ kind[t] # "noack"
         /\ {m.id : m \in Unanswered'} = {m.id : m \in Unanswered} \cup {Id(t)}
  <2>1. Request(t).id = Id(t)  BY DEF Request
  <2>2. fw' = fw \/ (pc[t] = "send" /\ kind[t] # "noack" /\ fw' = fw \cup {Request(t)})
    BY DEF SendFail, WaitTimeout
  <2> QED BY <1>1, <2>1, <2>2 DEF Unanswered
<1>8. Calls!Return(t, "error", "zero")
  BY <1>3, <1>5 DEF Calls!Return
<1> QED BY <1>1, <1>4, <1>6, <1>7, <1>8 DEF Calls!Fail, Calls!callVars, Calls!Id, Id

\* The error path of a command that was cut short, which returns success.
LEMMA ShortMapped ==
  ASSUME RInv, RInv', NEW t \in Threads, SendShort(t)
  PROVE  Calls!CutShort(t)
<1> PICK l \in IF kind[t] = "read" THEN {Id(t), None} ELSE {None} : Fail(t, "ok", l)
  BY DEF SendShort
<1>1. /\ pc[t] = "send" /\ pc'[t] = "idle" /\ res'[t] = [ret |-> "ok", len |-> l]
      /\ \A u \in Threads : u # t => pc'[u] = pc[u] /\ res'[u] = res[u]
      /\ failed' = failed \cup {Id(t)}
      /\ UNCHANGED <<cmd, kind, n, buf, fw, rx>>
  BY DEF SendShort, Fail, Return, callVars, RInv, IInv, TypeOK
<1>2. lock = t  BY <1>1 DEF RInv, IInv, LockInv, InSection
<1>3. \A u \in Threads : u # t =>
        Phase(u)' = Phase(u) /\ Outcome(u)' = Outcome(u) /\ Length(u)' = Length(u)
  BY <1>1, <1>2, OthersKept
<1>4. Phase(t) = "called"  BY <1>1, PhaseInside DEF RInv, IInv
<1>5. Phase(t)' = "idle" /\ Outcome(t)' = "ok"
  BY <1>1 DEF Phase, Outcome, Answered
<1>6. Length(t)' \in IF kind[t] = "read" THEN {"some", "zero"} ELSE {"zero"}
  <2>1. kind[t] # "read" => l = None  OBVIOUS
  <2> QED BY <1>1, <2>1 DEF Length
<1>7. {StubOf[i[1]] : i \in failed'} = {StubOf[i[1]] : i \in failed} \cup {StubOf[t]}
  <2>1. StubOf[Id(t)[1]] = StubOf[t]  BY DEF Id
  <2> QED BY <1>1, <2>1
<1>8. Unanswered' = Unanswered  BY <1>1 DEF Unanswered
<1>9. Calls!Return(t, "ok", Length(t)')
  BY <1>3, <1>5 DEF Calls!Return
<1> QED BY <1>1, <1>4, <1>6, <1>7, <1>8, <1>9 DEF Calls!CutShort, Calls!callVars

\* A request that is dropped, or answered to another command than the current.
LEMMA DropMapped ==
  ASSUME RInv, RInv', NEW m \in fw, FwDrop(m) \/ ReadMismatch(m)
  PROVE  \E i \in {o.id : o \in Unanswered} : Calls!Drop(i)
<1>1. fw' = fw \ {m} /\ UNCHANGED <<cmd, kind, n, buf, res, pc, acked, rx, failed>>
  BY DEF FwDrop, ReadMismatch, callVars, stubVars
<1>2. Unanswered' = Unanswered \ {m} /\ m \in Unanswered
  BY <1>1 DEF Unanswered, RInv, RequestInv
<1>3. {o.id : o \in Unanswered'} = {o.id : o \in Unanswered} \ {m.id}
  BY <1>2 DEF RInv, RequestInv
<1>4. \A u \in Threads :
        Phase(u)' = Phase(u) /\ Outcome(u)' = Outcome(u) /\ Length(u)' = Length(u)
  BY <1>1 DEF Phase, Answered, Outcome, Length, Clean
<1>5. Calls!Drop(m.id)
  BY <1>1, <1>2, <1>3, <1>4 DEF Calls!Drop, Calls!callVars
<1> QED BY <1>2, <1>5

\* An error, the first half of the handler, its acknowledgement, and the
\* device's own steps are internal.
LEMMA ReaderInternal ==
  ASSUME RInv, RInv',
         ReadJunk \/ (\E m \in fw : ReadMatch(m)) \/ ParseLoad \/ ParseAck \/ Device
  PROVE  UNCHANGED Calls!vars
<1>1. UNCHANGED <<cmd, kind, n, buf, res, pc, failed>>
  BY DEF ReadJunk, ReadMatch, ParseLoad, ParseAck, callVars, Device, ljca_suspend, ljca_resume,
     ljca_stop, DisconnectStopped, DisconnectFree, Quiet
<1>2. rx.phase # "idle" =>
        rx \in [phase : {"match", "copy", "ack"}, msg : Messages, ptr : Ids \cup {None}]
  BY DEF RInv, IInv, TypeOK, NoRx
<1>3. Unanswered' = Unanswered
  <2>1. CASE ReadJunk \/ Device
    BY <2>1 DEF ReadJunk, Device, ljca_suspend, ljca_resume, ljca_stop, DisconnectStopped,
       DisconnectFree, Quiet, Unanswered
  <2>2. CASE \E m \in fw : ReadMatch(m)
    BY <2>2 DEF ReadMatch, ReaderIdle, Unanswered
  <2>3. CASE ParseLoad
    BY <1>2, <2>3 DEF ParseLoad, Unanswered
  <2>4. CASE ParseAck
    BY <2>4 DEF ParseAck, Unanswered, NoRx
  <2> QED BY <2>1, <2>2, <2>3, <2>4
<1>4. ASSUME NEW u \in Threads  PROVE Answered(u)' <=> Answered(u)
  <2>0. Clean(StubOf[u])' <=> Clean(StubOf[u])  BY <1>1 DEF Clean
  <2>1. CASE ReadJunk \/ Device
    BY <1>1, <2>0, <2>1 DEF ReadJunk, Device, ljca_suspend, ljca_resume, ljca_stop,
       DisconnectStopped, DisconnectFree, Quiet, stubVars, Answered
  <2>2. CASE (\E m \in fw : ReadMatch(m)) \/ ParseLoad
    <3>1. UNCHANGED acked /\ rx.phase # "ack" /\ rx'.phase # "ack"
      <4>1. CASE \E m \in fw : ReadMatch(m)
        BY <4>1 DEF ReadMatch, ReaderIdle, stubVars
      <4>2. CASE ParseLoad
        BY <1>2, <4>2 DEF ParseLoad
      <4> QED BY <2>2, <4>1, <4>2
    <3> QED BY <1>1, <2>0, <3>1 DEF Answered
  <2>3. CASE ParseAck
    <3>1. rx.phase = "ack" /\ rx'.phase = "idle"  BY <2>3 DEF ParseAck, NoRx
    <3>2. acked'[StubOf[u]] <=> (acked[StubOf[u]] \/ rx.msg.stub = StubOf[u])
      BY <2>3, ThreadsAssumption DEF ParseAck, RInv, IInv, TypeOK
    <3> QED BY <1>1, <2>0, <3>1, <3>2 DEF Answered
  <2> QED BY <2>1, <2>2, <2>3
<1>5. \A u \in Threads :
        Phase(u)' = Phase(u) /\ Outcome(u)' = Outcome(u) /\ Length(u)' = Length(u)
  BY <1>1, <1>4, MappedKept DEF RInv, IInv
<1> QED BY <1>1, <1>3, <1>5 DEF Calls!vars

\* memcpy: the answer arrives, at its own call or, on a stub with a failed
\* call, anywhere on that stub.
LEMMA CopyMapped ==
  ASSUME RInv, RInv', ParseCopy
  PROVE  \/ \E t \in Threads : Calls!Answer(t)
         \/ \E i \in {o.id : o \in Unanswered} : Calls!LateAnswer(i)
<1>1. /\ UNCHANGED <<cmd, kind, n, res, pc, fw, failed, acked>>
      /\ buf' = [t \in Threads |-> IF rx.ptr = Id(t) THEN rx.msg.id ELSE buf[t]]
  BY DEF ParseCopy, callVars, stubVars
<1>2. rx \in [phase : {"match", "copy", "ack"}, msg : Messages, ptr : Ids \cup {None}]
  BY DEF RInv, IInv, TypeOK, NoRx, ParseCopy
<1>3. rx.phase = "copy" /\ rx'.phase = "ack" /\ rx'.msg = rx.msg
  BY <1>2 DEF ParseCopy
<1>4. Unanswered' = Unanswered \ {rx.msg} /\ rx.msg \in Unanswered
  BY <1>1, <1>3 DEF Unanswered, RInv, RequestInv
<1>5. {o.id : o \in Unanswered'} = {o.id : o \in Unanswered} \ {rx.msg.id}
  BY <1>4 DEF RInv, RequestInv
<1>6. ASSUME NEW u \in Threads, rx.msg.stub # StubOf[u] \/ ~Clean(StubOf[u]) \/ lock # u
      PROVE  Phase(u)' = Phase(u) /\ Outcome(u)' = Outcome(u) /\ Length(u)' = Length(u)
  <2>1. InSection(u) => lock = u  BY DEF RInv, IInv, LockInv
  <2>2. InSection(u) => (Answered(u)' <=> Answered(u))
    BY <1>1, <1>3, <1>6, <2>1 DEF Answered, Clean
  <2> QED BY <1>1, <2>2, MappedKept DEF RInv, IInv
<1>7. CASE Clean(rx.msg.stub)
  <2>1. Awaited(rx.msg)  BY <1>3, <1>7 DEF RInv, IInv, OutstandingInv
  <2> PICK t \in Threads : t = lock  BY <2>1, NoneAssumption DEF Awaited, RInv, IInv, TypeOK
  <2>2. /\ pc[t] = "wait" /\ kind[t] # "noack" /\ ~acked[StubOf[t]]
        /\ rx.msg.id = Id(t) /\ rx.msg.stub = StubOf[t]
    BY <2>1 DEF Awaited, Request, RInv, IInv, TypeOK
  <2>3. ~Answered(t) /\ Answered(t)'
    BY <1>1, <1>3, <1>7, <2>2 DEF Answered, Clean
  <2>4. Phase(t) = "sent" /\ Phase(t)' = "answered" /\ Outcome(t)' = Outcome(t) /\ Length(t)' = Length(t)
    BY <1>1, <2>2, <2>3 DEF Phase, Outcome, Length
  <2>5. rx.ptr = IF kind[t] = "read" THEN Id(t) ELSE None
    BY <1>3, <1>7, <2>2 DEF RInv, IInv, DeliveryInv, Handles, SectionInv, InSection
  <2>6. \A u \in Threads : Id(u) # None /\ (u # t => Id(u) # Id(t))
    BY NoneAssumption DEF Id, RInv, IInv, TypeOK
  <2>7. buf' = [buf EXCEPT ![t] = IF kind[t] = "read" THEN Id(t) ELSE @]
    <3>1. \A u \in Threads : rx.ptr = Id(u) <=> (kind[t] = "read" /\ u = t)  BY <2>5, <2>6
    <3>2. buf \in [Threads -> Ids \cup {None}]  BY DEF RInv, IInv, TypeOK
    <3> QED BY <1>1, <2>2, <3>1, <3>2
  <2>8. Id(t) \in {o.id : o \in Unanswered}  BY <1>4, <2>2
  <2>9. Calls!Answer(t)
    BY ZenonT(60), <1>1, <1>5, <1>6, <1>7, <2>2, <2>4, <2>7, <2>8
       DEF Calls!Answer, Calls!Clean, Calls!callVars, Calls!Id, Id, Clean
  <2> QED BY <2>2, <2>9
<1>8. CASE ~Clean(rx.msg.stub)
  <2> PICK i : i = rx.msg.id  OBVIOUS
  <2>1. \A u \in Threads :
          Phase(u)' = Phase(u) /\ Outcome(u)' = Outcome(u) /\ Length(u)' = Length(u)
    BY <1>6, <1>8
  <2>2. i \in {o.id : o \in Unanswered} /\ StubOf[i[1]] = rx.msg.stub
    BY <1>4 DEF RInv, RequestInv
  <2>3. \/ UNCHANGED buf
        \/ \E t \in Threads : StubOf[t] = rx.msg.stub /\ buf' = [buf EXCEPT ![t] = i]
    <3>1. CASE \E t \in Threads : rx.ptr = Id(t)
      <4> PICK t \in Threads : rx.ptr = Id(t)  BY <3>1
      <4>1. \A u \in Threads : u # t => Id(u) # Id(t)  BY DEF Id
      <4>2. StubOf[t] = rx.msg.stub
        BY <1>3, NoneAssumption DEF RInv, IInv, TypeOK, OwnerInv, Id
      <4>3. \A u \in Threads : rx.ptr = Id(u) <=> u = t  BY <4>1
      <4>4. buf \in [Threads -> Ids \cup {None}]  BY DEF RInv, IInv, TypeOK
      <4>5. buf' = [buf EXCEPT ![t] = i]  BY <1>1, <4>3, <4>4
      <4> QED BY <4>2, <4>5
    <3>2. CASE ~\E t \in Threads : rx.ptr = Id(t)
      BY <1>1, <3>2 DEF RInv, IInv, TypeOK
    <3> QED BY <3>1, <3>2
  <2>4. Calls!LateAnswer(i)
    <3>1. Calls!Stub(i) \in {StubOf[j[1]] : j \in failed} /\ Calls!Stub(i) = rx.msg.stub
      BY <1>8, <2>2 DEF Clean, Calls!Stub
    <3> QED BY ZenonT(60), <1>1, <1>5, <2>1, <2>2, <2>3, <3>1 DEF Calls!LateAnswer, Calls!callVars
  <2> QED BY <2>2, <2>4
<1> QED BY <1>7, <1>8

\* Every step of the bridge is a step of LjcaCalls or changes nothing there.
LEMMA NextMapped == RInv /\ RInv' /\ [Next]_vars => [Calls!Next]_(Calls!vars)
<1> SUFFICES ASSUME RInv, RInv', [Next]_vars  PROVE Calls!Next \/ UNCHANGED Calls!vars
  OBVIOUS
<1>1. ASSUME NEW t \in Threads, Writer(t)  PROVE Calls!Next \/ UNCHANGED Calls!vars
  <2>1. CASE \E c \in Cmds, k \in Kinds : EnterRefused(t, c, k) \/ Enter(t, c, k)
    BY <2>1, EnterMapped DEF Calls!Next, Calls!Kinds, Kinds
  <2>2. CASE Lock(t) \/ WaitAcked(t)  BY <2>2, InternalMapped
  <2>3. CASE SendOk(t)  BY <2>3, SendOkMapped DEF Calls!Next, Calls!Bridge
  <2>4. CASE Finish(t)  BY <2>4, FinishMapped DEF Calls!Next, Calls!Bridge
  <2>5. CASE SendFail(t) \/ WaitTimeout(t)  BY <2>5, FailMapped DEF Calls!Next, Calls!Bridge
  <2>6. CASE SendShort(t)  BY <2>6, ShortMapped DEF Calls!Next, Calls!Bridge
  <2> QED BY <1>1, <2>1, <2>2, <2>3, <2>4, <2>5, <2>6 DEF Writer, Section
<1>2. CASE \E m \in fw : FwDrop(m) \/ ReadMismatch(m)
  BY <1>2, DropMapped DEF Calls!Next, Calls!Bridge
<1>3. CASE ReadJunk \/ (\E m \in fw : ReadMatch(m)) \/ ParseLoad \/ ParseAck \/ Device
  BY <1>3, ReaderInternal
<1>4. CASE ParseCopy
  BY <1>4, CopyMapped DEF Calls!Next, Calls!Bridge
<1>5. CASE UNCHANGED vars
  BY <1>5 DEF vars, Calls!vars, Phase, Answered, Outcome, Length, Unanswered, Clean
<1> QED BY <1>1, <1>2, <1>3, <1>4, <1>5 DEF Next, Reader

\* ljca_stub_write, ljca_parse and the disconnect: the bridge behaves as the
\* specification its drivers are modelled over says.
THEOREM Refinement == Spec => Implements
<1>1. RInv /\ [Next]_vars => RInv'  BY RInvNext
<1> QED BY RInvInit, <1>1, InitMapped, NextMapped, PTL DEF Spec, Implements, Calls!Spec
=============================================================================
