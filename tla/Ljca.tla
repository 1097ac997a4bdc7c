-------------------------------- MODULE Ljca --------------------------------
(***************************************************************************)
(* The La Jolla Cove Adapter (LJCA) USB bridge, drivers/mfd/ljca.c: client *)
(* threads send commands through per-function stubs under one mutex and    *)
(* wait for an acknowledgement that the read URB's completion handler      *)
(* delivers; the bridge may be suspended, resumed and disconnected.        *)
(*                                                                         *)
(* An acknowledgement carries no sequence number, so the model gives every *)
(* call an identity the code does not have and uses it as the DATA: the    *)
(* contents of a buffer, or the length stored for it, is the identity of   *)
(* the call whose answer it came from, None standing for an untouched      *)
(* buffer and for length 0.                                                *)
(*                                                                         *)
(* The completion handler runs on another CPU than the writer, so it is    *)
(* split at every point where the writer can get in between.               *)
(***************************************************************************)
EXTENDS Naturals, FiniteSets

CONSTANTS
  Threads,   \* the threads that call ljca_stub_write
  Workers,   \* those of them that nobody stops: the GPIO driver's work item
  Stubs,     \* the stubs the firmware enumerated
  Cmds,      \* command numbers of a stub
  StubOf,    \* the stub each thread's device is bound to
  MaxCalls,  \* bound: calls a thread makes
  None       \* no thread, no buffer, no data

ASSUME ThreadsAssumption == StubOf \in [Threads -> Stubs] /\ Workers \subseteq Threads
ASSUME MaxCallsAssumption == MaxCalls \in Nat
ASSUME NoneAssumption ==
  None \notin Threads /\ None \notin Cmds /\ None \notin Threads \X Nat

VARIABLES
  state,     \* ljca->state once probe succeeded
  urb,       \* is the read URB submitted?
  disc,      \* how far ljca_disconnect has come
  lock,      \* ljca->mutex: its holder
  cur_cmd, ibuf, ibuf_len, acked,  \* the fields of each struct ljca_stub
  pc, cmd, kind, n,  \* each thread: where it is, its command, its n-th call
  buf,       \* contents of the answer buffer of a thread's current call
  res,       \* what the thread's last call returned
  fw,        \* requests the firmware holds and may still answer
  rx,        \* the completion handler: its phase, message, loaded ibuf
  failed     \* ghost: the calls that left by the error path: they timed out,
             \* could not be sent or were cut short

stubVars == <<cur_cmd, ibuf, ibuf_len, acked>>
callVars == <<cmd, kind, n>>
devVars  == <<state, urb, disc>>
vars == <<state, urb, disc, lock, cur_cmd, ibuf, ibuf_len, acked, pc, cmd,
          kind, n, buf, res, fw, rx, failed>>

\* The calls there can be, identified by thread and number.
Ids == Threads \X (1 .. MaxCalls)
\* ljca_transfer with an answer buffer, without one, and ljca_transfer_noack.
Kinds == {"read", "ack", "noack"}
Rets == {"none", "ok", "ENODEV", "EINVAL", "ENOMEM", "EIO", "ETIMEDOUT"}
Messages == [stub : Stubs, cmd : Cmds, id : Ids]
NoRx == [phase |-> "idle", msg |-> None, ptr |-> None]

Id(t) == <<t, n[t]>>
Request(t) == [stub |-> StubOf[t], cmd |-> cmd[t], id |-> Id(t)]
InSection(t) == pc[t] \in {"send", "wait", "fin"}

TypeOK ==
  /\ state \in {"STARTED", "SUSPEND", "STOPPED"}
  /\ urb \in BOOLEAN
  /\ disc \in {"no", "killed", "stopped", "freed"}
  /\ lock \in Threads \cup {None}
  /\ cur_cmd \in [Stubs -> Cmds \cup {None}]
  /\ ibuf \in [Stubs -> Ids \cup {None}]
  /\ ibuf_len \in [Stubs -> Ids \cup {None}]
  /\ acked \in [Stubs -> BOOLEAN]
  /\ pc \in [Threads -> {"idle", "prep", "send", "wait", "fin"}]
  /\ cmd \in [Threads -> Cmds \cup {None}]
  /\ kind \in [Threads -> Kinds]
  /\ n \in [Threads -> 0 .. MaxCalls]
  /\ buf \in [Threads -> Ids \cup {None}]
  /\ res \in [Threads -> [ret : Rets, len : Ids \cup {None}]]
  /\ fw \subseteq Messages
  /\ rx \in [phase : {"match", "copy", "ack"}, msg : Messages,
             ptr : Ids \cup {None}] \cup {NoRx}
  /\ failed \subseteq Ids

\* ljca_probe has succeeded: stubs are zeroed by kzalloc, the URB is submitted.
Init ==
  /\ state = "STARTED" /\ urb = TRUE /\ disc = "no" /\ lock = None
  /\ cur_cmd = [s \in Stubs |-> None]
  /\ ibuf = [s \in Stubs |-> None]
  /\ ibuf_len = [s \in Stubs |-> None]
  /\ acked = [s \in Stubs |-> FALSE]
  /\ pc = [t \in Threads |-> "idle"]
  /\ cmd = [t \in Threads |-> None]
  /\ kind = [t \in Threads |-> "ack"]
  /\ n = [t \in Threads |-> 0]
  /\ buf = [t \in Threads |-> None]
  /\ res = [t \in Threads |-> [ret |-> "none", len |-> None]]
  /\ fw = {}
  /\ rx = NoRx
  /\ failed = {}

-----------------------------------------------------------------------------
(* ljca_stub_write, by thread t.                                           *)

Return(t, r, l) ==
  /\ pc' = [pc EXCEPT ![t] = "idle"]
  /\ res' = [res EXCEPT ![t] = [ret |-> r, len |-> l]]

\* A call exists while the client device does: mfd_remove_devices (external)
\* unbinds the clients before the stubs are freed. A work item that calls
\* later meets no device (cur_dev has no data) and is not modelled.
MayCall(t) == pc[t] = "idle" /\ n[t] < MaxCalls /\ disc # "freed"

Call(t, c, k) ==
  /\ cmd' = [cmd EXCEPT ![t] = c]
  /\ kind' = [kind EXCEPT ![t] = k]
  /\ n' = [n EXCEPT ![t] = @ + 1]
  /\ buf' = [buf EXCEPT ![t] = None]

\* A stopped bridge, or a payload of more than MAX_PAYLOAD_SIZE, is refused
\* before any field of the stub is touched.
EnterRefused(t, c, k) ==
  /\ MayCall(t)
  /\ Call(t, c, k)
  /\ \/ state = "STOPPED" /\ Return(t, "ENODEV", None)
     \/ state # "STOPPED" /\ Return(t, "EINVAL", None)
  /\ UNCHANGED <<devVars, lock, stubVars, fw, rx, failed>>

\* The stub's ibuf_len is cleared before the mutex is taken, also when the
\* allocation that follows fails.
Enter(t, c, k) ==
  /\ MayCall(t)
  /\ state # "STOPPED"
  /\ Call(t, c, k)
  /\ ibuf_len' = [ibuf_len EXCEPT ![StubOf[t]] = None]
  /\ \/ pc' = [pc EXCEPT ![t] = "prep"] /\ UNCHANGED res
     \/ Return(t, "ENOMEM", None)
  /\ UNCHANGED <<devVars, lock, cur_cmd, ibuf, acked, fw, rx, failed>>

\* Mutant of Lock: the flag of the previous acknowledgement is not reset.
LockKeepsAck(t) ==
  /\ pc[t] = "prep" /\ lock = None
  /\ lock' = t
  /\ cur_cmd' = [cur_cmd EXCEPT ![StubOf[t]] = cmd[t]]
  /\ ibuf' = [ibuf EXCEPT ![StubOf[t]] = IF kind[t] = "read" THEN Id(t) ELSE None]
  /\ pc' = [pc EXCEPT ![t] = "send"]
  /\ UNCHANGED <<devVars, ibuf_len, acked, callVars, buf, res, fw, rx, failed>>

\* Mutant of Lock: the mutex is not taken.
LockNoMutex(t) ==
  /\ pc[t] = "prep"
  /\ lock' = t
  /\ cur_cmd' = [cur_cmd EXCEPT ![StubOf[t]] = cmd[t]]
  /\ ibuf' = [ibuf EXCEPT ![StubOf[t]] = IF kind[t] = "read" THEN Id(t) ELSE None]
  /\ acked' = [acked EXCEPT ![StubOf[t]] = FALSE]
  /\ pc' = [pc EXCEPT ![t] = "send"]
  /\ UNCHANGED <<devVars, ibuf_len, callVars, buf, res, fw, rx, failed>>

Lock(t) ==
  /\ pc[t] = "prep"
  /\ lock = None
  /\ lock' = t
  /\ cur_cmd' = [cur_cmd EXCEPT ![StubOf[t]] = cmd[t]]
  /\ ibuf' = [ibuf EXCEPT ![StubOf[t]] = IF kind[t] = "read" THEN Id(t) ELSE None]
  /\ acked' = [acked EXCEPT ![StubOf[t]] = FALSE]
  /\ pc' = [pc EXCEPT ![t] = "send"]
  /\ UNCHANGED <<devVars, ibuf_len, callVars, buf, res, fw, rx, failed>>

\* usb_bulk_msg delivered the command; only one sent with ACK_FLAG is answered.
SendOk(t) ==
  /\ pc[t] = "send"
  /\ state = "STARTED"
  /\ IF kind[t] = "noack"
       THEN pc' = [pc EXCEPT ![t] = "fin"] /\ UNCHANGED fw
       ELSE pc' = [pc EXCEPT ![t] = "wait"] /\ fw' = fw \cup {Request(t)}
  /\ UNCHANGED <<devVars, lock, stubVars, callVars, buf, res, rx, failed>>

\* Mutant of Fail: the error path does not release the mutex.
FailKeepsLock(t, r, l) ==
  /\ Return(t, r, l)
  /\ failed' = failed \cup {Id(t)}
  /\ UNCHANGED <<lock, stubVars>>

\* goto error: the mutex is released, the fields of the stub are left alone.
Fail(t, r, l) ==
  /\ Return(t, r, l)
  /\ lock' = None
  /\ failed' = failed \cup {Id(t)}
  /\ UNCHANGED stubVars

\* usb_bulk_msg failed. A transfer that timed out may all the same have reached
\* the firmware.
SendFail(t) ==
  /\ pc[t] = "send"
  /\ Fail(t, "EIO", None)
  /\ \/ UNCHANGED fw
     \/ kind[t] # "noack" /\ state = "STARTED" /\ fw' = fw \cup {Request(t)}
  /\ UNCHANGED <<devVars, callVars, buf, rx>>

\* usb_bulk_msg returned 0 but wrote less than the command, which the firmware
\* then does not execute: the error path returns that 0, success, without an
\* answer, and the caller's *ibuf_len keeps whatever was in it.
SendShort(t) ==
  /\ pc[t] = "send"
  /\ state = "STARTED"
  /\ \E l \in IF kind[t] = "read" THEN {Id(t), None} ELSE {None} : Fail(t, "ok", l)
  /\ UNCHANGED <<devVars, callVars, buf, fw, rx>>

WaitAcked(t) ==
  /\ pc[t] = "wait"
  /\ acked[StubOf[t]]
  /\ pc' = [pc EXCEPT ![t] = "fin"]
  /\ UNCHANGED <<devVars, lock, stubVars, callVars, buf, res, fw, rx, failed>>

\* wait_event_timeout returns 0 only when the condition is still false.
WaitTimeout(t) ==
  /\ pc[t] = "wait"
  /\ ~acked[StubOf[t]]
  /\ Fail(t, "ETIMEDOUT", None)
  /\ UNCHANGED <<devVars, callVars, buf, fw, rx>>

\* Mutant of Finish: a successful call leaves its buffer with the stub.
FinishKeepsIbuf(t) ==
  /\ pc[t] = "fin"
  /\ Return(t, "ok", IF kind[t] = "read" THEN ibuf_len[StubOf[t]] ELSE None)
  /\ ibuf_len' = [ibuf_len EXCEPT ![StubOf[t]] = None]
  /\ lock' = None
  /\ UNCHANGED <<devVars, cur_cmd, ibuf, acked, callVars, buf, fw, rx, failed>>

Finish(t) ==
  /\ pc[t] = "fin"
  /\ Return(t, "ok", IF kind[t] = "read" THEN ibuf_len[StubOf[t]] ELSE None)
  /\ ibuf' = [ibuf EXCEPT ![StubOf[t]] = None]
  /\ ibuf_len' = [ibuf_len EXCEPT ![StubOf[t]] = None]
  /\ lock' = None
  /\ UNCHANGED <<devVars, cur_cmd, acked, callVars, buf, fw, rx, failed>>

-----------------------------------------------------------------------------
(* The firmware (external): it may drop a request, and answers the others  *)
(* in any order.                                                           *)

FwDrop(m) ==
  /\ m \in fw
  /\ fw' = fw \ {m}
  /\ UNCHANGED <<devVars, lock, stubVars, pc, callVars, buf, res, rx, failed>>

-----------------------------------------------------------------------------
(* ljca_read_complete and ljca_parse.                                      *)

\* The handler's last step; a failed usb_submit_urb is only logged.
Resubmit == urb' \in BOOLEAN

ReaderIdle == rx.phase = "idle"

\* A transfer error, a length that does not validate, an unknown stub.
ReadJunk ==
  /\ urb /\ ReaderIdle
  /\ Resubmit
  /\ UNCHANGED <<state, disc, lock, stubVars, pc, callVars, buf, res, fw, rx, failed>>

\* The acknowledgement of another command than the stub's current one.
ReadMismatch(m) ==
  /\ urb /\ ReaderIdle
  /\ m \in fw
  /\ cur_cmd[m.stub] # m.cmd
  /\ fw' = fw \ {m}
  /\ Resubmit
  /\ UNCHANGED <<state, disc, lock, stubVars, pc, callVars, buf, res, rx, failed>>

ReadMatch(m) ==
  /\ urb /\ ReaderIdle
  /\ m \in fw
  /\ cur_cmd[m.stub] = m.cmd
  /\ fw' = fw \ {m}
  /\ rx' = [phase |-> "match", msg |-> m, ptr |-> None]
  /\ urb' = FALSE
  /\ UNCHANGED <<state, disc, lock, stubVars, pc, callVars, buf, res, failed>>

\* Stores the length and loads the pointer memcpy will write through.
ParseLoad ==
  /\ rx.phase = "match"
  /\ ibuf_len' = [ibuf_len EXCEPT ![rx.msg.stub] = rx.msg.id]
  /\ rx' = [rx EXCEPT !.phase = "copy", !.ptr = ibuf[rx.msg.stub]]
  /\ UNCHANGED <<devVars, lock, cur_cmd, ibuf, acked, pc, callVars, buf, res, fw, failed>>

\* The pointer may be that of a call that returned: only the buffer of the
\* thread's current call is kept in the model.
ParseCopy ==
  /\ rx.phase = "copy"
  /\ buf' = [t \in Threads |-> IF rx.ptr = Id(t) THEN rx.msg.id ELSE buf[t]]
  /\ rx' = [rx EXCEPT !.phase = "ack"]
  /\ UNCHANGED <<devVars, lock, stubVars, pc, callVars, res, fw, failed>>

ParseAck ==
  /\ rx.phase = "ack"
  /\ acked' = [acked EXCEPT ![rx.msg.stub] = TRUE]
  /\ rx' = NoRx
  /\ Resubmit
  /\ UNCHANGED <<state, disc, lock, cur_cmd, ibuf, ibuf_len, pc, callVars, buf, res, fw, failed>>

Reader ==
  \/ ReadJunk
  \/ \E m \in fw : ReadMismatch(m) \/ ReadMatch(m)
  \/ ParseLoad \/ ParseCopy \/ ParseAck

-----------------------------------------------------------------------------
(* Suspend, resume and disconnect; usb_kill_urb waits for the handler.     *)

Quiet == UNCHANGED <<lock, stubVars, pc, callVars, buf, res, fw, rx, failed>>

ljca_suspend ==
  /\ state = "STARTED" /\ disc = "no" /\ ReaderIdle
  /\ urb' = FALSE
  /\ state' = "SUSPEND"
  /\ UNCHANGED disc
  /\ Quiet

\* Mutant of ljca_resume: the state probe starts from instead of STARTED.
ResumeInited ==
  /\ state = "SUSPEND" /\ disc = "no"
  /\ state' = "INITED"
  /\ Resubmit
  /\ UNCHANGED disc
  /\ Quiet

ljca_resume ==
  /\ state = "SUSPEND" /\ disc = "no"
  /\ state' = "STARTED"
  /\ Resubmit
  /\ UNCHANGED disc
  /\ Quiet

\* Mutant of ljca_stop: the read URB is not killed.
StopKeepsUrb ==
  /\ disc = "no" /\ ReaderIdle
  /\ disc' = "killed"
  /\ UNCHANGED <<state, urb>>
  /\ Quiet

ljca_stop ==
  /\ disc = "no" /\ ReaderIdle
  /\ urb' = FALSE
  /\ disc' = "killed"
  /\ UNCHANGED state
  /\ Quiet

DisconnectStopped ==
  /\ disc = "killed"
  /\ state' = "STOPPED"
  /\ disc' = "stopped"
  /\ UNCHANGED urb
  /\ Quiet

\* mfd_remove_devices returns once the clients are unbound; then
\* ljca_stub_cleanup and ljca_delete free the stubs and the device. Unbinding
\* does not wait for the GPIO driver's work item, so a call of it can be under
\* way. The rest of that call uses freed memory: the model lets it run as if
\* nobody had reused the memory, and claims nothing of how it ends.
DisconnectFree ==
  /\ disc = "stopped"
  /\ \A t \in Threads \ Workers : pc[t] = "idle"
  /\ disc' = "freed"
  /\ UNCHANGED <<state, urb>>
  /\ Quiet

Device ==
  \/ ljca_suspend \/ ljca_resume
  \/ ljca_stop \/ DisconnectStopped \/ DisconnectFree

-----------------------------------------------------------------------------
Section(t) ==
  \/ SendOk(t) \/ SendFail(t) \/ SendShort(t)
  \/ WaitAcked(t) \/ WaitTimeout(t) \/ Finish(t)

Writer(t) ==
  \/ \E c \in Cmds, k \in Kinds : EnterRefused(t, c, k) \/ Enter(t, c, k)
  \/ Lock(t)
  \/ Section(t)

Next ==
  \/ \E t \in Threads : Writer(t)
  \/ \E m \in fw : FwDrop(m)
  \/ Reader
  \/ Device

\* A thread in the critical section is scheduled and its timeouts expire;
\* the mutex hands over to its waiters, so none of them is passed over for
\* ever. Nothing is assumed of the firmware, the reader or the bus.
Fairness == \A t \in Threads : WF_vars(Section(t)) /\ SF_vars(Lock(t))

Spec == Init /\ [][Next]_vars
FairSpec == Spec /\ Fairness

-----------------------------------------------------------------------------
(* Properties.                                                             *)

\* t is the only client of its stub (SPI, GPIO); no call on stub s has left by
\* the error path yet, whatever it returned.
Sole(t) == \A u \in Threads : StubOf[u] = StubOf[t] => u = t
Clean(s) == \A i \in failed : StubOf[i[1]] # s

\* Until a call on a stub times out, cannot be sent or is cut short, acks are
\* not confused: a call that read an answer returns its own answer's data, and
\* that answer's length or - when another thread entered ljca_stub_write on the
\* same stub and cleared ibuf_len before taking the mutex - length 0. (A call
\* that is cut short itself returns 0 without any answer.)
AnswerIsOwn ==
  \A t \in Threads :
    (pc[t] = "idle" /\ res[t].ret = "ok" /\ kind[t] = "read" /\ Clean(StubOf[t]))
      => /\ buf[t] = Id(t)
         /\ res[t].len \in {Id(t), None}
         /\ Sole(t) => res[t].len = Id(t)

\* The pointer the handler will write through belongs to the call in the
\* critical section, or to one whose error path left it in the stub.
LentBuffer ==
  \A s \in Stubs :
    \/ ibuf[s] = None
    \/ lock # None /\ InSection(lock) /\ ibuf[s] = Id(lock)
    \/ ibuf[s] \in failed

\* Once ljca_disconnect has freed the stubs and the device, no handler runs or
\* can run, and only the GPIO work item, which nobody cancels, can still hold
\* the mutex or be in a call.
FreedQuiescent ==
  disc = "freed" => /\ ReaderIdle /\ ~urb
                    /\ lock \in Workers \cup {None}
                    /\ \A t \in Threads \ Workers : pc[t] = "idle"

\* An acknowledgement that arrived while its writer waits is not withdrawn
\* before the writer sees it (the writers of a stub share one acked flag).
AckNotLost ==
  [][\A t \in Threads :
       (pc[t] = "wait" /\ acked[StubOf[t]] /\ pc'[t] = "wait") => acked'[StubOf[t]]]_vars

\* Every call to ljca_stub_write returns, whatever the firmware and the bus
\* do: lost acks, a dead reader, suspend and disconnect included - unless it is
\* the work item's and the bridge is freed under it.
CallReturns ==
  \A t \in Threads :
    pc[t] = "prep" ~> (pc[t] = "idle" \/ (disc = "freed" /\ t \in Workers))

\* ljca.c:167 says of acked and cur_cmd "for identify ack": a call with an
\* answer that ended with an acknowledgement was given the answer to itself.
AckIdentified ==
  \A t \in Threads :
    (pc[t] = "idle" /\ res[t].ret = "ok" /\ kind[t] = "read" /\ Id(t) \notin failed)
      => buf[t] = Id(t)
-----------------------------------------------------------------------------
(* What the bridge promises its drivers.                                   *)

\* The requests whose answer has not been copied yet; dirty are the stubs on
\* which a call has left by the error path.
Unanswered == fw \cup (IF rx.phase \in {"match", "copy"} THEN {rx.msg} ELSE {})

\* On a clean stub, the waiter's answer has been copied.
Answered(t) ==
  /\ pc[t] \in {"wait", "fin"} /\ kind[t] # "noack" /\ Clean(StubOf[t])
  /\ acked[StubOf[t]] \/ (rx.phase = "ack" /\ rx.msg.stub = StubOf[t])

Phase(t) ==
  CASE pc[t] = "idle" -> "idle"
    [] pc[t] \in {"prep", "send"} -> "called"
    [] Answered(t) -> "answered"
    [] OTHER -> "sent"

Outcome(t) ==
  CASE pc[t] # "idle" \/ res[t].ret = "none" -> "none"
    [] pc[t] = "idle" /\ res[t].ret = "ok" -> "ok"
    [] OTHER -> "error"

Length(t) == IF pc[t] # "idle" \/ res[t].len = None THEN "zero" ELSE "some"

Calls == INSTANCE LjcaCalls WITH
  ph <- [t \in Threads |-> Phase(t)],
  ret <- [t \in Threads |-> Outcome(t)],
  len <- [t \in Threads |-> Length(t)],
  open <- {m.id : m \in Unanswered},
  dirty <- {StubOf[i[1]] : i \in failed}

\* ljca_stub_write and the completion handler together behave like calls that
\* are answered one at a time, each by its own answer until one times out, cannot
\* be sent or is cut short.
Implements == Calls!Spec

-----------------------------------------------------------------------------
(* The inductive invariant behind AnswerIsOwn, LentBuffer and              *)
(* FreedQuiescent, in named parts.                                         *)

\* The mutex: its holder is the one thread between Lock and Return.
LockInv == \A t \in Threads : InSection(t) <=> lock = t

\* A call under way has a number and a command.
CallInv == \A t \in Threads : pc[t] # "idle" => n[t] >= 1 /\ cmd[t] \in Cmds

\* Buffers and failed calls are those of calls made, on the right stub.
OwnerInv ==
  /\ \A s \in Stubs : ibuf[s] # None => StubOf[ibuf[s][1]] = s
  /\ rx.phase # "idle" /\ rx.ptr # None => StubOf[rx.ptr[1]] = rx.msg.stub
  /\ \A i \in failed : i[2] <= n[i[1]]
  /\ \A t \in Threads : pc[t] # "idle" => Id(t) \notin failed

\* The call in the critical section has its own buffer in the stub.
SectionInv ==
  \A t \in Threads :
    InSection(t) => ibuf[StubOf[t]] = IF kind[t] = "read" THEN Id(t) ELSE None

\* On a clean stub, what is outstanding is the one request of
\* the call that waits for it, either at the firmware or in the handler.
Awaited(m) ==
  /\ lock # None /\ pc[lock] = "wait" /\ kind[lock] # "noack"
  /\ ~acked[StubOf[lock]]
  /\ m = Request(lock)

OutstandingInv ==
  /\ \A m \in fw : Clean(m.stub) => Awaited(m)
  /\ (rx.phase # "idle" /\ Clean(rx.msg.stub)) => Awaited(rx.msg) /\ rx.msg \notin fw
  /\ \A t \in Threads : (pc[t] = "send" /\ Clean(StubOf[t])) => ~acked[StubOf[t]]

\* The length thread t will report: that of its own answer, or 0.
OwnLen(t, l) == l \in {Id(t), None} /\ (Sole(t) => l = Id(t))

\* What the handler, and then the acknowledgement, leave to the waiter.
Handles(t) == rx.phase # "idle" /\ rx.msg.stub = StubOf[t] /\ lock = t

DeliveryInv ==
  \A t \in Threads : Clean(StubOf[t]) =>
    /\ (Handles(t) /\ rx.phase \in {"copy", "ack"}) => rx.ptr = ibuf[StubOf[t]]
    /\ kind[t] = "read" =>
         /\ (Handles(t) /\ rx.phase \in {"copy", "ack"}) => OwnLen(t, ibuf_len[StubOf[t]])
         /\ (Handles(t) /\ rx.phase = "ack") => buf[t] = Id(t)
         /\ ((pc[t] = "wait" /\ acked[StubOf[t]]) \/ pc[t] = "fin")
              => buf[t] = Id(t) /\ OwnLen(t, ibuf_len[StubOf[t]])

\* What ljca_disconnect has done stays done.
DisconnectInv ==
  /\ disc # "no" => ReaderIdle /\ ~urb
  /\ disc \in {"stopped", "freed"} => state = "STOPPED"
  /\ disc = "freed" => \A t \in Threads \ Workers : pc[t] = "idle"

IInv ==
  /\ TypeOK
  /\ LockInv /\ CallInv /\ OwnerInv /\ SectionInv /\ OutstandingInv
  /\ DeliveryInv /\ DisconnectInv /\ AnswerIsOwn /\ LentBuffer
=============================================================================
