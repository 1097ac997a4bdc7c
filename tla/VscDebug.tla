------------------------------ MODULE VscDebug ------------------------------
(***************************************************************************)
(* The two debugfs clients of the VSC firmware, drivers/misc/ivsc/         *)
(* mei_pse.c ("pse") and mei_ace_debug.c ("ad"). They follow one pattern:  *)
(* users send a command under cmd_mutex and wait for a completion, the     *)
(* receive callback stores the answer and completes, or writes a piece of  *)
(* log to a file. PSE also collects power data that comes in pieces.       *)
(*                                                                         *)
(* A command is known by the position at which it took cmd_mutex. Left     *)
(* out: mei_ace_debug's cmd_resp and response, which nobody reads.         *)
(***************************************************************************)
EXTENDS Naturals, Sequences, FiniteSets

CONSTANTS
  Users,     \* processes that read and write the debugfs files
  PseCmds, AdCmds,  \* the commands the users send
  Pieces,    \* number of pieces the power data comes in
  MaxLog,    \* MAX_LOG_SIZE, in pieces of log
  MaxOps,    \* bound: commands
  None

ASSUME CmdsAssumption ==
  /\ PseCmds \subseteq {"LOG_ONOFF", "SET_WATERMARK", "DUMP_TRACE", "SET_TIMEOUT", "SET_LOG_LEVEL",
                        "SET_TIME", "GET_TIME", "DUMP_POWER_DATA", "GET_FW_VER"}
  /\ AdCmds \subseteq {"GET_FW_VER", "LOG_CONFIG", "SET_SYS_TIME"}
ASSUME BoundsAssumption ==
  /\ Pieces \in Nat \ {0} /\ MaxLog \in Nat \ {0}
  /\ MaxOps \in Nat
ASSUME UsersAssumption == IsFiniteSet(Users)
ASSUME NoneAssumption == None \notin Users \cup ((1 .. MaxOps) \X (1 .. Pieces))

VARIABLES
  drv,       \* which of the two drivers this is
  life,      \* how far its probe and remove have come
  files,     \* the log files that are open
  pos,       \* file positions em_pos, sem_pos and pos
  mutex,     \* holder of cmd_mutex
  done,      \* the completion the sender waits for
  notif,     \* notif or reply_notif: header (cmd, ok) and content
  pm, pm_pos,  \* pm_data and pm_data_pos
  rx,        \* the receive callback: "idle", or "complete" when it has stored
  pc, op, num, \* each user: step, command and its number
  res, got, seen,  \* result, content and power data it read
  cnt,       \* number of commands
  req,       \* firmware (external): commands to answer, in order
  chan,      \* MEI (external): messages to the driver, in order
  dirty      \* ghost: a command failed that the firmware may yet answer

lifeVars == <<drv, life, files>>
userVars == <<pc, op, num, res, got, seen>>
rxVars == <<pos, notif, pm, pm_pos, rx>>
fwVars == <<req, chan>>
vars == <<lifeVars, userVars, rxVars, fwVars, mutex, done, cnt, dirty>>

Cmds == IF drv = "pse" THEN PseCmds ELSE AdCmds
LogFiles == IF drv = "pse" THEN {"em", "sem"} ELSE {"ace"}
Data == [1 .. Pieces -> ((1 .. MaxOps) \X (1 .. Pieces)) \cup {None}]
Message(k, c, i, p, ok) == [kind |-> k, cmd |-> c, id |-> i, piece |-> p, ok |-> ok]

\* Between mei_cldev_enable and mei_cldev_disable; with the callback registered.
Connected == life \in {"enabled", "registered", "em", "closing", "failing", "up", "completed"}
Receiving == Connected /\ life # "enabled"

TypeOK ==
  /\ drv \in {"pse", "ad"}
  /\ life \in {"off", "enabled", "registered", "em", "closing", "failing", "up",
               "completed", "disabled", "hidden", "drained", "closed", "freed"}
  /\ files \subseteq LogFiles
  /\ pos \in [LogFiles -> 0 .. MaxLog + 1]
  /\ mutex \in Users \cup {None}
  /\ done \in BOOLEAN
  /\ notif \in [cmd : PseCmds \cup AdCmds \cup {"LOG_ONOFF", "GET_FW_VER"},
                ok : BOOLEAN, cont : 0 .. MaxOps]
  /\ pm \in Data /\ pm_pos \in 0 .. Pieces - 1
  /\ rx \in {"idle", "complete"}
  /\ pc \in [Users -> {"idle", "lock", "send", "wait", "fin", "read", "devs"}]
  /\ op \in [Users -> PseCmds \cup AdCmds \cup {None}]
  /\ num \in [Users -> 0 .. MaxOps]
  /\ res \in [Users -> {"none", "ok", "error"}]
  /\ got \in [Users -> 0 .. MaxOps]
  /\ seen \in [Users -> Seq(Data)]
  /\ cnt \in 0 .. MaxOps
  /\ dirty \in BOOLEAN

\* kzalloc: the zeroed answer is one to command 0, with status 0.
Init ==
  /\ drv \in {"pse", "ad"}
  /\ life = "off" /\ files = {}
  /\ pos = [f \in LogFiles |-> 0]
  /\ mutex = None /\ done = FALSE
  /\ notif = [cmd |-> IF drv = "pse" THEN "LOG_ONOFF" ELSE "GET_FW_VER", ok |-> TRUE, cont |-> 0]
  /\ pm = [p \in 1 .. Pieces |-> None] /\ pm_pos = 0
  /\ rx = "idle"
  /\ pc = [u \in Users |-> "idle"]
  /\ op = [u \in Users |-> None]
  /\ num = [u \in Users |-> 0]
  /\ res = [u \in Users |-> "none"]
  /\ got = [u \in Users |-> 0]
  /\ seen = [u \in Users |-> <<>>]
  /\ cnt = 0 /\ req = <<>> /\ chan = <<>>
  /\ dirty = FALSE

-----------------------------------------------------------------------------
(* The file operations and the functions that send a command.              *)

\* The debugfs files exist (external: an operation under way delays their
\* removal). A write whose text or value is refused ends here, with no effect.
Begin(u, c) ==
  /\ pc[u] = "idle" /\ life \in {"up", "completed", "disabled"}
  /\ cnt + Cardinality({v \in Users : pc[v] = "lock"}) < MaxOps
  /\ pc' = [pc EXCEPT ![u] = "lock"]
  /\ op' = [op EXCEPT ![u] = c]
  /\ res' = [res EXCEPT ![u] = "none"]
  /\ got' = [got EXCEPT ![u] = 0]
  /\ seen' = [seen EXCEPT ![u] = <<>>]
  /\ UNCHANGED <<lifeVars, num, rxVars, fwVars, mutex, done, cnt, dirty>>

\* mutex_lock, then reinit_completion.
Lock(u) ==
  /\ pc[u] = "lock" /\ mutex = None
  /\ mutex' = u
  /\ done' = FALSE
  /\ cnt' = cnt + 1 /\ num' = [num EXCEPT ![u] = cnt + 1]
  /\ pc' = [pc EXCEPT ![u] = "send"]
  /\ UNCHANGED <<lifeVars, op, res, got, seen, rxVars, fwVars, dirty>>

Result(u, r) ==
  /\ pc' = [pc EXCEPT ![u] = "fin"]
  /\ res' = [res EXCEPT ![u] = r]

Request(u) == [id |-> num[u], cmd |-> op[u]]

Send(u) ==
  /\ pc[u] = "send" /\ Connected
  /\ req' = Append(req, Request(u))
  /\ pc' = [pc EXCEPT ![u] = "wait"]
  /\ UNCHANGED <<lifeVars, op, num, res, got, seen, rxVars, chan, mutex, done, cnt, dirty>>

\* mei_cldev_send fails, before or (interrupted) after the command is queued.
SendFails(u) ==
  /\ pc[u] = "send"
  /\ Result(u, "error")
  /\ \/ UNCHANGED <<req, dirty>>
     \/ Connected /\ req' = Append(req, Request(u)) /\ dirty' = TRUE
  /\ UNCHANGED <<lifeVars, op, num, got, seen, rxVars, chan, mutex, done, cnt>>

\* Mutant of Timeout: the wait has no timeout.
TimeoutNever(u) == FALSE /\ UNCHANGED vars

\* The wait ends after 5 s, or when the process is killed.
Timeout(u) ==
  /\ pc[u] = "wait" /\ ~done
  /\ Result(u, "error")
  /\ dirty' = TRUE
  /\ UNCHANGED <<lifeVars, op, num, got, seen, rxVars, fwVars, mutex, done, cnt>>

\* Mutant of CopiedLocked: the version is read after the mutex is released.
CopiedLate == {}

\* The answers that are copied with the mutex held, and those read later.
CopiedLocked == {"GET_FW_VER"}

ReadLater == {"GET_TIME", "DUMP_POWER_DATA", "GET_FW_VER"} \ CopiedLocked

\* Status and command of the stored answer are compared; the answer need not
\* be one to this command: remove completes without storing one.
Wake(u) ==
  /\ pc[u] = "wait" /\ done
  /\ done' = FALSE
  /\ IF notif.ok /\ notif.cmd = op[u]
       THEN /\ Result(u, "ok")
            /\ got' = [got EXCEPT ![u] = IF op[u] \in CopiedLocked THEN notif.cont ELSE @]
       ELSE Result(u, "error") /\ UNCHANGED got
  /\ UNCHANGED <<lifeVars, op, num, seen, rxVars, fwVars, mutex, cnt, dirty>>

\* These write handlers report success whatever their command returned.
Reported(c, r) ==
  IF c \in {"LOG_ONOFF", "SET_WATERMARK", "DUMP_TRACE", "SET_TIMEOUT", "SET_LOG_LEVEL"}
    THEN "ok" ELSE r

Unlock(u) ==
  /\ pc[u] = "fin"
  /\ mutex' = None
  /\ pc' = [pc EXCEPT ![u] = IF res[u] = "ok" /\ op[u] \in ReadLater THEN "read" ELSE "idle"]
  /\ res' = [res EXCEPT ![u] = Reported(op[u], @)]
  /\ UNCHANGED <<lifeVars, op, num, got, seen, rxVars, fwVars, done, cnt, dirty>>

\* pse_get_time reads the answer after mutex_unlock.
ReadAnswer(u) ==
  /\ pc[u] = "read" /\ op[u] # "DUMP_POWER_DATA"
  /\ got' = [got EXCEPT ![u] = notif.cont]
  /\ pc' = [pc EXCEPT ![u] = "idle"]
  /\ UNCHANGED <<lifeVars, op, num, res, seen, rxVars, fwVars, mutex, done, cnt, dirty>>

\* The power data is formatted in two passes without the mutex: the durations,
\* which are summed up and divided by the sum, and the lists of devices.
dump_power_state_data(u) ==
  /\ pc[u] = "read" /\ op[u] = "DUMP_POWER_DATA"
  /\ seen' = [seen EXCEPT ![u] = <<pm>>]
  /\ pc' = [pc EXCEPT ![u] = "devs"]
  /\ UNCHANGED <<lifeVars, op, num, res, got, rxVars, fwVars, mutex, done, cnt, dirty>>

dump_dev_power_data(u) ==
  /\ pc[u] = "devs"
  /\ seen' = [seen EXCEPT ![u] = Append(@, pm)]
  /\ pc' = [pc EXCEPT ![u] = "idle"]
  /\ UNCHANGED <<lifeVars, op, num, res, got, rxVars, fwVars, mutex, done, cnt, dirty>>

\* The steps of a user inside an operation, but for taking the mutex.
Operation(u) ==
  \/ Send(u) \/ SendFails(u) \/ Timeout(u) \/ Wake(u) \/ Unlock(u)
  \/ ReadAnswer(u) \/ dump_power_state_data(u) \/ dump_dev_power_data(u)

-----------------------------------------------------------------------------
(* The receive callback, run by a work item of the MEI bus, one message at *)
(* a time.                                                                 *)

Take == Receiving /\ rx = "idle" /\ chan # <<>> /\ chan' = Tail(chan)

\* mei_cldev_recv fails, or the message is too short (only mei_ace_debug looks).
RecvFails ==
  /\ Take
  /\ UNCHANGED <<lifeVars, userVars, rxVars, req, mutex, done, cnt, dirty>>

\* A piece of log (its place among the answers does not matter). kernel_write
\* has advanced the position when the callback adds the length again; a failed
\* write changes nothing, and a full log takes no more.
RxLog(f) ==
  /\ Receiving /\ rx = "idle"
  /\ \/ pos[f] < MaxLog /\ pos' = [pos EXCEPT ![f] = @ + 1 + 1]
     \/ UNCHANGED pos
  /\ UNCHANGED <<lifeVars, userVars, notif, pm, pm_pos, rx, fwVars, mutex, done, cnt, dirty>>

RxAnswer(m) ==
  /\ Take /\ m.kind = "answer"
  /\ notif' = [cmd |-> m.cmd, ok |-> m.ok, cont |-> m.id]
  /\ rx' = "complete"
  /\ UNCHANGED <<lifeVars, userVars, pos, pm, pm_pos, req, mutex, done, cnt, dirty>>

\* Header of the stored answer and position after a piece of power data.
Collected(m, last) ==
  /\ pm_pos' = IF last THEN 0 ELSE pm_pos + 1
  /\ notif' = IF last THEN [notif EXCEPT !.cmd = m.cmd, !.ok = m.ok] ELSE notif
  /\ rx' = IF last THEN "complete" ELSE "idle"

\* Mutant of RxPower: every piece completes the command.
RxPowerEach(m) ==
  /\ Take /\ m.kind = "power" /\ m.ok
  /\ pm' = [pm EXCEPT ![pm_pos + 1] = <<m.id, m.piece>>]
  /\ pm_pos' = IF pm_pos + 1 >= Pieces THEN 0 ELSE pm_pos + 1
  /\ notif' = [notif EXCEPT !.cmd = m.cmd, !.ok = m.ok] /\ rx' = "complete"
  /\ UNCHANGED <<lifeVars, userVars, pos, req, mutex, done, cnt, dirty>>

\* Mutant of RxPower: the last piece is not recognised.
RxPowerPast(m) ==
  /\ Take /\ m.kind = "power" /\ m.ok
  /\ pm' = [pm EXCEPT ![pm_pos + 1] = <<m.id, m.piece>>]
  /\ Collected(m, pm_pos + 1 > Pieces)
  /\ UNCHANGED <<lifeVars, userVars, pos, req, mutex, done, cnt, dirty>>

\* Appended at pm_data_pos, which a new command does not reset.
RxPower(m) ==
  /\ Take /\ m.kind = "power" /\ m.ok
  /\ pm' = [pm EXCEPT ![pm_pos + 1] = <<m.id, m.piece>>]
  /\ Collected(m, pm_pos + 1 >= Pieces)
  /\ UNCHANGED <<lifeVars, userVars, pos, req, mutex, done, cnt, dirty>>

\* Mutant of RxPowerError: the position is not reset.
RxPowerErrorKeeps(m) ==
  /\ Take /\ m.kind = "power" /\ ~m.ok
  /\ notif' = [notif EXCEPT !.cmd = m.cmd, !.ok = m.ok] /\ rx' = "complete"
  /\ UNCHANGED <<lifeVars, userVars, pos, pm, pm_pos, req, mutex, done, cnt, dirty>>

RxPowerError(m) ==
  /\ Take /\ m.kind = "power" /\ ~m.ok
  /\ Collected(m, TRUE)
  /\ UNCHANGED <<lifeVars, userVars, pos, pm, req, mutex, done, cnt, dirty>>

RxComplete ==
  /\ rx = "complete"
  /\ done' = TRUE /\ rx' = "idle"
  /\ UNCHANGED <<lifeVars, userVars, pos, notif, pm, pm_pos, fwVars, mutex, cnt, dirty>>

\* What the callback does with the next message.
Handle(m) == RxAnswer(m) \/ RxPower(m) \/ RxPowerError(m)

Receive == RxComplete \/ (chan # <<>> /\ Handle(Head(chan)))

-----------------------------------------------------------------------------
(* Firmware and MEI (external): commands are answered in order, with       *)
(* success or an error, or not at all; messages arrive in order.           *)

\* The power data is complete, or ends early, with or without an error.
PowerAnswers(q) ==
  LET piece(p) == Message("power", q.cmd, q.id, p, TRUE)
  IN  {[p \in 1 .. k |-> piece(p)] : k \in 1 .. Pieces}
      \cup {Append([p \in 1 .. k |-> piece(p)], Message("power", q.cmd, q.id, 0, FALSE)) :
              k \in 0 .. Pieces - 1}

AnswersTo(q) ==
  IF q.cmd = "DUMP_POWER_DATA" THEN PowerAnswers(q)
  ELSE {<<Message("answer", q.cmd, q.id, 0, ok)>> : ok \in BOOLEAN}

FwAnswer ==
  /\ req # <<>> /\ Connected
  /\ req' = Tail(req)
  /\ \E a \in AnswersTo(Head(req)) \cup {<<>>} : chan' = chan \o a
  /\ UNCHANGED <<lifeVars, userVars, rxVars, mutex, done, cnt, dirty>>

Firmware == FwAnswer \/ RecvFails \/ \E f \in LogFiles : RxLog(f)

-----------------------------------------------------------------------------
(* Probe and remove.                                                       *)

others == <<userVars, rxVars, cnt, dirty>>

Life(from, to) == life = from /\ life' = to

\* Allocation and mei_cldev_enable may fail.
ProbeEnable ==
  /\ Life("off", "enabled") \/ Life("off", "freed")
  /\ UNCHANGED <<drv, files, others, fwVars, mutex, done>>

\* mei_cldev_disable (external) waits for the callback; nothing is received
\* after it.
Disabled == rx = "idle" /\ req' = <<>> /\ chan' = <<>>

ProbeRegister ==
  /\ \/ Life("enabled", "registered") /\ UNCHANGED fwVars
     \/ Life("enabled", "freed") /\ Disabled
  /\ UNCHANGED <<drv, files, others, mutex, done>>

\* filp_open of one file or two, while the callback may already run; when the
\* second fails the first is closed.
ProbeOpen ==
  /\ \/ drv = "pse" /\ Life("registered", "em") /\ files' = {"em"}
     \/ drv = "pse" /\ Life("em", "up") /\ files' = LogFiles
     \/ drv = "pse" /\ Life("em", "closing") /\ files' = {}
     \/ drv = "ad" /\ Life("registered", "up") /\ files' = LogFiles
     \/ Life("registered", "failing") /\ UNCHANGED files
  /\ UNCHANGED <<drv, others, fwVars, mutex, done>>

ProbeFailed ==
  /\ Life("closing", "freed") \/ Life("failing", "freed")
  /\ Disabled
  /\ UNCHANGED <<drv, files, others, mutex, done>>

RemoveComplete ==
  /\ Life("up", "completed")
  /\ done' = TRUE
  /\ UNCHANGED <<drv, files, others, fwVars, mutex>>

RemoveDisable ==
  /\ Life("completed", "disabled")
  /\ Disabled
  /\ UNCHANGED <<drv, files, others, mutex, done>>

\* debugfs_remove_recursive (external): no new operation begins, those under
\* way end.
RemoveHide ==
  /\ Life("disabled", "hidden")
  /\ UNCHANGED <<drv, files, others, fwVars, mutex, done>>

\* Mutant of RemoveDrain: operations under way are not awaited.
RemoveDrainUnsafe ==
  /\ Life("hidden", "drained")
  /\ UNCHANGED <<drv, files, others, fwVars, mutex, done>>

RemoveDrain ==
  /\ Life("hidden", "drained")
  /\ \A u \in Users : pc[u] = "idle"
  /\ UNCHANGED <<drv, files, others, fwVars, mutex, done>>

RemoveClose ==
  /\ Life("drained", "closed")
  /\ files' = {}
  /\ UNCHANGED <<drv, others, fwVars, mutex, done>>

\* The mutex is taken and released, then everything is freed.
RemoveFree ==
  /\ Life("closed", "freed")
  /\ mutex = None
  /\ UNCHANGED <<drv, files, others, fwVars, mutex, done>>

Remove == RemoveDisable \/ RemoveHide \/ RemoveDrain \/ RemoveClose \/ RemoveFree

Next ==
  \/ \E u \in Users : (\E c \in Cmds : Begin(u, c)) \/ Lock(u) \/ Operation(u)
  \/ Receive \/ Firmware
  \/ ProbeEnable \/ ProbeRegister \/ ProbeOpen \/ ProbeFailed
  \/ RemoveComplete \/ Remove

\* A user inside an operation is scheduled and its timeout expires; the mutex
\* passes nobody over for ever; the work item runs; remove, once begun, goes
\* on. Nothing is assumed of the firmware.
Fairness ==
  /\ \A u \in Users : WF_vars(Operation(u)) /\ SF_vars(Lock(u))
  /\ WF_vars(Receive)
  /\ WF_vars(Remove)

Spec == Init /\ [][Next]_vars
FairSpec == Spec /\ Fairness

-----------------------------------------------------------------------------
(* Properties.                                                             *)

\* Until a command fails that the firmware may answer late, or remove wakes a
\* user without an answer: the version a user reads with success is the answer
\* to its own command; the time, read after the mutex is released, is that or
\* the answer to a later command, never to an earlier one.
AnswerOwn ==
  \A u \in Users :
    (pc[u] = "idle" /\ res[u] = "ok" /\ ~dirty /\ life = "up")
      => /\ op[u] = "GET_FW_VER" => got[u] = num[u]
         /\ op[u] = "GET_TIME" => got[u] >= num[u]

\* Power data read with success consists of the pieces of the user's own
\* command, each in its place, but for those a later command overwrites while
\* they are read - not after a command failed: pm_data_pos then stays where the
\* missing pieces left it.
PowerWhole ==
  \A u \in Users : \A s \in DOMAIN seen[u] : \A p \in 1 .. Pieces :
    (~dirty /\ life = "up")
      => seen[u][s][p] = <<num[u], p>> \/ seen[u][s][p][1] > num[u]

\* Whatever fails, power data is only formatted when all of it was received at
\* some time: the sum of durations that is divided by is not that of an empty
\* buffer.
PowerFilled ==
  \A u \in Users : (pc[u] = "read" /\ op[u] = "DUMP_POWER_DATA") => \A p \in 1 .. Pieces : pm[p] # None

\* Memory is freed when no user is inside an operation and the callback does
\* not run; a bound driver's callback always finds its log files open.
Quiescent ==
  /\ life = "freed" => /\ \A u \in Users : pc[u] = "idle"
                       /\ rx = "idle" /\ mutex = None /\ files = {}
  /\ life \in {"up", "completed"} => files = LogFiles
  /\ rx # "idle" => Receiving

\* Every operation returns and every removal, from its complete to its kfree,
\* ends, with a firmware that may be silent: removal wakes the waiter, and
\* later ones time out.
Terminates ==
  /\ \A u \in Users : []<>(pc[u] = "idle")
  /\ []<>(life \notin {"completed", "disabled", "hidden", "drained", "closed"})
=============================================================================
