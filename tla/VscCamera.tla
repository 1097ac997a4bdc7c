----------------------------- MODULE VscCamera -----------------------------
(***************************************************************************)
(* The camera sensor hand-over of drivers/misc/ivsc: intel_vsc.c, which    *)
(* registers the CSI and ACE clients and runs vsc_acquire_camera_sensor    *)
(* and vsc_release_camera_sensor on them, and the command exchange, probe  *)
(* and removal of mei_csi.c and mei_ace.c.                                 *)
(*                                                                         *)
(* A command is known by its operation, so that a late answer can be told  *)
(* from the expected one: the code compares command numbers only.          *)
(***************************************************************************)
EXTENDS Naturals, Sequences, FiniteSets

CONSTANTS
  Users,    \* threads of the IPU driver
  MaxOps,   \* bound: operations a user starts
  None      \* nobody

ASSUME UsersAssumption == None \notin Users /\ MaxOps \in Nat

VARIABLES
  reg,      \* csi_registerred, ace_registerred
  life,     \* each client from before probe to after kfree
  vmutex,   \* vsc.mutex
  cmutex,   \* each client's cmd_mutex
  done,     \* the completions csi->response, ace->reply and ace->response
  got,      \* what csi->notif, ace->reply_notif and ace->cmd_resp hold
  cb,       \* csi->callback and handle: whose they are
  woken,    \* ace->init_wait_q_woken
  idreq,    \* a GET_FW_ID the firmware has not answered
  pc, op, k, ccmd, idok, ret,  \* each user: its place in its k-th operation
  toFw, fromFw,     \* messages under way, per client
  camOwner, csiOwner,  \* the firmware's own view
  last,     \* ghost: the last operation that held vsc.mutex
  disturbed \* ghost: an answer was lost, late or not waited for, or a client
            \* was removed

vscVars == <<reg, vmutex>>
clientVars == <<life, cmutex, done, got, cb, woken, idreq>>
userVars == <<pc, op, k, ccmd, idok, ret>>
wireVars == <<toFw, fromFw>>
fwVars == <<camOwner, csiOwner>>
vars == <<reg, vmutex, life, cmutex, done, got, cb, woken, idreq, pc, op, k,
          ccmd, idok, ret, toFw, fromFw, camOwner, csiOwner, last, disturbed>>

Clients == {"csi", "ace"}
Slots == {"response", "reply", "notify"}  \* csi->response, ace->reply, ace->response
Lives == {"absent", "live", "unreg", "woke", "disabled", "drained", "freed"}
Ops == {"acquire", "release"}
Cmds == {"set_owner", "set_mipi_conf", "ipu_own", "ace_own", "get_fw_id"}
Own == {"FW", "IPU"}
Messages == [cmd : Cmds, arg : Own, by : (Users \X (1 .. MaxOps)) \cup {None},
             ok : BOOLEAN]
\* Two client messages of ACE differ in their slot.
Answers == [slot : Slots, msg : Messages]

CsiPcs == {"cb", "csi_lock", "csi_send", "csi_wait"}
AcePcs == {"ace_id", "ace_lock", "ace_send", "ace_reply", "ace_notify"}

TypeOK ==
  /\ reg \in [Clients -> BOOLEAN]
  /\ life \in [Clients -> Lives]
  /\ vmutex \in Users \cup {None}
  /\ cmutex \in [Clients -> Users \cup {None}]
  /\ done \in [Slots -> BOOLEAN]
  /\ got \in [Slots -> Messages]
  /\ cb \in Users \cup {None}
  /\ woken \in BOOLEAN /\ idreq \in BOOLEAN
  /\ pc \in [Users -> CsiPcs \cup AcePcs \cup {"idle", "vlock", "uaf"}]
  /\ op \in [Users -> Ops]
  /\ k \in [Users -> 0 .. MaxOps]
  /\ ccmd \in [Users -> {"set_owner", "set_mipi_conf"}]
  /\ idok \in [Users -> BOOLEAN]
  /\ ret \in [Users -> {"none", "ok", "EAGAIN", "error"}]
  /\ toFw \in [Clients -> Seq(Messages)]
  /\ fromFw \in [Clients -> Seq(Answers)]
  /\ camOwner \in Own /\ csiOwner \in Own
  /\ last \in [op : Ops \cup {None}, by : Users \cup {None}, ok : BOOLEAN]
  /\ disturbed \in BOOLEAN

\* kzalloc'ed notifications: command number 0 is CSI_SET_OWNER and GET_FW_ID.
Zeroed ==
  [s \in Slots |-> [cmd |-> IF s = "response" THEN "set_owner" ELSE "get_fw_id",
                    arg |-> "FW", by |-> None, ok |-> TRUE]]

\* intel_vsc_init has run; no client has been probed.
Init ==
  /\ reg = [x \in Clients |-> FALSE]
  /\ life = [x \in Clients |-> "absent"]
  /\ vmutex = None
  /\ cmutex = [x \in Clients |-> None]
  /\ done = [s \in Slots |-> FALSE]
  /\ got = Zeroed
  /\ cb = None /\ woken = FALSE /\ idreq = FALSE
  /\ pc = [u \in Users |-> "idle"]
  /\ op = [u \in Users |-> "release"]
  /\ k = [u \in Users |-> 0]
  /\ ccmd = [u \in Users |-> "set_owner"]
  /\ idok = [u \in Users |-> FALSE]
  /\ ret = [u \in Users |-> "none"]
  /\ toFw = [x \in Clients |-> <<>>]
  /\ fromFw = [x \in Clients |-> <<>>]
  /\ camOwner = "FW" /\ csiOwner = "FW"
  /\ last = [op |-> None, by |-> None, ok |-> FALSE]
  /\ disturbed = FALSE

-----------------------------------------------------------------------------
(* mei_csi_probe and mei_ace_probe: an enabled client is registered.       *)

mei_csi_probe ==
  /\ life["csi"] = "absent"
  /\ life' = [life EXCEPT !["csi"] = "live"]
  /\ reg' = [reg EXCEPT !["csi"] = TRUE]
  /\ UNCHANGED <<vmutex, cmutex, done, got, cb, woken, idreq, userVars, wireVars, fwVars, last, disturbed>>

\* trigger_get_fw_id may fail; its result is ignored.
mei_ace_probe ==
  /\ life["ace"] = "absent"
  /\ life' = [life EXCEPT !["ace"] = "live"]
  /\ reg' = [reg EXCEPT !["ace"] = TRUE]
  /\ idreq' \in BOOLEAN
  /\ UNCHANGED <<vmutex, cmutex, done, got, cb, woken, userVars, wireVars, fwVars, last, disturbed>>

-----------------------------------------------------------------------------
(* vsc_acquire_camera_sensor and vsc_release_camera_sensor.                *)

Goto(u, p) == pc' = [pc EXCEPT ![u] = p]
Id(u) == <<u, k[u]>>
AceCmd(u) == IF op[u] = "acquire" THEN "ipu_own" ELSE "ace_own"
Owner(u) == IF op[u] = "acquire" THEN "IPU" ELSE "FW"
Command(u, c, good) == [cmd |-> c, arg |-> Owner(u), by |-> Id(u), ok |-> good]
Alive(x) == life[x] # "freed"
Enabled(x) == life[x] \in {"live", "unreg", "woke"}

\* check_component_ready, before the mutex.
Start(u, o) ==
  /\ pc[u] = "idle" /\ k[u] < MaxOps
  /\ op' = [op EXCEPT ![u] = o]
  /\ k' = [k EXCEPT ![u] = @ + 1]
  /\ IF reg["ace"] /\ reg["csi"]
       THEN Goto(u, "vlock") /\ UNCHANGED ret
       ELSE ret' = [ret EXCEPT ![u] = "EAGAIN"] /\ UNCHANGED pc
  /\ UNCHANGED <<vscVars, clientVars, ccmd, idok, wireVars, fwVars, last, disturbed>>

VscLock(u) ==
  /\ pc[u] = "vlock" /\ vmutex = None
  /\ vmutex' = u
  /\ Goto(u, "cb")
  /\ UNCHANGED <<reg, clientVars, op, k, ccmd, idok, ret, wireVars, fwVars, last, disturbed>>

csi_set_privacy_callback(u) ==
  /\ pc[u] = "cb" /\ Alive("csi")
  /\ cb' = IF op[u] = "acquire" THEN u ELSE None
  /\ ccmd' = [ccmd EXCEPT ![u] = "set_owner"]
  /\ Goto(u, IF op[u] = "acquire" THEN "ace_id" ELSE "csi_lock")
  /\ UNCHANGED <<vscVars, life, cmutex, done, got, woken, idreq, op, k, idok, ret, wireVars, fwVars, last, disturbed>>

\* The operation ends: client x's cmd_mutex and vsc.mutex are released.
\* Nothing that was done before a failure is undone.
Return(u, x, r) ==
  /\ cmutex' = [cmutex EXCEPT ![x] = None]
  /\ vmutex' = None
  /\ Goto(u, "idle")
  /\ ret' = [ret EXCEPT ![u] = r]
  /\ last' = [op |-> op[u], by |-> u, ok |-> r = "ok"]
  /\ UNCHANGED <<reg, ccmd>>

\* mei_ace: get_fw_id waits without a timeout; a signal sends it on with
\* whatever module id there is.
get_fw_id(u) ==
  /\ pc[u] = "ace_id" /\ Alive("ace")
  /\ woken
  /\ idok' = [idok EXCEPT ![u] = TRUE]
  /\ Goto(u, "ace_lock")
  /\ UNCHANGED <<vscVars, clientVars, op, k, ccmd, ret, wireVars, fwVars, last, disturbed>>

GetFwIdInterrupted(u) ==
  /\ pc[u] = "ace_id" /\ Alive("ace")
  /\ idok' = [idok EXCEPT ![u] = woken]
  /\ Goto(u, "ace_lock")
  /\ UNCHANGED <<vscVars, clientVars, op, k, ccmd, ret, wireVars, fwVars, last, disturbed>>

AceLock(u) ==
  /\ pc[u] = "ace_lock" /\ Alive("ace") /\ cmutex["ace"] = None
  /\ cmutex' = [cmutex EXCEPT !["ace"] = u]
  /\ Goto(u, "ace_send")
  /\ UNCHANGED <<vscVars, life, done, got, cb, woken, idreq, op, k, ccmd, idok, ret, wireVars, fwVars, last, disturbed>>

\* reinit_completion of both, then mei_cldev_send. A send that a signal
\* interrupts fails with its command queued: the answers come to nobody.
AceSend(u) ==
  /\ pc[u] = "ace_send" /\ Alive("ace")
  /\ done' = [done EXCEPT !["reply"] = FALSE, !["notify"] = FALSE]
  /\ \/ /\ Enabled("ace")
        /\ toFw' = [toFw EXCEPT !["ace"] =
             Append(@, Command(u, AceCmd(u), idok[u]))]
        /\ \/ /\ Goto(u, "ace_reply")
              /\ UNCHANGED <<vscVars, cmutex, ccmd, ret, last, disturbed>>
           \/ /\ Return(u, "ace", "error")
              /\ disturbed' = TRUE
     \/ Return(u, "ace", "error") /\ UNCHANGED <<toFw, disturbed>>
  /\ UNCHANGED <<life, got, cb, woken, idreq, op, k, idok, fromFw, fwVars>>

\* Where an operation goes when the ACE command succeeded.
AceSucceeded(u) ==
  IF op[u] = "release" THEN Return(u, "ace", "ok")
  ELSE /\ cmutex' = [cmutex EXCEPT !["ace"] = None]
       /\ ccmd' = [ccmd EXCEPT ![u] = "set_owner"]
       /\ Goto(u, "csi_lock")
       /\ UNCHANGED <<vscVars, ret, last>>

\* The reply must name the command and have status 0.
AceReply(u) ==
  /\ pc[u] = "ace_reply" /\ Alive("ace") /\ done["reply"]
  /\ done' = [done EXCEPT !["reply"] = FALSE]
  /\ IF got["reply"].cmd = AceCmd(u) /\ got["reply"].ok
       THEN Goto(u, "ace_notify") /\ UNCHANGED <<vscVars, cmutex, ccmd, ret, last>>
       ELSE Return(u, "ace", "error")
  /\ UNCHANGED <<life, got, cb, woken, idreq, op, k, idok, wireVars, fwVars, disturbed>>

\* The response must name the command; the camera status is copied from it.
AceNotify(u) ==
  /\ pc[u] = "ace_notify" /\ Alive("ace") /\ done["notify"]
  /\ done' = [done EXCEPT !["notify"] = FALSE]
  /\ IF got["notify"].cmd = AceCmd(u) THEN AceSucceeded(u)
                                      ELSE Return(u, "ace", "error")
  /\ UNCHANGED <<life, got, cb, woken, idreq, op, k, idok, wireVars, fwVars, disturbed>>

\* wait_for_completion_killable_timeout: 5 s have passed, or a fatal signal.
AceTimeout(u) ==
  /\ Alive("ace")
  /\ \/ pc[u] = "ace_reply" /\ ~done["reply"]
     \/ pc[u] = "ace_notify" /\ ~done["notify"]
  /\ Return(u, "ace", "error")
  /\ disturbed' = TRUE
  /\ UNCHANGED <<life, done, got, cb, woken, idreq, op, k, idok, wireVars, fwVars>>

-----------------------------------------------------------------------------
(* mei_csi: csi_set_owner and csi_set_mipi_conf through mei_csi_send.      *)

CsiLock(u) ==
  /\ pc[u] = "csi_lock" /\ Alive("csi") /\ cmutex["csi"] = None
  /\ cmutex' = [cmutex EXCEPT !["csi"] = u]
  /\ Goto(u, "csi_send")
  /\ UNCHANGED <<vscVars, life, done, got, cb, woken, idreq, op, k, ccmd, idok, ret, wireVars, fwVars, last, disturbed>>

\* As AceSend.
CsiSend(u) ==
  /\ pc[u] = "csi_send" /\ Alive("csi")
  /\ done' = [done EXCEPT !["response"] = FALSE]
  /\ \/ /\ Enabled("csi")
        /\ toFw' = [toFw EXCEPT !["csi"] =
             Append(@, Command(u, ccmd[u], TRUE))]
        /\ \/ /\ Goto(u, "csi_wait")
              /\ UNCHANGED <<vscVars, cmutex, ccmd, ret, last, disturbed>>
           \/ /\ Return(u, "csi", "error")
              /\ disturbed' = TRUE
     \/ Return(u, "csi", "error") /\ UNCHANGED <<toFw, disturbed>>
  /\ UNCHANGED <<life, got, cb, woken, idreq, op, k, idok, fromFw, fwVars>>

CsiSucceeded(u) ==
  IF ccmd[u] = "set_mipi_conf" THEN Return(u, "csi", "ok")
  ELSE /\ cmutex' = [cmutex EXCEPT !["csi"] = None]
       /\ ccmd' = [ccmd EXCEPT ![u] = "set_mipi_conf"]
       /\ Goto(u, IF op[u] = "acquire" THEN "csi_lock" ELSE "ace_id")
       /\ UNCHANGED <<vscVars, ret, last>>

\* Mutant of CsiResponse: the status of the answer is not looked at.
CsiIgnoresStatus(u) ==
  /\ pc[u] = "csi_wait" /\ Alive("csi") /\ done["response"]
  /\ done' = [done EXCEPT !["response"] = FALSE]
  /\ IF got["response"].cmd = ccmd[u] THEN CsiSucceeded(u)
                                      ELSE Return(u, "csi", "error")
  /\ UNCHANGED <<life, got, cb, woken, idreq, op, k, idok, wireVars, fwVars, disturbed>>

\* Status 0, or -1 for "privacy on", and the command number sent.
CsiResponse(u) ==
  /\ pc[u] = "csi_wait" /\ Alive("csi") /\ done["response"]
  /\ done' = [done EXCEPT !["response"] = FALSE]
  /\ IF got["response"].ok /\ got["response"].cmd = ccmd[u]
       THEN CsiSucceeded(u)
       ELSE Return(u, "csi", "error")
  /\ UNCHANGED <<life, got, cb, woken, idreq, op, k, idok, wireVars, fwVars, disturbed>>

\* Mutant of CsiTimeout: wait_for_completion instead of its timeout variant.
CsiWaitsForever(u) == CsiResponse(u)

CsiTimeout(u) ==
  /\ pc[u] = "csi_wait" /\ Alive("csi") /\ ~done["response"]
  /\ Return(u, "csi", "error")
  /\ disturbed' = TRUE
  /\ UNCHANGED <<life, done, got, cb, woken, idreq, op, k, idok, wireVars, fwVars>>

\* The thread goes on with a client that was freed: undefined behaviour, and
\* the end of the thread in this model.
UseAfterFree(u) ==
  /\ \/ pc[u] \in CsiPcs /\ life["csi"] = "freed"
     \/ pc[u] \in AcePcs /\ life["ace"] = "freed"
  /\ Goto(u, "uaf")
  /\ UNCHANGED <<vscVars, clientVars, op, k, ccmd, idok, ret, wireVars, fwVars, last, disturbed>>

-----------------------------------------------------------------------------
(* The firmware (external): commands of a client are handled in order, and *)
(* a bus reset loses messages.                                             *)

FwCsi(ok) ==
  /\ toFw["csi"] # <<>>
  /\ LET m == Head(toFw["csi"]) IN
       /\ csiOwner' = IF ok /\ m.cmd = "set_owner"
                        THEN m.arg ELSE csiOwner
       /\ toFw' = [toFw EXCEPT !["csi"] = Tail(@)]
       /\ fromFw' = [fromFw EXCEPT !["csi"] =
            Append(@, [slot |-> "response", msg |-> [m EXCEPT !.ok = ok]])]
  /\ UNCHANGED <<vscVars, clientVars, userVars, camOwner, last, disturbed>>

\* A command with a wrong module id is refused; a good one gets a reply and
\* then a notification with the camera status.
FwAce(ok) ==
  /\ toFw["ace"] # <<>>
  /\ LET m == Head(toFw["ace"])
         a == [slot |-> "reply", msg |-> [m EXCEPT !.ok = ok]] IN
       /\ ok => m.ok
       /\ camOwner' = IF ok THEN m.arg ELSE camOwner
       /\ toFw' = [toFw EXCEPT !["ace"] = Tail(@)]
       /\ fromFw' = [fromFw EXCEPT !["ace"] =
            @ \o (IF ok THEN <<a, [a EXCEPT !.slot = "notify"]>> ELSE <<a>>)]
  /\ UNCHANGED <<vscVars, clientVars, userVars, csiOwner, last, disturbed>>

Lose(x) ==
  /\ \/ /\ toFw[x] # <<>>
        /\ toFw' = [toFw EXCEPT ![x] = Tail(@)]
        /\ UNCHANGED fromFw
     \/ /\ fromFw[x] # <<>>
        /\ fromFw' = [fromFw EXCEPT ![x] = Tail(@)]
        /\ UNCHANGED toFw
  /\ disturbed' = TRUE
  /\ UNCHANGED <<vscVars, clientVars, userVars, fwVars, last>>

-----------------------------------------------------------------------------
(* mei_csi_rx and mei_ace_rx.                                              *)

Rx(x) ==
  /\ Enabled(x)
  /\ fromFw[x] # <<>>
  /\ LET a == Head(fromFw[x]) IN
       /\ got' = [got EXCEPT ![a.slot] = a.msg]
       /\ done' = [done EXCEPT ![a.slot] = TRUE]
  /\ fromFw' = [fromFw EXCEPT ![x] = Tail(@)]
  /\ UNCHANGED <<vscVars, life, cmutex, cb, woken, idreq, userVars, toFw, fwVars, last, disturbed>>

\* The answer to GET_FW_ID wakes the threads in get_fw_id.
RxFwId ==
  /\ Enabled("ace") /\ idreq
  /\ woken' = TRUE
  /\ idreq' = FALSE
  /\ UNCHANGED <<vscVars, life, cmutex, done, got, cb, userVars, wireVars, fwVars, last, disturbed>>

\* FW_READY: handle_notify asks for the id again.
RxFwReady ==
  /\ Enabled("ace") /\ ~idreq
  /\ idreq' = TRUE
  /\ UNCHANGED <<vscVars, life, cmutex, done, got, cb, woken, userVars, wireVars, fwVars, last, disturbed>>

-----------------------------------------------------------------------------
(* mei_csi_remove and mei_ace_remove.                                      *)

SlotsOf(x) == IF x = "csi" THEN {"response"} ELSE {"reply", "notify"}

Advance(x, from, to) ==
  /\ life[x] = from
  /\ life' = [life EXCEPT ![x] = to]

\* Mutant of Unregister: the flag is overwritten like a pointer.
UnregisterNull(x) ==
  /\ Advance(x, "live", "unreg")
  /\ reg' = [reg EXCEPT ![x] = None]
  /\ disturbed' = TRUE
  /\ UNCHANGED <<vmutex, cmutex, done, got, cb, woken, idreq, userVars, wireVars, fwVars, last>>

\* vsc_unregister_x clears the flag; the pointers stay.
Unregister(x) ==
  /\ Advance(x, "live", "unreg")
  /\ reg' = [reg EXCEPT ![x] = FALSE]
  /\ disturbed' = TRUE
  /\ UNCHANGED <<vmutex, cmutex, done, got, cb, woken, idreq, userVars, wireVars, fwVars, last>>

\* The completions are completed. Waking init_wait_q has no effect: its
\* sleepers find init_wait_q_woken still false and sleep again.
CompleteAll(x) ==
  /\ Advance(x, "unreg", "woke")
  /\ done' = [s \in Slots |-> s \in SlotsOf(x) \/ done[s]]
  /\ UNCHANGED <<vscVars, cmutex, got, cb, woken, idreq, userVars, wireVars, fwVars, last, disturbed>>

\* mei_cldev_disable: nothing is sent or received any more.
Disable(x) ==
  /\ Advance(x, "woke", "disabled")
  /\ toFw' = [toFw EXCEPT ![x] = <<>>]
  /\ fromFw' = [fromFw EXCEPT ![x] = <<>>]
  /\ UNCHANGED <<vscVars, cmutex, done, got, cb, woken, idreq, userVars, fwVars, last, disturbed>>

\* Mutant of WaitUntilNoAccess: removal waits for vsc.mutex as well.
WaitForVsc(x) ==
  /\ Advance(x, "disabled", "drained")
  /\ cmutex[x] = None /\ vmutex = None
  /\ UNCHANGED <<vscVars, cmutex, done, got, cb, woken, idreq, userVars, wireVars, fwVars, last, disturbed>>

\* "wait until no buffer access": cmd_mutex is locked and unlocked.
WaitUntilNoAccess(x) ==
  /\ Advance(x, "disabled", "drained")
  /\ cmutex[x] = None
  /\ UNCHANGED <<vscVars, cmutex, done, got, cb, woken, idreq, userVars, wireVars, fwVars, last, disturbed>>

Free(x) ==
  /\ Advance(x, "drained", "freed")
  /\ UNCHANGED <<vscVars, cmutex, done, got, cb, woken, idreq, userVars, wireVars, fwVars, last, disturbed>>

Remove(x) ==
  CompleteAll(x) \/ Disable(x) \/ WaitUntilNoAccess(x) \/ Free(x)

-----------------------------------------------------------------------------
\* The steps a user's thread takes without help from the firmware.
Thread(u) ==
  \/ csi_set_privacy_callback(u)
  \/ get_fw_id(u) \/ AceLock(u) \/ AceSend(u) \/ AceReply(u) \/ AceNotify(u) \/ AceTimeout(u)
  \/ CsiLock(u) \/ CsiSend(u) \/ CsiResponse(u) \/ CsiTimeout(u)
  \/ UseAfterFree(u)

Firmware ==
  \/ \E ok \in BOOLEAN : FwCsi(ok) \/ FwAce(ok)
  \/ RxFwId \/ RxFwReady
  \/ \E x \in Clients : Lose(x) \/ Rx(x)

Next ==
  \/ mei_csi_probe \/ mei_ace_probe
  \/ \E u \in Users :
       (\E o \in Ops : Start(u, o)) \/ VscLock(u) \/ GetFwIdInterrupted(u) \/ Thread(u)
  \/ Firmware
  \/ \E x \in Clients : Unregister(x) \/ Remove(x)

\* Threads run and their timeouts expire, mutexes are handed over, and a
\* removal that started goes on. Nothing is assumed of the firmware.
Fairness ==
  /\ \A u \in Users : WF_vars(Thread(u)) /\ SF_vars(VscLock(u))
  /\ \A x \in Clients : WF_vars(Remove(x)) /\ SF_vars(WaitUntilNoAccess(x))

Spec == Init /\ [][Next]_vars
FairSpec == Spec /\ Fairness

-----------------------------------------------------------------------------
(* Properties.                                                             *)

\* When the last operation succeeded and nothing was lost, late or removed,
\* the firmware's two owners and the privacy callback all agree with it,
\* whatever operations failed half way before.
OwnershipAgrees ==
  (vmutex = None /\ last.ok /\ ~disturbed) =>
    IF last.op = "acquire"
      THEN camOwner = "IPU" /\ csiOwner = "IPU" /\ cb = last.by
      ELSE camOwner = "FW" /\ csiOwner = "FW" /\ cb = None

\* Once the firmware id is known, acquire and release return whatever the
\* firmware does, also while the clients are removed under them (a thread
\* that ran into a freed client excepted). Before that, get_fw_id may wait
\* for ever with vsc.mutex held.
OperationReturns ==
  \A u \in Users :
    (pc[u] = "vlock" /\ woken) ~> (pc[u] = "idle" \/ \E v \in Users : pc[v] = "uaf")

\* Removing a client ends, even with a command of it under way and the
\* firmware silent.
RemovalEnds == \A x \in Clients : life[x] = "unreg" ~> life[x] = "freed"

\* mei_csi.c:407 and mei_ace.c:540 say of the cmd_mutex taken before kfree
\* "wait until no buffer access", intel_vsc.c:151 and 201 "no need check
\* component again here": no thread goes on to use a client that was freed.
NoAccessAfterFree == \A u \in Users : pc[u] # "uaf"
=============================================================================
