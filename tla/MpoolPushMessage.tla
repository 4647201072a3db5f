--------------------------- MODULE MpoolPushMessage ---------------------------
(***************************************************************************)
(* Sending a message: the miner's wrapper gives each call of               *)
(* MpoolPushMessage a uuid and retries it when the connection to the       *)
(* daemon is lost; the daemon's handler looks the uuid up, takes the       *)
(* sender's push lock, and lets the MessageSigner choose a nonce, push the *)
(* signed message to the message pool and save the nonce.                  *)
(*                                                                         *)
(* The message pool is its history of accepted messages; the nonce it      *)
(* reports counts messages it accepted, and may fall back (it is cleared   *)
(* or pruned, the chain is reorganised, a lite node sees the chain only).  *)
(***************************************************************************)
EXTENDS Integers

CONSTANTS
  Call,       \* calls of MpoolPushMessage, each with a message of its own
  Tagged,     \* those that come through the miner's wrapper and have a uuid
  Addr, From,
  MaxTries,   \* attempts of the wrapper
  MaxForeign, \* bound: the nonces of messages signed elsewhere are below it
  NONE

Handler == Call \X (1 .. MaxTries)
Message == [call : Call \cup {NONE}, from : Addr, nonce : Nat]

ASSUME PushAssumption ==
  /\ Tagged \subseteq Call
  /\ From \in [Call -> Addr]
  /\ MaxTries \in Nat \ {0}
  /\ MaxForeign \in Nat
  /\ NONE \notin Call
  /\ NONE \notin Nat
  /\ NONE \notin Call \X (1 .. MaxTries)
  /\ NONE \notin [call : Call \cup {NONE}, from : Addr, nonce : Nat]

VARIABLES
  status, tries,  \* the wrapper: of each call, and the attempts made
  pc, nonce,      \* the daemon's handler of each attempt
  pushLock,       \* PushLocks: who has the lock of each address
  lk,             \* MessageSigner.lk
  dsNonce,        \* the next nonce saved for each address, 0 when there is none
  stored,         \* the signed message saved under the uuid of each call
  accepted,       \* history: the messages the pool accepted
  returned,       \* history: the messages returned to callers
  unsure          \* history: the calls that were retried before the handlers
                  \* of the earlier attempts had returned, and those whose
                  \* message was stored and could not be read

client == <<status, tries>>
locks  == <<pushLock, lk>>
disk   == <<dsNonce, stored>>
vars   == <<client, pc, nonce, locks, disk, accepted, returned, unsure>>

Msg(c, n) == [call |-> c, from |-> From[c], nonce |-> n]
call(h)   == h[1]
addr(h)   == From[call(h)]

Signing == {"push", "save"}
Locking == {"estimate", "sign", "store"} \cup Signing
Active  == {"check", "lock"} \cup Locking

Init ==
  /\ status = [c \in Call |-> "idle"]
  /\ tries = [c \in Call |-> 0]
  /\ pc = [h \in Handler |-> "none"]
  /\ nonce = [h \in Handler |-> 0]
  /\ pushLock = [a \in Addr |-> NONE]
  /\ lk = NONE
  /\ dsNonce = [a \in Addr |-> 0]
  /\ stored = [c \in Call |-> NONE]
  /\ accepted = {}
  /\ returned = {}
  /\ unsure = {}

----------------------------------------------------------------------------
(* The wrapper. *)

(* The first attempt, and the next one after the connection was lost. *)
Try(c) ==
  /\ status[c] \in {"idle", "lost"}
  /\ status' = [status EXCEPT ![c] = "waiting"]
  /\ tries' = [tries EXCEPT ![c] = @ + 1]
  /\ pc' = [pc EXCEPT ![<<c, tries[c] + 1>>] = "check"]
  /\ unsure' = IF \A h \in Handler : call(h) = c => pc[h] \in {"none", "returned"}
               THEN unsure ELSE unsure \cup {c}
  /\ UNCHANGED <<nonce, locks, disk, accepted, returned>>

(* The connection is lost; what the handler does, or answered, is not      *)
(* known.  Calls without a uuid are not retried.                           *)
ConnectionLost(c) ==
  /\ status[c] = "waiting"
  /\ status' = [status EXCEPT ![c] =
                  IF c \in Tagged /\ tries[c] < MaxTries THEN "lost" ELSE "failed"]
  /\ UNCHANGED <<tries, pc, nonce, locks, disk, accepted, returned, unsure>>

(* The answer of the last attempt arrives. *)
Answered(c) ==
  /\ status[c] = "waiting"
  /\ pc[<<c, tries[c]>>] \in {"returned", "failed"}
  /\ status' = [status EXCEPT ![c] =
                  IF pc[<<c, tries[c]>>] = "returned" THEN "done" ELSE "failed"]
  /\ UNCHANGED <<tries, pc, nonce, locks, disk, accepted, returned, unsure>>

----------------------------------------------------------------------------
(* The handler. *)

Goto(h, loc) == pc' = [pc EXCEPT ![h] = loc]

Unlock(h) ==
  /\ pushLock' = [a \in Addr |-> IF pushLock[a] = h THEN NONE ELSE pushLock[a]]
  /\ lk' = IF lk = h THEN NONE ELSE lk

Processed(c) == c \in Tagged /\ stored[c] # NONE

(* A uuid that was processed is answered with its message.  When reading   *)
(* the datastore fails the call goes on as if it were new.                 *)
CheckUuid(h) ==
  /\ pc[h] = "check"
  /\ \/ /\ Processed(call(h))
        /\ returned' = returned \cup {stored[call(h)]}
        /\ Goto(h, "returned")
        /\ UNCHANGED unsure
     \/ /\ unsure' = IF Processed(call(h)) THEN unsure \cup {call(h)} ELSE unsure
        /\ Goto(h, "lock")
        /\ UNCHANGED returned
  /\ UNCHANGED <<client, nonce, locks, disk, accepted>>

TakeLock(h) ==
  /\ pc[h] = "lock"
  /\ pushLock[addr(h)] = NONE
  /\ pushLock' = [pushLock EXCEPT ![addr(h)] = h]
  /\ Goto(h, "estimate")
  /\ UNCHANGED <<client, nonce, lk, disk, accepted, returned, unsure>>

(* Gas is estimated and the balance looked at. *)
Estimate(h) ==
  /\ pc[h] = "estimate"
  /\ Goto(h, "sign")
  /\ UNCHANGED <<client, nonce, locks, disk, accepted, returned, unsure>>

HasAll(a, m) ==
  \A n \in 0 .. m - 1 : \E x \in accepted : x.from = a /\ x.nonce = n

(* Mutant: the pool's nonce is preferred to the saved one. *)
nextNonceOfPool(a, m) == m

nextNonce(a, m) == IF m <= dsNonce[a] THEN dsNonce[a] ELSE m

(* The pool reports a nonce m.  Signing takes no other state. *)
Sign(h, m) ==
  /\ pc[h] = "sign"
  /\ lk = NONE
  /\ HasAll(addr(h), m)
  /\ lk' = h
  /\ nonce' = [nonce EXCEPT ![h] = nextNonce(addr(h), m)]
  /\ Goto(h, "push")
  /\ UNCHANGED <<client, pushLock, disk, accepted, returned, unsure>>

(* Mutant: the nonce of a push that fails is used up. *)
PushSavesNonce(h) ==
  /\ pc[h] = "push"
  /\ \/ /\ accepted' = accepted \cup {Msg(call(h), nonce[h])}
        /\ Goto(h, "save")
        /\ UNCHANGED <<locks, dsNonce>>
     \/ /\ Goto(h, "failed")
        /\ Unlock(h)
        /\ dsNonce' = [dsNonce EXCEPT ![addr(h)] = nonce[h] + 1]
        /\ UNCHANGED accepted
  /\ UNCHANGED <<client, nonce, stored, returned, unsure>>

(* The pool accepts the message or not; it may also accept it and fail to  *)
(* publish it.                                                             *)
Push(h) ==
  /\ pc[h] = "push"
  /\ \/ /\ accepted' = accepted \cup {Msg(call(h), nonce[h])}
        /\ Goto(h, "save")
        /\ UNCHANGED locks
     \/ /\ accepted' \in {accepted, accepted \cup {Msg(call(h), nonce[h])}}
        /\ Goto(h, "failed")
        /\ Unlock(h)
  /\ UNCHANGED <<client, nonce, disk, returned, unsure>>

saveNonce(h) ==
  /\ pc[h] = "save"
  /\ dsNonce' = [dsNonce EXCEPT ![addr(h)] = nonce[h] + 1]
  /\ lk' = NONE
  /\ Goto(h, "store")
  /\ UNCHANGED <<client, nonce, pushLock, stored, accepted, returned, unsure>>

(* Mutant: the message is not kept under its uuid. *)
StoreNothing(h) ==
  /\ pc[h] = "store"
  /\ UNCHANGED stored
  /\ returned' = returned \cup {Msg(call(h), nonce[h])}
  /\ Goto(h, "returned")
  /\ Unlock(h)
  /\ UNCHANGED <<client, nonce, dsNonce, accepted, unsure>>

Store(h) ==
  /\ pc[h] = "store"
  /\ stored' = IF call(h) \in Tagged
               THEN [stored EXCEPT ![call(h)] = Msg(call(h), nonce[h])]
               ELSE stored
  /\ returned' = returned \cup {Msg(call(h), nonce[h])}
  /\ Goto(h, "returned")
  /\ Unlock(h)
  /\ UNCHANGED <<client, nonce, dsNonce, accepted, unsure>>

(* Mutant: an error path that leaves the locks locked. *)
FailsLocked(h) ==
  /\ pc[h] \in Active \ {"check", "push"}
  /\ Goto(h, "failed")
  /\ UNCHANGED <<client, nonce, locks, disk, accepted, returned, unsure>>

(* Any other call fails, the end of the context while it waits for the     *)
(* lock included.  The deferred unlocks run.                               *)
Fails(h) ==
  /\ pc[h] \in Active \ {"check", "push"}
  /\ Goto(h, "failed")
  /\ Unlock(h)
  /\ UNCHANGED <<client, nonce, disk, accepted, returned, unsure>>

HandlerStep(h) ==
  \/ CheckUuid(h) \/ TakeLock(h) \/ Estimate(h)
  \/ \E m \in {0} \cup {x.nonce + 1 : x \in accepted} : Sign(h, m)
  \/ Push(h) \/ saveNonce(h) \/ Store(h)

----------------------------------------------------------------------------
(* The daemon dies and is started again: the handlers and their locks are  *)
(* gone, the datastore and the pool's messages remain.                     *)
Crash ==
  /\ \E h \in Handler : pc[h] \in Active
  /\ pc' = [h \in Handler |-> IF pc[h] \in Active THEN "killed" ELSE pc[h]]
  /\ pushLock' = [a \in Addr |-> NONE]
  /\ lk' = NONE
  /\ UNCHANGED <<client, nonce, disk, accepted, returned, unsure>>

(* A message of the address, signed elsewhere, reaches the pool. *)
Foreign(a, n) ==
  /\ accepted' = accepted \cup {[call |-> NONE, from |-> a, nonce |-> n]}
  /\ UNCHANGED <<client, pc, nonce, locks, disk, returned, unsure>>

Next ==
  \/ \E c \in Call : Try(c) \/ ConnectionLost(c) \/ Answered(c)
  \/ \E h \in Handler : HandlerStep(h) \/ Fails(h)
  \/ Crash
  \/ \E a \in Addr, n \in 0 .. MaxForeign - 1 : Foreign(a, n)

Spec == Init /\ [][Next]_vars

(* Handlers run, and nobody is obliged to fail.  A lost or killed attempt  *)
(* is noticed and retried.                                                 *)
FairSpec ==
  /\ Spec
  /\ \A h \in Handler : WF_vars(HandlerStep(h))
  /\ \A c \in Call : /\ WF_vars(status[c] = "lost" /\ Try(c))
                     /\ WF_vars(Answered(c))
                     /\ WF_vars(/\ status[c] = "waiting"
                                /\ pc[<<c, tries[c]>>] = "killed"
                                /\ ConnectionLost(c))

----------------------------------------------------------------------------
(* Properties *)

(* Every variable has its type. *)
TypeOK ==
  /\ status \in [Call -> {"idle", "waiting", "lost", "done", "failed"}]
  /\ tries \in [Call -> 0 .. MaxTries]
  /\ pc \in [Handler -> Active \cup {"none", "returned", "failed", "killed"}]
  /\ nonce \in [Handler -> Nat]
  /\ pushLock \in [Addr -> Handler \cup {NONE}]
  /\ lk \in Handler \cup {NONE}
  /\ dsNonce \in [Addr -> Nat]
  /\ stored \in [Call -> Message \cup {NONE}]
  /\ accepted \subseteq Message
  /\ returned \subseteq Message
  /\ unsure \subseteq Call

(* Messages of different calls that were returned to their callers never   *)
(* have the sender and the nonce in common, whatever nonces the pool       *)
(* reports, and whatever handler or daemon fails at which moment.          *)
NonceOnce ==
  \A x, y \in returned : x.from = y.from /\ x.nonce = y.nonce => x = y

(* A call that fails leaves no gap: every nonce below the saved one is the *)
(* nonce of a message that the pool accepted.                              *)
NoGap == \A a \in Addr : HasAll(a, dsNonce[a])

(* The code keeps that promise when only answers are lost: a second        *)
(* message takes a retry that did not wait for the handlers before it, the *)
(* failed and killed ones included, or a stored message not read.          *)
OnceWhenSure ==
  \A x, y \in accepted :
    x.call \in Tagged \ unsure /\ x.call = y.call => x = y

(* Every call ends: no path of a handler leaves a lock locked. *)
CallsEnd ==
  \A c \in Call : status[c] = "waiting" ~> status[c] \in {"done", "failed"}

----------------------------------------------------------------------------
(* The inductive invariant. *)

(* A handler is run by the attempt it belongs to, once. *)
Attempts ==
  \A c \in Call :
    /\ status[c] = "idle" => tries[c] = 0
    /\ status[c] = "lost" => tries[c] < MaxTries
    /\ \A k \in 1 .. MaxTries : k > tries[c] => pc[<<c, k>>] = "none"

(* The signer's lock is held from the choice of a nonce to its saving, so  *)
(* that the nonce is not below the saved one meanwhile.                    *)
Signer ==
  \A h \in Handler :
    /\ pc[h] \in Signing => /\ lk = h
                            /\ dsNonce[addr(h)] <= nonce[h]
                            /\ HasAll(addr(h), nonce[h])
    /\ pc[h] = "save" => Msg(call(h), nonce[h]) \in accepted

(* The messages whose nonce has been saved. *)
Saved ==
  returned \cup {stored[c] : c \in {d \in Call : stored[d] # NONE}}
           \cup {Msg(call(h), nonce[h]) : h \in {g \in Handler : pc[g] = "store"}}

SavedOnce ==
  /\ \A x \in Saved : x \in Message /\ x.nonce < dsNonce[x.from]
  /\ \A x, y \in Saved : x.from = y.from /\ x.nonce = y.nonce => x = y

IInv == TypeOK /\ Attempts /\ Signer /\ SavedOnce /\ NoGap

(* For OnceWhenSure: of the handlers of a call that is not unsure at most  *)
(* one is at work, and it sends its message only if none was sent before.  *)
Before  == {"none", "check", "lock", "estimate", "sign", "push"}
Sending == {"lock", "estimate", "sign", "push"}
Passive == {"none", "returned"}
Sent(c) == {x \in accepted : x.call = c}

Sure ==
  \A c \in Tagged \ unsure :
    /\ \A x, y \in Sent(c) : x = y
    /\ stored[c] # NONE => Sent(c) \subseteq {stored[c]}
    /\ (\A h \in Handler : call(h) = c => pc[h] \in Before) => Sent(c) = {}
    /\ \A h \in Handler : call(h) = c =>
         /\ pc[h] = "returned" => stored[c] # NONE
         /\ pc[h] \in Sending => stored[c] = NONE
         /\ pc[h] \in {"save", "store"} => Sent(c) \subseteq {Msg(c, nonce[h])}
         /\ \A g \in Handler \ {h} :
              call(g) = c => pc[h] \in Passive \/ pc[g] \in Passive

=============================================================================
