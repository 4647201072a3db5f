------------------------ MODULE MpoolPushMessageProofs ------------------------
(***************************************************************************)
(* For any number of callers, senders, attempts and nonces reported by the *)
(* message pool: returned messages have nonces of their own, and no nonce  *)
(* is skipped.                                                             *)
(***************************************************************************)
EXTENDS MpoolPushMessage, TLAPS

(* What a handler and its message are. *)
LEMMA HandlerFacts ==
  ASSUME NEW h \in Handler
  PROVE  /\ call(h) \in Call /\ addr(h) \in Addr /\ h # NONE
         /\ h[2] \in 1 .. MaxTries /\ h = <<call(h), h[2]>>
BY PushAssumption DEF Handler, call, addr

LEMMA MsgFacts ==
  ASSUME NEW c \in Call, NEW n \in Nat
  PROVE  /\ Msg(c, n) \in Message
         /\ Msg(c, n).from = From[c] /\ Msg(c, n).nonce = n
         /\ Msg(c, n).call = c
BY PushAssumption, Zenon DEF Msg, Message

LEMMA MessageFields ==
  ASSUME NEW x \in Message
  PROVE  x.from \in Addr /\ x.nonce \in Nat /\ x # NONE
BY PushAssumption, Zenon DEF Message

(* The pool's history only grows. *)
LEMMA HasAllGrows ==
  ASSUME accepted \subseteq accepted', NEW a, NEW m, HasAll(a, m)
  PROVE  HasAll(a, m)'
BY Zenon DEF HasAll

(* The initial state. *)
LEMMA InitIInv == Init => IInv
<1> SUFFICES ASSUME Init PROVE IInv
  BY Zenon
<1>1. TypeOK
  BY PushAssumption DEF Init, TypeOK
<1>2. Attempts
  <2> SUFFICES ASSUME NEW c \in Call, NEW k \in 1 .. MaxTries
               PROVE  pc[<<c, k>>] = "none"
    BY Zenon DEF Init, Attempts
  <2> QED
    BY Zenon DEF Init, Handler
<1>3. Signer
  BY Zenon DEF Init, Signer, Signing
<1>4. Saved = {}
  BY Zenon DEF Init, Saved
<1>5. SavedOnce
  BY <1>4, Zenon DEF SavedOnce
<1>6. NoGap
  <2> SUFFICES ASSUME NEW a \in Addr PROVE HasAll(a, 0)
    BY Zenon DEF Init, NoGap
  <2> QED
    BY DEF HasAll
<1> QED
  BY <1>1, <1>2, <1>3, <1>5, <1>6, Zenon DEF IInv

----------------------------------------------------------------------------
(* Steps that save no nonce. *)

LEMMA SavedKept ==
  ASSUME IInv, accepted \subseteq accepted', dsNonce' = dsNonce,
         Saved' \subseteq Saved
  PROVE  SavedOnce' /\ NoGap'
<1>1. SavedOnce'
  BY Zenon DEF IInv, SavedOnce
<1>2. NoGap'
  BY HasAllGrows, Zenon DEF IInv, NoGap
<1> QED
  BY <1>1, <1>2, Zenon

LEMMA SignerKept ==
  ASSUME IInv, accepted \subseteq accepted', dsNonce' = dsNonce, nonce' = nonce,
         \A h \in Handler : pc'[h] \in Signing => pc'[h] = pc[h] /\ lk' = lk
  PROVE  Signer'
<1> SUFFICES ASSUME NEW h \in Handler, pc'[h] \in Signing
             PROVE  /\ lk' = h
                    /\ dsNonce'[addr(h)] <= nonce'[h]
                    /\ HasAll(addr(h), nonce[h])'
                    /\ pc'[h] = "save" => Msg(call(h), nonce'[h]) \in accepted'
  BY Zenon DEF Signer, Signing, addr, call, Msg
<1>1. /\ lk = h /\ dsNonce[addr(h)] <= nonce[h] /\ HasAll(addr(h), nonce[h])
      /\ pc[h] = "save" => Msg(call(h), nonce[h]) \in accepted
  BY Zenon DEF IInv, Signer
<1>2. HasAll(addr(h), nonce[h])'
  BY <1>1, Zenon DEF HasAll, addr, call
<1> QED
  BY <1>1, <1>2, Zenon

(* A handler moves on and no attempt is made. *)
LEMMA AttemptsKept ==
  ASSUME IInv, tries' = tries,
         \A c \in Call : /\ status'[c] = "idle" => status[c] = "idle"
                         /\ status'[c] = "lost" => tries[c] < MaxTries,
         \A h \in Handler : pc[h] = "none" => pc'[h] = "none"
  PROVE  Attempts'
<1> SUFFICES ASSUME NEW c \in Call
             PROVE  /\ status'[c] = "idle" => tries'[c] = 0
                    /\ status'[c] = "lost" => tries'[c] < MaxTries
                    /\ \A k \in 1 .. MaxTries :
                         k > tries'[c] => pc'[<<c, k>>] = "none"
  BY Zenon DEF Attempts
<1>1. \A k \in 1 .. MaxTries : <<c, k>> \in Handler
  BY Zenon DEF Handler
<1> QED
  BY <1>1, Zenon DEF IInv, Attempts

(* Which messages are saved depends on these only. *)
LEMMA SavedSame ==
  ASSUME returned' = returned, stored' = stored, nonce' = nonce,
         \A h \in Handler : pc'[h] = "store" => pc[h] = "store"
  PROVE  Saved' \subseteq Saved
BY Zenon DEF Saved, Msg, call

----------------------------------------------------------------------------
(* The wrapper's steps. *)

LEMMA TryIInv ==
  ASSUME IInv, NEW c \in Call, Try(c)
  PROVE  IInv'
<1>1. tries[c] < MaxTries /\ tries[c] \in Nat
  BY PushAssumption DEF IInv, TypeOK, Attempts, Try
<1>2. <<c, tries[c] + 1>> \in Handler
  BY <1>1, PushAssumption DEF Handler
<1>3. \A h \in Handler : pc'[h] # pc[h] => h = <<c, tries[c] + 1>> /\ pc'[h] = "check"
  BY <1>2, Zenon DEF IInv, TypeOK, Try
<1>4. TypeOK'
  <2>1. tries' \in [Call -> 0 .. MaxTries]
    BY <1>1, PushAssumption DEF IInv, TypeOK, Try
  <2>2. pc' \in [Handler -> Active \cup {"none", "returned", "failed", "killed"}]
    BY <1>2, Zenon DEF IInv, TypeOK, Try, Active
  <2>3. status' \in [Call -> {"idle", "waiting", "lost", "done", "failed"}]
    BY Zenon DEF IInv, TypeOK, Try
  <2> QED
    BY <2>1, <2>2, <2>3, Zenon DEF IInv, TypeOK, Try, locks, disk
<1>5. Attempts'
  <2> SUFFICES ASSUME NEW d \in Call
               PROVE  /\ status'[d] = "idle" => tries'[d] = 0
                      /\ status'[d] = "lost" => tries'[d] < MaxTries
                      /\ \A k \in 1 .. MaxTries :
                           k > tries'[d] => pc'[<<d, k>>] = "none"
    BY Zenon DEF Attempts
  <2>1. \A k \in 1 .. MaxTries : <<d, k>> \in Handler
    BY Zenon DEF Handler
  <2>2. CASE d = c
    <3>1. status'[d] = "waiting" /\ tries'[d] = tries[c] + 1
      BY <2>2, Zenon DEF IInv, TypeOK, Try
    <3>2. ASSUME NEW k \in 1 .. MaxTries, k > tries'[d]
          PROVE  pc'[<<d, k>>] = "none"
      <4>1. k > tries[c] /\ <<d, k>> # <<c, tries[c] + 1>>
        BY <1>1, <3>1, <3>2
      <4>2. pc[<<d, k>>] = "none"
        BY <4>1, <2>2, Zenon DEF IInv, Attempts
      <4> QED
        BY <4>1, <4>2, <2>1, <1>3, Zenon
    <3> QED
      BY <3>1, <3>2, Zenon
  <2>3. CASE d # c
    <3>1. status'[d] = status[d] /\ tries'[d] = tries[d]
      BY <2>3, Zenon DEF IInv, TypeOK, Try
    <3>2. \A k \in 1 .. MaxTries : pc'[<<d, k>>] = pc[<<d, k>>]
      BY <2>1, <2>3, <1>3, Zenon
    <3> QED
      BY <3>1, <3>2, Zenon DEF IInv, Attempts
  <2> QED
    BY <2>2, <2>3, Zenon
<1>6. Signer'
  <2>1. \A h \in Handler : pc'[h] \in Signing => pc'[h] = pc[h] /\ lk' = lk
    BY <1>3, Zenon DEF Signing, Try, locks
  <2> QED
    BY <2>1, SignerKept, Zenon DEF Try, disk
<1>7. Saved' \subseteq Saved
  <2>1. \A h \in Handler : pc'[h] = "store" => pc[h] = "store"
    BY <1>3, Zenon
  <2> QED
    BY <2>1, SavedSame, Zenon DEF Try, disk
<1>8. SavedOnce' /\ NoGap'
  BY <1>7, SavedKept, Zenon DEF Try, disk
<1> QED
  BY <1>4, <1>5, <1>6, <1>8, Zenon DEF IInv

LEMMA ClientIInv ==
  ASSUME IInv, NEW c \in Call, ConnectionLost(c) \/ Answered(c)
  PROVE  IInv'
<1>1. UNCHANGED <<tries, pc, nonce, locks, disk, accepted, returned, unsure>>
  BY Zenon DEF ConnectionLost, Answered
<1> USE <1>1 DEF locks, disk
<1>2. /\ status' \in [Call -> {"idle", "waiting", "lost", "done", "failed"}]
      /\ \A d \in Call : /\ status'[d] = "idle" => status[d] = "idle"
                         /\ status'[d] = "lost" => tries[d] < MaxTries
  BY DEF IInv, TypeOK, Attempts, ConnectionLost, Answered
<1>3. TypeOK'
  BY <1>2, Zenon DEF IInv, TypeOK
<1>4. Attempts'
  BY <1>2, AttemptsKept, Zenon
<1>5. Signer'
  BY SignerKept, Zenon
<1>6. SavedOnce' /\ NoGap'
  BY SavedSame, SavedKept, Zenon
<1> QED
  BY <1>3, <1>4, <1>5, <1>6, Zenon DEF IInv

----------------------------------------------------------------------------
(* The handler's steps. *)

LEMMA GotoFacts ==
  ASSUME IInv, NEW h \in Handler, NEW loc, Goto(h, loc)
  PROVE  /\ pc'[h] = loc
         /\ \A g \in Handler \ {h} : pc'[g] = pc[g]
BY Zenon DEF Goto, IInv, TypeOK

LEMMA GotoType ==
  ASSUME IInv, NEW h \in Handler, NEW loc \in Active \cup {"returned", "failed"},
         Goto(h, loc)
  PROVE  pc' \in [Handler -> Active \cup {"none", "returned", "failed", "killed"}]
BY Zenon DEF Goto, IInv, TypeOK

LEMMA GotoAttempts ==
  ASSUME IInv, NEW h \in Handler, NEW loc, Goto(h, loc), pc[h] # "none",
         UNCHANGED client
  PROVE  Attempts'
<1>1. \A g \in Handler : pc[g] = "none" => pc'[g] = "none"
  BY GotoFacts, Zenon
<1>2. \A c \in Call : /\ status'[c] = "idle" => status[c] = "idle"
                      /\ status'[c] = "lost" => tries[c] < MaxTries
  BY Zenon DEF client, IInv, Attempts
<1> QED
  BY <1>1, <1>2, AttemptsKept, Zenon DEF client

LEMMA UnlockFacts ==
  ASSUME IInv, NEW h \in Handler, Unlock(h)
  PROVE  /\ pushLock' \in [Addr -> Handler \cup {NONE}]
         /\ lk' \in Handler \cup {NONE}
         /\ lk # h => lk' = lk
BY Zenon DEF Unlock, IInv, TypeOK

(* A handler leaves the signer's locks, or was not in them. *)
LEMMA GotoSigner ==
  ASSUME IInv, NEW h \in Handler, NEW loc, Goto(h, loc), loc \notin Signing,
         lk # h => lk' = lk,
         accepted \subseteq accepted', dsNonce' = dsNonce, nonce' = nonce
  PROVE  Signer'
<1>1. ASSUME NEW g \in Handler, pc'[g] \in Signing
      PROVE  pc'[g] = pc[g] /\ lk' = lk
  <2>1. g # h
    BY <1>1, GotoFacts, Zenon
  <2>2. pc'[g] = pc[g]
    BY <2>1, GotoFacts, Zenon
  <2>3. lk = g
    BY <1>1, <2>2, Zenon DEF IInv, Signer
  <2> QED
    BY <2>1, <2>2, <2>3, Zenon
<1> QED
  BY <1>1, SignerKept, Zenon

(* Steps that only move a handler and its locks. *)
LEMMA MoveIInv ==
  ASSUME IInv, NEW h \in Handler,
         NEW loc \in {"lock", "estimate", "sign", "failed"}, Goto(h, loc),
         pc[h] # "none",
         pushLock' \in [Addr -> Handler \cup {NONE}],
         lk' \in Handler \cup {NONE},
         lk # h => lk' = lk,
         accepted \subseteq accepted', accepted' \subseteq Message,
         unsure' \subseteq Call,
         UNCHANGED <<client, nonce, disk, returned>>
  PROVE  IInv'
<1>0. loc \in Active \cup {"returned", "failed"} /\ loc \notin Signing /\ loc # "store"
  BY Zenon DEF Active, Locking, Signing
<1>1. TypeOK'
  BY <1>0, GotoType, Zenon DEF IInv, TypeOK, client, disk
<1>2. Attempts'
  BY GotoAttempts, Zenon
<1>3. Signer'
  BY <1>0, GotoSigner, Zenon DEF disk
<1>4. \A g \in Handler : pc'[g] = "store" => pc[g] = "store"
  BY <1>0, GotoFacts, Zenon
<1>5. SavedOnce' /\ NoGap'
  BY <1>4, SavedSame, SavedKept, Zenon DEF disk
<1> QED
  BY <1>1, <1>2, <1>3, <1>5, Zenon DEF IInv

LEMMA WaysIInv ==
  ASSUME IInv, NEW h \in Handler, TakeLock(h) \/ Estimate(h) \/ Fails(h)
  PROVE  IInv'
<1> USE HandlerFacts
<1>1. CASE TakeLock(h)
  BY <1>1, MoveIInv, Zenon DEF TakeLock, IInv, TypeOK
<1>2. CASE Estimate(h)
  BY <1>2, MoveIInv, Zenon DEF Estimate, IInv, TypeOK, locks
<1>3. CASE Fails(h)
  BY <1>3, MoveIInv, UnlockFacts, Zenon DEF Fails, IInv, TypeOK, Active, Locking, Signing
<1> QED
  BY <1>1, <1>2, <1>3, Zenon

LEMMA CheckUuidIInv ==
  ASSUME IInv, NEW h \in Handler, CheckUuid(h)
  PROVE  IInv'
<1> USE DEF CheckUuid
<1>1. CASE /\ Processed(call(h))
           /\ returned' = returned \cup {stored[call(h)]}
           /\ Goto(h, "returned")
           /\ UNCHANGED unsure
  <2>1. /\ returned' = returned \cup {stored[call(h)]}
        /\ Goto(h, "returned")
        /\ UNCHANGED <<client, nonce, locks, disk, accepted, unsure>>
    BY <1>1, Zenon
  <2>2. stored[call(h)] \in Saved /\ stored[call(h)] \in Message
    BY <1>1, HandlerFacts, Zenon DEF Processed, Saved, IInv, TypeOK
  <2>3. TypeOK'
    <3>1. pc' \in [Handler -> Active \cup {"none", "returned", "failed", "killed"}]
      BY <2>1, GotoType, Zenon
    <3> QED
      BY <2>1, <2>2, <3>1, Zenon DEF IInv, TypeOK, client, locks, disk
  <2>4. Attempts'
    BY <2>1, GotoAttempts, Zenon
  <2>5. Signer'
    BY <2>1, GotoSigner, Zenon DEF Signing, locks, disk
  <2>6. Saved' \subseteq Saved
    <3>1. \A g \in Handler : pc'[g] = "store" => pc[g] = "store"
      BY <2>1, GotoFacts, Zenon
    <3> QED
      BY <2>1, <2>2, <3>1, Zenon DEF Saved, disk, Msg, call
  <2>7. SavedOnce' /\ NoGap'
    BY <2>1, <2>6, SavedKept, Zenon DEF disk
  <2> QED
    BY <2>3, <2>4, <2>5, <2>7, Zenon DEF IInv
<1>2. CASE /\ unsure' = IF Processed(call(h)) THEN unsure \cup {call(h)} ELSE unsure
           /\ Goto(h, "lock")
           /\ UNCHANGED returned
  BY <1>2, MoveIInv, HandlerFacts DEF IInv, TypeOK, locks
<1> QED
  BY <1>1, <1>2, Zenon

----------------------------------------------------------------------------
(* Signing, pushing, saving, storing. *)

LEMMA SignIInv ==
  ASSUME IInv, NEW h \in Handler, NEW m \in Nat, Sign(h, m)
  PROVE  IInv'
<1> USE HandlerFacts
<1>0. dsNonce[addr(h)] \in Nat
  BY Zenon DEF IInv, TypeOK
<1>1. /\ nextNonce(addr(h), m) \in Nat
      /\ dsNonce[addr(h)] <= nextNonce(addr(h), m)
      /\ HasAll(addr(h), nextNonce(addr(h), m))
  BY <1>0 DEF nextNonce, Sign, IInv, NoGap
<1>2. /\ nonce'[h] = nextNonce(addr(h), m)
      /\ \A g \in Handler \ {h} : nonce'[g] = nonce[g]
      /\ nonce' \in [Handler -> Nat]
  BY <1>1, Zenon DEF Sign, IInv, TypeOK
<1>3. pc'[h] = "push" /\ \A g \in Handler \ {h} : pc'[g] = pc[g]
  BY GotoFacts, Zenon DEF Sign
<1>4. TypeOK'
  <2>1. pc' \in [Handler -> Active \cup {"none", "returned", "failed", "killed"}]
    BY GotoType, Zenon DEF Sign, Active, Locking, Signing
  <2> QED
    BY <1>2, <2>1, Zenon DEF Sign, IInv, TypeOK, client, disk
<1>5. Attempts'
  BY GotoAttempts, Zenon DEF Sign
<1>6. \A g \in Handler \ {h} : pc'[g] \notin Signing
  BY <1>3, Zenon DEF Sign, IInv, Signer
<1>7. Signer'
  <2> SUFFICES ASSUME NEW g \in Handler
               PROVE  /\ pc'[g] \in Signing =>
                           /\ lk' = g
                           /\ dsNonce'[addr(g)] <= nonce'[g]
                           /\ HasAll(addr(g), nonce[g])'
                      /\ pc'[g] = "save" => Msg(call(g), nonce'[g]) \in accepted'
    BY Zenon DEF Signer, addr, call, Msg
  <2>1. CASE g = h
    <3>1. HasAll(addr(g), nonce[g])'
      BY <1>1, <1>2, <2>1, Zenon DEF HasAll, Sign, addr, call
    <3> QED
      BY <1>1, <1>2, <1>3, <2>1, <3>1, Zenon DEF Sign, disk
  <2>2. CASE g # h
    BY <1>6, <2>2, Zenon DEF Signing
  <2> QED
    BY <2>1, <2>2, Zenon
<1>8. Saved' \subseteq Saved
  <2>1. \A g \in Handler : pc'[g] = "store" => pc[g] = "store" /\ nonce'[g] = nonce[g]
    BY <1>2, <1>3, Zenon
  <2> QED
    BY <2>1, Zenon DEF Sign, disk, Saved, Msg, call
<1>9. SavedOnce' /\ NoGap'
  BY <1>8, SavedKept, Zenon DEF Sign, disk
<1> QED
  BY <1>4, <1>5, <1>7, <1>9, Zenon DEF IInv

LEMMA PushIInv ==
  ASSUME IInv, NEW h \in Handler, Push(h)
  PROVE  IInv'
<1> DEFINE x == Msg(call(h), nonce[h])
<1>0. x \in Message
  BY HandlerFacts, MsgFacts, Zenon DEF IInv, TypeOK
<1> HIDE DEF x
<1>1. pc[h] = "push" /\ UNCHANGED <<client, nonce, disk, returned, unsure>>
  BY Zenon DEF Push
<1>2. CASE /\ accepted' = accepted \cup {x}
           /\ Goto(h, "save")
           /\ UNCHANGED locks
  <2>1. pc'[h] = "save" /\ \A g \in Handler \ {h} : pc'[g] = pc[g]
    BY <1>2, GotoFacts, Zenon
  <2>2. TypeOK'
    <3>1. pc' \in [Handler -> Active \cup {"none", "returned", "failed", "killed"}]
      BY <1>2, GotoType, Zenon DEF Active, Locking, Signing
    <3> QED
      BY <1>0, <1>1, <1>2, <3>1, Zenon DEF IInv, TypeOK, client, disk, locks
  <2>3. Attempts'
    BY <1>1, <1>2, GotoAttempts, Zenon
  <2>4. Signer'
    <3> SUFFICES ASSUME NEW g \in Handler
                 PROVE  /\ pc'[g] \in Signing =>
                             /\ lk' = g
                             /\ dsNonce'[addr(g)] <= nonce'[g]
                             /\ HasAll(addr(g), nonce[g])'
                        /\ pc'[g] = "save" => Msg(call(g), nonce'[g]) \in accepted'
      BY Zenon DEF Signer, addr, call, Msg
    <3>1. pc'[g] \in Signing => pc[g] \in Signing
      BY <1>1, <2>1, Zenon DEF Signing
    <3>2. HasAll(addr(g), nonce[g]) => HasAll(addr(g), nonce[g])'
      BY <1>1, <1>2, Zenon DEF HasAll, addr, call
    <3>3. pc'[g] = "save" => Msg(call(g), nonce'[g]) \in accepted'
      BY <1>1, <1>2, <2>1, Zenon DEF IInv, Signer, x
    <3> QED
      BY <1>1, <1>2, <3>1, <3>2, <3>3, Zenon DEF IInv, Signer, locks, disk
  <2>5. \A g \in Handler : pc'[g] = "store" => pc[g] = "store"
    BY <2>1, Zenon
  <2>6. SavedOnce' /\ NoGap'
    BY <1>1, <1>2, <2>5, SavedSame, SavedKept, Zenon DEF disk
  <2> QED
    BY <2>2, <2>3, <2>4, <2>6, Zenon DEF IInv
<1>3. CASE /\ accepted' \in {accepted, accepted \cup {x}}
           /\ Goto(h, "failed")
           /\ Unlock(h)
  BY <1>0, <1>1, <1>3, MoveIInv, UnlockFacts, Zenon DEF IInv, TypeOK
<1> QED
  BY <1>2, <1>3, Zenon DEF Push, x

LEMMA SaveNonceIInv ==
  ASSUME IInv, NEW h \in Handler, saveNonce(h)
  PROVE  IInv'
<1> DEFINE x == Msg(call(h), nonce[h])
<1> USE HandlerFacts
<1>0. /\ nonce[h] \in Nat /\ dsNonce[addr(h)] \in Nat
      /\ \A a \in Addr : dsNonce[a] \in Nat
  BY Zenon DEF IInv, TypeOK
<1>1. /\ x \in Message /\ x.from = addr(h) /\ x.nonce = nonce[h]
  BY <1>0, MsgFacts DEF addr
<1>2. /\ lk = h /\ dsNonce[addr(h)] <= nonce[h] /\ HasAll(addr(h), nonce[h])
      /\ x \in accepted
  BY Zenon DEF IInv, Signer, saveNonce, Signing
<1> HIDE DEF x
<1>3. /\ dsNonce'[addr(h)] = nonce[h] + 1
      /\ \A a \in Addr \ {addr(h)} : dsNonce'[a] = dsNonce[a]
      /\ dsNonce' \in [Addr -> Nat]
  BY <1>0 DEF saveNonce, IInv, TypeOK
<1>4. pc'[h] = "store" /\ \A g \in Handler \ {h} : pc'[g] = pc[g]
  BY GotoFacts, Zenon DEF saveNonce
<1>5. TypeOK'
  <2>1. pc' \in [Handler -> Active \cup {"none", "returned", "failed", "killed"}]
    BY GotoType, Zenon DEF saveNonce, Active, Locking
  <2> QED
    BY <1>3, <2>1, Zenon DEF saveNonce, IInv, TypeOK, client
<1>6. Attempts'
  BY GotoAttempts, Zenon DEF saveNonce
<1>7. Signer'
  <2>1. \A g \in Handler : pc'[g] \notin Signing
    BY <1>2, <1>4, Zenon DEF IInv, Signer, Signing
  <2> QED
    BY <2>1, Zenon DEF Signer, Signing
<1>8. NoGap'
  <2> SUFFICES ASSUME NEW a \in Addr PROVE HasAll(a, dsNonce[a])'
    BY Zenon DEF NoGap
  <2>1. CASE a = addr(h)
    <3> SUFFICES ASSUME NEW n \in 0 .. nonce[h]
                 PROVE  \E y \in accepted : y.from = addr(h) /\ y.nonce = n
      BY <1>0, <1>3, <2>1 DEF HasAll, saveNonce
    <3>1. CASE n = nonce[h]
      BY <1>1, <1>2, <3>1, Zenon
    <3>2. CASE n # nonce[h]
      BY <1>0, <1>2, <3>2 DEF HasAll
    <3> QED
      BY <3>1, <3>2, Zenon
  <2>2. CASE a # addr(h)
    BY <1>3, <2>2 DEF IInv, NoGap, HasAll, saveNonce
  <2> QED
    BY <2>1, <2>2, Zenon
<1>9. Saved' \subseteq Saved \cup {x}
  <2>1. \A g \in Handler : pc'[g] = "store" => g = h \/ pc[g] = "store"
    BY <1>4, Zenon
  <2> QED
    BY <2>1 DEF saveNonce, Saved, Msg, call, x
<1>10. SavedOnce'
  <2>1. ASSUME NEW y \in Saved
        PROVE  /\ y \in Message /\ y.nonce \in Nat /\ y.from \in Addr
               /\ y.nonce < dsNonce[y.from]
    BY MessageFields, Zenon DEF IInv, SavedOnce
  <2>2. ASSUME NEW y \in Saved'
        PROVE  y \in Message /\ y.nonce < dsNonce'[y.from]
    <3>1. CASE y = x
      BY <1>0, <1>1, <1>3, <3>1
    <3>2. CASE y \in Saved /\ y.from = addr(h)
      BY <1>0, <1>2, <1>3, <2>1, <3>2
    <3>3. CASE y \in Saved /\ y.from # addr(h)
      BY <1>3, <2>1, <3>3, Zenon
    <3> QED
      BY <2>2, <1>9, <3>1, <3>2, <3>3, Zenon
  <2>3. ASSUME NEW y \in Saved, y.from = addr(h) PROVE y.nonce # nonce[h]
    BY <1>0, <1>2, <2>1, <2>3
  <2>4. ASSUME NEW y \in Saved', NEW z \in Saved',
               y.from = z.from, y.nonce = z.nonce
        PROVE  y = z
    BY <1>1, <1>9, <2>3, <2>4, Zenon DEF IInv, SavedOnce
  <2> QED
    BY <2>2, <2>4, Zenon DEF SavedOnce
<1> QED
  BY <1>5, <1>6, <1>7, <1>8, <1>10, Zenon DEF IInv

LEMMA StoreIInv ==
  ASSUME IInv, NEW h \in Handler, Store(h)
  PROVE  IInv'
<1> DEFINE x == Msg(call(h), nonce[h])
<1>1. x \in Message /\ x \in Saved
  <2>1. call(h) \in Call /\ nonce[h] \in Nat
    BY HandlerFacts, Zenon DEF IInv, TypeOK
  <2>2. pc[h] = "store"
    BY Zenon DEF Store
  <2> QED
    BY <2>1, <2>2, MsgFacts, Zenon DEF Saved
<1> HIDE DEF x
<1>2. /\ pc[h] = "store" /\ returned' = returned \cup {x}
      /\ Goto(h, "returned") /\ Unlock(h)
      /\ UNCHANGED <<client, nonce, dsNonce, accepted, unsure>>
  BY Zenon DEF Store, x
<1>3. /\ stored' \in [Call -> Message \cup {NONE}]
      /\ \A c \in Call : stored'[c] \in {stored[c], x}
  BY <1>1, HandlerFacts, Zenon DEF Store, x, IInv, TypeOK
<1>4. TypeOK'
  <2>1. pc' \in [Handler -> Active \cup {"none", "returned", "failed", "killed"}]
    BY <1>2, GotoType, Zenon
  <2> QED
    BY <1>1, <1>2, <1>3, <2>1, UnlockFacts, Zenon DEF IInv, TypeOK, client
<1>5. Attempts'
  BY <1>2, GotoAttempts, Zenon
<1>6. Signer'
  BY <1>2, UnlockFacts, GotoSigner, Zenon DEF Signing
<1>7. Saved' \subseteq Saved
  <2>1. \A g \in Handler : pc'[g] = "store" => pc[g] = "store"
    BY <1>2, GotoFacts, Zenon
  <2>2. \A c \in Call : stored'[c] # NONE => stored'[c] \in Saved
    BY <1>1, <1>3, Zenon DEF Saved
  <2> QED
    BY <1>1, <1>2, <2>1, <2>2 DEF Saved, Msg, call
<1>8. SavedOnce' /\ NoGap'
  BY <1>2, <1>7, SavedKept, Zenon
<1> QED
  BY <1>4, <1>5, <1>6, <1>8, Zenon DEF IInv

----------------------------------------------------------------------------
(* The surroundings. *)

LEMMA CrashIInv ==
  ASSUME IInv, Crash
  PROVE  IInv'
<1>1. \A h \in Handler : pc'[h] = IF pc[h] \in Active THEN "killed" ELSE pc[h]
  BY Zenon DEF Crash
<1>2. \A h \in Handler : pc'[h] # "store" /\ pc'[h] \notin Signing
  BY <1>1, Zenon DEF Active, Locking, Signing
<1>3. TypeOK'
  BY Zenon DEF Crash, IInv, TypeOK, client, disk
<1>4. Attempts'
  <2>1. \A h \in Handler : pc[h] = "none" => pc'[h] = "none"
    BY <1>1, Zenon DEF Active, Locking, Signing
  <2>2. \A c \in Call : /\ status'[c] = "idle" => status[c] = "idle"
                        /\ status'[c] = "lost" => tries[c] < MaxTries
    BY Zenon DEF Crash, client, IInv, Attempts
  <2> QED
    BY <2>1, <2>2, AttemptsKept, Zenon DEF Crash, client
<1>5. Signer'
  BY <1>2, Zenon DEF Signer, Signing
<1>6. SavedOnce' /\ NoGap'
  BY <1>2, SavedSame, SavedKept, Zenon DEF Crash, disk
<1> QED
  BY <1>3, <1>4, <1>5, <1>6, Zenon DEF IInv

LEMMA ForeignIInv ==
  ASSUME IInv, NEW a \in Addr, NEW n \in Nat, Foreign(a, n)
  PROVE  IInv'
<1>1. [call |-> NONE, from |-> a, nonce |-> n] \in Message
  BY Zenon DEF Message
<1>2. TypeOK'
  BY <1>1, Zenon DEF Foreign, IInv, TypeOK, client, locks, disk
<1>3. Attempts'
  BY Zenon DEF Foreign, client, IInv, Attempts
<1>4. Signer'
  BY SignerKept, Zenon DEF Foreign, locks, disk
<1>5. SavedOnce' /\ NoGap'
  BY SavedSame, SavedKept, Zenon DEF Foreign, disk
<1> QED
  BY <1>2, <1>3, <1>4, <1>5, Zenon DEF IInv

LEMMA StutterIInv ==
  ASSUME IInv, UNCHANGED vars
  PROVE  IInv'
<1> USE DEF vars, client, locks, disk
<1>1. TypeOK'
  BY Zenon DEF IInv, TypeOK
<1>2. Attempts'
  BY Zenon DEF IInv, Attempts
<1>3. Signer'
  BY SignerKept, Zenon
<1>4. SavedOnce' /\ NoGap'
  BY SavedSame, SavedKept, Zenon
<1> QED
  BY <1>1, <1>2, <1>3, <1>4, Zenon DEF IInv

----------------------------------------------------------------------------
LEMMA NextIInv == IInv /\ [Next]_vars => IInv'
<1> SUFFICES ASSUME IInv, [Next]_vars PROVE IInv'
  BY Zenon
<1>1. CASE \E c \in Call : Try(c) \/ ConnectionLost(c) \/ Answered(c)
  BY <1>1, TryIInv, ClientIInv, Zenon
<1>2. CASE \E h \in Handler : HandlerStep(h) \/ Fails(h)
  <2> PICK h \in Handler : HandlerStep(h) \/ Fails(h)
    BY <1>2, Zenon
  <2>1. ASSUME NEW m \in {0} \cup {x.nonce + 1 : x \in accepted}, Sign(h, m)
        PROVE  IInv'
    <3>1. m \in Nat
      BY MessageFields DEF IInv, TypeOK
    <3> QED
      BY <2>1, <3>1, SignIInv, Zenon
  <2> QED
    BY <2>1, CheckUuidIInv, WaysIInv, PushIInv, SaveNonceIInv, StoreIInv, Zenon
    DEF HandlerStep
<1>3. CASE \E a \in Addr, n \in 0 .. MaxForeign - 1 : Foreign(a, n)
  BY <1>3, ForeignIInv, PushAssumption
<1> QED
  BY <1>1, <1>2, <1>3, CrashIInv, StutterIInv, Zenon DEF Next

LEMMA Inductive == Spec => []IInv
<1> QED
  BY InitIInv, NextIInv, PTL DEF Spec

(* Every variable keeps its type: the wrapper makes at most MaxTries       *)
(* attempts.                                                               *)
THEOREM TypeCorrect == Spec => []TypeOK
<1>1. IInv => TypeOK
  BY Zenon DEF IInv
<1> QED
  BY Inductive, <1>1, PTL

(* SignMessage never gives two returned messages of one sender the same    *)
(* nonce, whatever the pool reports and whatever fails.                    *)
THEOREM NoncesDiffer == Spec => []NonceOnce
<1>1. IInv => NonceOnce
  BY Zenon DEF IInv, SavedOnce, Saved, NonceOnce
<1> QED
  BY Inductive, <1>1, PTL

(* SignMessage saves a nonce only when the pool has accepted a message     *)
(* with it: no failure leaves a gap in a sender's nonces.                  *)
THEOREM NoncesDense == Spec => []NoGap
<1>1. IInv => NoGap
  BY Zenon DEF IInv
<1> QED
  BY Inductive, <1>1, PTL

----------------------------------------------------------------------------
(* One message per uuid. *)

(* What Sure says of one call. *)
SureOf(c) ==
  /\ \A x, y \in Sent(c) : x = y
  /\ stored[c] # NONE => Sent(c) \subseteq {stored[c]}
  /\ (\A h \in Handler : call(h) = c => pc[h] \in Before) => Sent(c) = {}
  /\ \A h \in Handler : call(h) = c =>
       /\ pc[h] = "returned" => stored[c] # NONE
       /\ pc[h] \in Sending => stored[c] = NONE
       /\ pc[h] \in {"save", "store"} => Sent(c) \subseteq {Msg(c, nonce[h])}
       /\ \A g \in Handler \ {h} :
            call(g) = c => pc[h] \in Passive \/ pc[g] \in Passive

LEMMA SureEach == Sure <=> \A c \in Tagged \ unsure : SureOf(c)
BY Zenon DEF Sure, SureOf

(* A step that sends and stores nothing and moves one handler. *)
LEMMA MoveSure ==
  ASSUME IInv, NEW h \in Handler, NEW loc, Goto(h, loc),
         pc[h] \notin Passive,
         NEW c \in Tagged \ unsure, SureOf(c),
         Sent(c)' = Sent(c), stored'[c] = stored[c],
         call(h) = c => /\ loc \in Before => pc[h] \in Before
                        /\ loc \in Sending => stored[c] = NONE
                        /\ loc = "returned" => stored[c] # NONE
                        /\ loc \in {"save", "store"} =>
                             pc[h] \in {"save", "store"} /\ nonce'[h] = nonce[h],
         \A g \in Handler \ {h} : nonce'[g] = nonce[g]
  PROVE  SureOf(c)'
<1>0. pc'[h] = loc /\ \A g \in Handler \ {h} : pc'[g] = pc[g]
  BY GotoFacts, Zenon
<1>1. (\A x, y \in Sent(c) : x = y)'
  BY Zenon DEF SureOf
<1>2. (stored[c] # NONE => Sent(c) \subseteq {stored[c]})'
  BY Zenon DEF SureOf
<1>3. ((\A g \in Handler : call(g) = c => pc[g] \in Before) => Sent(c) = {})'
  <2> SUFFICES ASSUME \A g \in Handler : call(g) = c => pc'[g] \in Before
               PROVE  Sent(c) = {}
    BY Zenon DEF call
  <2>1. \A g \in Handler : call(g) = c => pc[g] \in Before
    BY <1>0, Zenon
  <2> QED
    BY <2>1, Zenon DEF SureOf
<1>4. ASSUME NEW g \in Handler, call(g) = c
      PROVE  /\ pc'[g] = "returned" => stored'[c] # NONE
             /\ pc'[g] \in Sending => stored'[c] = NONE
             /\ pc'[g] \in {"save", "store"} => Sent(c)' \subseteq {Msg(c, nonce'[g])}
             /\ \A f \in Handler \ {g} :
                  call(f) = c => pc'[g] \in Passive \/ pc'[f] \in Passive
  <2>1. /\ pc'[g] = "returned" => stored'[c] # NONE
        /\ pc'[g] \in Sending => stored'[c] = NONE
    BY <1>0, <1>4, Zenon DEF SureOf
  <2>2. pc'[g] \in {"save", "store"} => Sent(c)' \subseteq {Msg(c, nonce'[g])}
    BY <1>0, <1>4 DEF SureOf
  <2>3. \A f \in Handler \ {g} :
          call(f) = c => pc'[g] \in Passive \/ pc'[f] \in Passive
    BY <1>0, <1>4, Zenon DEF SureOf
  <2> QED
    BY <2>1, <2>2, <2>3, Zenon
<1>5. (\A g \in Handler : call(g) = c =>
         /\ pc[g] = "returned" => stored[c] # NONE
         /\ pc[g] \in Sending => stored[c] = NONE
         /\ pc[g] \in {"save", "store"} => Sent(c) \subseteq {Msg(c, nonce[g])}
         /\ \A f \in Handler \ {g} :
              call(f) = c => pc[g] \in Passive \/ pc[f] \in Passive)'
  BY <1>4, Zenon DEF call, Msg
<1> QED
  BY <1>1, <1>2, <1>3, <1>5, Zenon DEF SureOf

(* A step that does not concern the call. *)
LEMMA OtherSure ==
  ASSUME IInv, NEW c \in Tagged \ unsure, SureOf(c),
         Sent(c)' = Sent(c), stored'[c] = stored[c],
         \A h \in Handler : call(h) = c => pc'[h] = pc[h] /\ nonce'[h] = nonce[h]
  PROVE  SureOf(c)'
<1>1. (\A x, y \in Sent(c) : x = y)'
  BY Zenon DEF SureOf
<1>2. (stored[c] # NONE => Sent(c) \subseteq {stored[c]})'
  BY Zenon DEF SureOf
<1>3. ((\A g \in Handler : call(g) = c => pc[g] \in Before) => Sent(c) = {})'
  BY Zenon DEF SureOf, call
<1>4. (\A g \in Handler : call(g) = c =>
         /\ pc[g] = "returned" => stored[c] # NONE
         /\ pc[g] \in Sending => stored[c] = NONE
         /\ pc[g] \in {"save", "store"} => Sent(c) \subseteq {Msg(c, nonce[g])}
         /\ \A f \in Handler \ {g} :
              call(f) = c => pc[g] \in Passive \/ pc[f] \in Passive)'
  BY Zenon DEF SureOf, call, Msg
<1> QED
  BY <1>1, <1>2, <1>3, <1>4, Zenon DEF SureOf

LEMMA HandlerSure ==
  ASSUME IInv, Sure, NEW h \in Handler, NEW c \in Tagged \ unsure',
         \/ CheckUuid(h) \/ TakeLock(h) \/ Estimate(h) \/ saveNonce(h) \/ Fails(h)
         \/ \E m \in Nat : Sign(h, m)
  PROVE  SureOf(c)'
<1>1. c \in Tagged \ unsure /\ SureOf(c)
  BY SureEach, Zenon DEF CheckUuid, TakeLock, Estimate, saveNonce, Fails, Sign
<1>2. accepted' = accepted /\ stored' = stored
  BY Zenon DEF CheckUuid, TakeLock, Estimate, saveNonce, Fails, Sign, disk
<1>3. Sent(c)' = Sent(c) /\ stored'[c] = stored[c]
  BY <1>2, Zenon DEF Sent
<1> DEFINE May(loc) == /\ loc \in Before => pc[h] \in Before
                       /\ loc \in Sending => stored[c] = NONE
                       /\ loc = "returned" => stored[c] # NONE
                       /\ loc \in {"save", "store"} =>
                            pc[h] \in {"save", "store"} /\ nonce'[h] = nonce[h]
           Others == \A g \in Handler \ {h} : nonce'[g] = nonce[g]
<1>m. ASSUME NEW loc, Goto(h, loc), pc[h] \notin Passive,
             call(h) = c => May(loc), Others
      PROVE  SureOf(c)'
  BY <1>1, <1>3, <1>m, MoveSure, Zenon
<1>o. nonce' = nonce => Others
  BY Zenon
<1> HIDE DEF May, Others
<1>4. CASE CheckUuid(h)
  <2>1. nonce' = nonce /\ pc[h] = "check"
    BY <1>4, Zenon DEF CheckUuid
  <2>2. pc[h] \notin Passive
    BY <2>1, Zenon DEF Passive
  <2>3. CASE Goto(h, "returned") /\ Processed(call(h))
    <3>1. call(h) = c => May("returned")
      BY <2>3, Zenon DEF May, Before, Sending, Processed
    <3> QED
      BY <1>m, <1>o, <2>1, <2>2, <2>3, <3>1, Zenon
  <2>4. CASE Goto(h, "lock") /\ (call(h) = c => ~Processed(c))
    <3>1. call(h) = c => May("lock")
      BY <2>1, <2>4, Zenon DEF May, Before, Sending, Processed
    <3> QED
      BY <1>m, <1>o, <2>1, <2>2, <2>4, <3>1, Zenon
  <2> QED
    BY <1>4, <2>3, <2>4, ZenonT(120) DEF CheckUuid
<1>5. CASE TakeLock(h) \/ Estimate(h)
  <2>1. PICK loc \in {"estimate", "sign"} : Goto(h, loc)
    BY <1>5, Zenon DEF TakeLock, Estimate
  <2>2. nonce' = nonce /\ pc[h] \in {"lock", "estimate"}
    BY <1>5, Zenon DEF TakeLock, Estimate
  <2>3. pc[h] \notin Passive
    BY <2>2, Zenon DEF Passive
  <2>4. call(h) = c => stored[c] = NONE
    BY <1>1, <2>2, Zenon DEF SureOf, Sending
  <2>5. call(h) = c => May(loc)
    BY <2>1, <2>2, <2>4, Zenon DEF May, Before
  <2> QED
    BY <1>m, <1>o, <2>1, <2>2, <2>3, <2>5, Zenon
<1>6. CASE saveNonce(h)
  <2>1. nonce' = nonce /\ pc[h] = "save" /\ Goto(h, "store")
    BY <1>6, Zenon DEF saveNonce
  <2>2. May("store") /\ pc[h] \notin Passive
    BY <2>1, Zenon DEF May, Before, Sending, Passive
  <2> QED
    BY <1>m, <1>o, <2>1, <2>2, Zenon
<1>7. CASE Fails(h)
  <2>1. nonce' = nonce /\ pc[h] \notin Passive /\ Goto(h, "failed")
    BY <1>7, Zenon DEF Fails, Active, Locking, Signing, Passive
  <2>2. May("failed")
    BY Zenon DEF May, Before, Sending
  <2> QED
    BY <1>m, <1>o, <2>1, <2>2, Zenon
<1>8. CASE \E m \in Nat : Sign(h, m)
  <2>1. pc[h] = "sign" /\ Goto(h, "push")
    BY <1>8, Zenon DEF Sign
  <2>2. Others
    BY <1>8, Zenon DEF Sign, IInv, TypeOK, Others
  <2>3. pc[h] \notin Passive
    BY <2>1, Zenon DEF Passive
  <2>4. call(h) = c => stored[c] = NONE
    BY <1>1, <2>1, Zenon DEF SureOf, Sending
  <2>5. call(h) = c => May("push")
    BY <2>1, <2>4, Zenon DEF May, Before
  <2> QED
    BY <1>m, <2>1, <2>2, <2>3, <2>5, Zenon
<1> QED
  BY <1>4, <1>5, <1>6, <1>7, <1>8, Zenon

(* Nothing was sent for the call of a handler that pushes. *)
LEMMA PushFirst ==
  ASSUME IInv, NEW h \in Handler, pc[h] = "push",
         call(h) \in Tagged \ unsure, SureOf(call(h))
  PROVE  /\ Sent(call(h)) = {} /\ stored[call(h)] = NONE
         /\ \A g \in Handler \ {h} : call(g) = call(h) => pc[g] = "none"
<1>1. stored[call(h)] = NONE
  BY Zenon DEF SureOf, Sending
<1>2. \A g \in Handler \ {h} : call(g) = call(h) => pc[g] = "none"
  BY <1>1, Zenon DEF SureOf, Passive
<1>3. \A g \in Handler : call(g) = call(h) => pc[g] \in Before
  BY <1>2, Zenon DEF Before
<1> QED
  BY <1>1, <1>2, <1>3, Zenon DEF SureOf

LEMMA PushSure ==
  ASSUME IInv, Sure, NEW h \in Handler, NEW c \in Tagged \ unsure', Push(h)
  PROVE  SureOf(c)'
<1> USE DEF locks, disk, Before, Sending, Passive
<1>1. c \in Tagged \ unsure /\ SureOf(c)
  BY SureEach, Zenon DEF Push
<1> DEFINE x == Msg(call(h), nonce[h])
<1>2. x.call = call(h)
  BY MsgFacts, HandlerFacts, Zenon DEF IInv, TypeOK
<1> HIDE DEF x
<1>3. /\ pc[h] = "push" /\ nonce' = nonce /\ stored' = stored
      /\ accepted' \in {accepted, accepted \cup {x}}
      /\ pc'[h] \in {"save", "failed"}
      /\ \A g \in Handler \ {h} : pc'[g] = pc[g]
  BY GotoFacts, Zenon DEF Push, x
<1>4. CASE call(h) # c
  <2>1. Sent(c)' = Sent(c)
    BY <1>2, <1>3, <1>4, Zenon DEF Sent
  <2>2. \A g \in Handler : call(g) = c => pc'[g] = pc[g] /\ nonce'[g] = nonce[g]
    BY <1>3, <1>4, Zenon
  <2> QED
    BY <1>1, <1>3, <2>1, <2>2, OtherSure, Zenon
<1>5. CASE call(h) = c
  <2>1. Sent(c) = {} /\ stored[c] = NONE
        /\ \A g \in Handler \ {h} : call(g) = c => pc[g] = "none"
    BY <1>1, <1>3, <1>5, PushFirst, Zenon
  <2>2. Sent(c)' \subseteq {x}
    BY <1>3, <2>1, Zenon DEF Sent
  <2>3. (\A u, v \in Sent(c) : u = v)'
    BY <2>2, Zenon
  <2>4. (stored[c] # NONE => Sent(c) \subseteq {stored[c]})'
    BY <1>3, <2>1, Zenon
  <2>5. ((\A g \in Handler : call(g) = c => pc[g] \in Before) => Sent(c) = {})'
    BY <1>3, <1>5, Zenon DEF call
  <2>6. ASSUME NEW g \in Handler, call(g) = c
        PROVE  /\ pc'[g] = "returned" => stored'[c] # NONE
               /\ pc'[g] \in Sending => stored'[c] = NONE
               /\ pc'[g] \in {"save", "store"} =>
                    Sent(c)' \subseteq {Msg(c, nonce'[g])}
               /\ \A f \in Handler \ {g} :
                    call(f) = c => pc'[g] \in Passive \/ pc'[f] \in Passive
    <3>1. CASE g = h
      BY <1>3, <1>5, <2>1, <2>2, <3>1, Zenon DEF x
    <3>2. CASE g # h
      BY <1>3, <2>1, <2>6, <3>2, Zenon
    <3> QED
      BY <3>1, <3>2, Zenon
  <2>7. (\A g \in Handler : call(g) = c =>
           /\ pc[g] = "returned" => stored[c] # NONE
           /\ pc[g] \in Sending => stored[c] = NONE
           /\ pc[g] \in {"save", "store"} => Sent(c) \subseteq {Msg(c, nonce[g])}
           /\ \A f \in Handler \ {g} :
                call(f) = c => pc[g] \in Passive \/ pc[f] \in Passive)'
    BY <2>6, Zenon DEF call, Msg
  <2> QED
    BY <2>3, <2>4, <2>5, <2>7, Zenon DEF SureOf
<1> QED
  BY <1>4, <1>5, Zenon

LEMMA StoreSure ==
  ASSUME IInv, Sure, NEW h \in Handler, NEW c \in Tagged \ unsure', Store(h)
  PROVE  SureOf(c)'
<1> USE DEF Before, Sending, Passive
<1>1. c \in Tagged \ unsure /\ SureOf(c) /\ c \in Call
  BY SureEach, PushAssumption, Zenon DEF Store
<1> DEFINE x == Msg(call(h), nonce[h])
<1>2. x # NONE
  BY MsgFacts, HandlerFacts, MessageFields, Zenon DEF IInv, TypeOK
<1> HIDE DEF x
<1>3. /\ pc[h] = "store" /\ nonce' = nonce /\ Sent(c)' = Sent(c)
      /\ pc'[h] = "returned"
      /\ \A g \in Handler \ {h} : pc'[g] = pc[g]
      /\ stored'[c] = IF c = call(h) THEN x ELSE stored[c]
  <2>1. pc[h] = "store" /\ nonce' = nonce /\ accepted' = accepted /\ Goto(h, "returned")
    BY Zenon DEF Store
  <2>2. Sent(c)' = Sent(c)
    BY <2>1, Zenon DEF Sent
  <2>3. /\ pc'[h] = "returned"
        /\ \A g \in Handler \ {h} : pc'[g] = pc[g]
    BY <2>1, GotoFacts, Zenon
  <2>4. stored'[c] = IF c = call(h) THEN x ELSE stored[c]
    <3>1. /\ stored \in [Call -> Message \cup {NONE}]
          /\ stored' = IF call(h) \in Tagged THEN [stored EXCEPT ![call(h)] = x] ELSE stored
      BY Zenon DEF Store, x, IInv, TypeOK
    <3> QED
      BY <1>1, <3>1, Zenon
  <2> QED
    BY <2>1, <2>2, <2>3, <2>4, Zenon
<1>4. CASE call(h) # c
  <2>1. \A g \in Handler : call(g) = c => pc'[g] = pc[g] /\ nonce'[g] = nonce[g]
    BY <1>3, <1>4, Zenon
  <2> QED
    BY <1>1, <1>3, <1>4, <2>1, OtherSure, Zenon
<1>5. CASE call(h) = c
  <2>1. Sent(c) \subseteq {x}
        /\ \A g \in Handler \ {h} : call(g) = c => pc[g] \in Passive
    BY <1>1, <1>3, <1>5, Zenon DEF SureOf, x
  <2>2. (\A u, v \in Sent(c) : u = v)'
    BY <1>3, <2>1
  <2>3. (stored[c] # NONE => Sent(c) \subseteq {stored[c]})'
    BY <1>3, <1>5, <2>1, Zenon
  <2>4. ((\A g \in Handler : call(g) = c => pc[g] \in Before) => Sent(c) = {})'
    BY <1>3, <1>5, Zenon DEF call
  <2>5. ASSUME NEW g \in Handler, call(g) = c
        PROVE  pc'[g] \in Passive
    BY <1>3, <2>1, <2>5, Zenon
  <2>6. (\A g \in Handler : call(g) = c =>
           /\ pc[g] = "returned" => stored[c] # NONE
           /\ pc[g] \in Sending => stored[c] = NONE
           /\ pc[g] \in {"save", "store"} => Sent(c) \subseteq {Msg(c, nonce[g])}
           /\ \A f \in Handler \ {g} :
                call(f) = c => pc[g] \in Passive \/ pc[f] \in Passive)'
    BY <1>2, <1>3, <1>5, <2>5, Zenon DEF call
  <2> QED
    BY <2>2, <2>3, <2>4, <2>6, Zenon DEF SureOf
<1> QED
  BY <1>4, <1>5, Zenon

LEMMA TrySure ==
  ASSUME IInv, Sure, NEW d \in Call, NEW c \in Tagged \ unsure', Try(d)
  PROVE  SureOf(c)'
<1> USE DEF Before, Sending, Passive
<1>1. c \in Tagged \ unsure /\ SureOf(c)
  BY SureEach, Zenon DEF Try
<1>2. Sent(c)' = Sent(c) /\ stored' = stored /\ nonce' = nonce
  BY Zenon DEF Try, disk, Sent
<1> DEFINE n == <<d, tries[d] + 1>>
<1>3. tries[d] < MaxTries /\ tries[d] \in Nat
  BY PushAssumption DEF IInv, TypeOK, Attempts, Try
<1>4. n \in Handler /\ call(n) = d
  BY <1>3, PushAssumption DEF Handler, call
<1> HIDE DEF n
<1>5. pc'[n] = "check" /\ \A g \in Handler \ {n} : pc'[g] = pc[g]
  BY <1>4, Zenon DEF IInv, TypeOK, Try, n
<1>6. CASE d # c
  <2>1. \A g \in Handler : call(g) = c => pc'[g] = pc[g] /\ nonce'[g] = nonce[g]
    BY <1>2, <1>4, <1>5, <1>6, Zenon
  <2> QED
    BY <1>1, <1>2, <2>1, OtherSure, Zenon
<1>7. CASE d = c
  <2>1. \A g \in Handler : call(g) = c => pc[g] \in Passive
    BY <1>1, <1>7, Zenon DEF Try
  <2>2. pc[n] = "none"
    <3>1. tries[d] + 1 \in 1 .. MaxTries /\ tries[d] + 1 > tries[d]
      BY <1>3, PushAssumption
    <3> QED
      BY <3>1, Zenon DEF n, IInv, Attempts
  <2>3. (\A u, v \in Sent(c) : u = v)'
    BY <1>1, <1>2, Zenon DEF SureOf
  <2>4. (stored[c] # NONE => Sent(c) \subseteq {stored[c]})'
    BY <1>1, <1>2, Zenon DEF SureOf
  <2>5. ((\A g \in Handler : call(g) = c => pc[g] \in Before) => Sent(c) = {})'
    <3> SUFFICES ASSUME \A g \in Handler : call(g) = c => pc'[g] \in Before
                 PROVE  Sent(c) = {}
      BY <1>2, Zenon DEF call
    <3>1. \A g \in Handler : call(g) = c => pc[g] \in Before
      BY <1>5, <2>2, Zenon
    <3> QED
      BY <1>1, <3>1, Zenon DEF SureOf
  <2>6. ASSUME NEW g \in Handler, call(g) = c
        PROVE  /\ pc'[g] = "returned" => stored'[c] # NONE
               /\ pc'[g] \notin Sending \cup {"save", "store"}
               /\ \A f \in Handler \ {g} :
                    call(f) = c => pc'[g] \in Passive \/ pc'[f] \in Passive
    BY <1>1, <1>2, <1>5, <2>1, <2>6, Zenon DEF SureOf
  <2>7. (\A g \in Handler : call(g) = c =>
           /\ pc[g] = "returned" => stored[c] # NONE
           /\ pc[g] \in Sending => stored[c] = NONE
           /\ pc[g] \in {"save", "store"} => Sent(c) \subseteq {Msg(c, nonce[g])}
           /\ \A f \in Handler \ {g} :
                call(f) = c => pc[g] \in Passive \/ pc[f] \in Passive)'
    BY <2>6, Zenon DEF call
  <2> QED
    BY <2>3, <2>4, <2>5, <2>7, Zenon DEF SureOf
<1> QED
  BY <1>6, <1>7, Zenon

LEMMA CrashSure ==
  ASSUME IInv, Sure, NEW c \in Tagged \ unsure', Crash
  PROVE  SureOf(c)'
<1> USE DEF Before, Sending, Passive, Active, Locking, Signing
<1>1. c \in Tagged \ unsure /\ SureOf(c)
  BY SureEach, Zenon DEF Crash
<1>2. Sent(c)' = Sent(c) /\ stored' = stored /\ nonce' = nonce
  BY Zenon DEF Crash, disk, Sent
<1>3. \A g \in Handler : pc'[g] = IF pc[g] \in Active THEN "killed" ELSE pc[g]
  BY Zenon DEF Crash
<1>4. (\A u, v \in Sent(c) : u = v)'
  BY <1>1, <1>2, Zenon DEF SureOf
<1>5. (stored[c] # NONE => Sent(c) \subseteq {stored[c]})'
  BY <1>1, <1>2, Zenon DEF SureOf
<1>6. ((\A g \in Handler : call(g) = c => pc[g] \in Before) => Sent(c) = {})'
  <2> SUFFICES ASSUME \A g \in Handler : call(g) = c => pc'[g] \in Before
               PROVE  Sent(c) = {}
    BY <1>2, Zenon DEF call
  <2>1. \A g \in Handler : call(g) = c => pc[g] \in Before
    BY <1>3, Zenon
  <2> QED
    BY <1>1, <2>1, Zenon DEF SureOf
<1>7. ASSUME NEW g \in Handler, call(g) = c
      PROVE  /\ pc'[g] = "returned" => stored'[c] # NONE
             /\ pc'[g] \notin Sending \cup {"save", "store"}
             /\ \A f \in Handler \ {g} :
                  call(f) = c => pc'[g] \in Passive \/ pc'[f] \in Passive
  <2>1. pc'[g] = "returned" => stored'[c] # NONE
    BY <1>1, <1>2, <1>3, <1>7, Zenon DEF SureOf
  <2>2. pc'[g] \notin Sending \cup {"save", "store"}
    BY <1>3, Zenon
  <2>3. \A f \in Handler \ {g} :
          call(f) = c => pc'[g] \in Passive \/ pc'[f] \in Passive
    BY <1>1, <1>3, <1>7 DEF SureOf
  <2> QED
    BY <2>1, <2>2, <2>3, Zenon
<1>8. (\A g \in Handler : call(g) = c =>
         /\ pc[g] = "returned" => stored[c] # NONE
         /\ pc[g] \in Sending => stored[c] = NONE
         /\ pc[g] \in {"save", "store"} => Sent(c) \subseteq {Msg(c, nonce[g])}
         /\ \A f \in Handler \ {g} :
              call(f) = c => pc[g] \in Passive \/ pc[f] \in Passive)'
  BY <1>7, Zenon DEF call
<1> QED
  BY <1>4, <1>5, <1>6, <1>8, Zenon DEF SureOf

LEMMA QuietSure ==
  ASSUME IInv, Sure, NEW c \in Tagged \ unsure',
         UNCHANGED <<pc, nonce, stored, unsure>>,
         \A x \in accepted' \ accepted : x.call = NONE, accepted \subseteq accepted'
  PROVE  SureOf(c)'
<1>1. c \in Tagged \ unsure /\ SureOf(c) /\ c # NONE
  BY SureEach, PushAssumption, Zenon
<1>2. Sent(c)' = Sent(c)
  BY <1>1, Zenon DEF Sent
<1> QED
  BY <1>1, <1>2, OtherSure, Zenon

LEMMA NextSure == IInv /\ Sure /\ [Next]_vars => Sure'
<1> SUFFICES ASSUME IInv, Sure, [Next]_vars, NEW c \in Tagged \ unsure'
             PROVE  SureOf(c)'
  <2>1. Sure' <=> \A c \in Tagged \ unsure' : SureOf(c)'
    BY Zenon DEF Sure, SureOf
  <2> QED
    BY <2>1, Zenon
<1>1. ASSUME NEW d \in Call, ConnectionLost(d) \/ Answered(d)
      PROVE  SureOf(c)'
  <2>1. UNCHANGED <<pc, nonce, stored, unsure>> /\ accepted' = accepted
    BY <1>1, Zenon DEF ConnectionLost, Answered, disk
  <2> QED
    BY <2>1, QuietSure, Zenon
<1>2. ASSUME NEW h \in Handler, HandlerStep(h) \/ Fails(h)
      PROVE  SureOf(c)'
  <2>1. ASSUME NEW m \in {0} \cup {x.nonce + 1 : x \in accepted}, Sign(h, m)
        PROVE  SureOf(c)'
    <3>1. m \in Nat
      BY MessageFields DEF IInv, TypeOK
    <3> QED
      BY <2>1, <3>1, HandlerSure, Zenon
  <2>2. CASE CheckUuid(h) \/ TakeLock(h) \/ Estimate(h) \/ saveNonce(h) \/ Fails(h)
    BY <2>2, HandlerSure, Zenon
  <2>3. CASE Push(h)
    BY <2>3, PushSure, Zenon
  <2>4. CASE Store(h)
    BY <2>4, StoreSure, Zenon
  <2> QED
    BY <1>2, <2>1, <2>2, <2>3, <2>4, Zenon DEF HandlerStep
<1>3. ASSUME NEW a \in Addr, NEW n \in 0 .. MaxForeign - 1, Foreign(a, n)
      PROVE  SureOf(c)'
  <2>1. UNCHANGED <<pc, nonce, stored, unsure>> /\ accepted \subseteq accepted'
    BY <1>3, Zenon DEF Foreign, disk
  <2>2. \A x \in accepted' \ accepted : x.call = NONE
    BY <1>3 DEF Foreign
  <2> QED
    BY <2>1, <2>2, QuietSure, Zenon
<1>4. CASE UNCHANGED vars
  <2>1. UNCHANGED <<pc, nonce, stored, unsure>> /\ accepted' = accepted
    BY <1>4, Zenon DEF vars, disk
  <2> QED
    BY <2>1, QuietSure, Zenon
<1> QED
  BY <1>1, <1>2, <1>3, <1>4, TrySure, CrashSure, Zenon DEF Next

(* MpoolPushMessage sends one message for a uuid, however often the call   *)
(* is made, when each retry comes after the handlers before it returned.   *)
THEOREM UuidsSendOnce == Spec => []OnceWhenSure
<1>1. Init => Sure
  BY PushAssumption, Zenon DEF Init, Sure, Sent, Before, Sending, Passive
<1>2. IInv /\ Sure => OnceWhenSure
  <2> SUFFICES ASSUME IInv, Sure, NEW x \in accepted, NEW y \in accepted,
                      x.call \in Tagged \ unsure, x.call = y.call
               PROVE  x = y
    BY Zenon DEF OnceWhenSure
  <2> QED
    BY DEF Sure, Sent
<1> QED
  BY Inductive, NextSure, <1>1, <1>2, PTL DEF Spec
=============================================================================
