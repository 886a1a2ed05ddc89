------------------------- MODULE RateLimiterProofs -------------------------
(***************************************************************************)
(* Proofs about RateLimiter for every set of requests and keys, every      *)
(* limit, window length and cleanup period.                                *)
(***************************************************************************)
EXTENDS RateLimiter, FiniteSetTheorems, TLAPS

\* A window lists charges only, all of those that are younger than a minute,
\* and never more than Limit of them.
WindowKeeps(w) ==
  /\ requests[w] \subseteq ChargedTo(w)
  /\ \A q \in ChargedTo(w) : stamp[q] > now - Minute => q \in requests[w]
  /\ IsFiniteSet(requests[w])
  /\ Cardinality(requests[w]) <= Limit

\* No charge is dated in the future.
ChargesPast == \A q \in Requests : stamp[q] <= now

\* A handler past window() holds a window object.
HoldsWindow ==
  \A q \in Requests : pc[q] \in {"holding", "allowed", "denied"} => held[q] \in Requests

LimitInv ==
  /\ TypeOK
  /\ ChargesPast
  /\ HoldsWindow
  /\ \A w \in Requests : WindowKeeps(w)
  /\ WindowLimit

\* The initial state is well typed.
LEMMA RateLimiterInitTypeOK == Init => TypeOK
<1> SUFFICES ASSUME Init PROVE TypeOK
  OBVIOUS
<1> USE DEF Init
<1>1. now \in Nat /\ cutoff \in Int
  OBVIOUS
<1>. tickDue \in BOOLEAN /\ sweeping \in BOOLEAN
  OBVIOUS
<1>2. pc \in [Requests -> {"new", "arrived", "holding", "allowed", "denied"}]
  OBVIOUS
<1>3. key \in [Requests -> Keys \cup {NoHeader}]
  OBVIOUS
<1>4. \A r \in Requests : pc[r] # "new" => key[r] \in Keys
  OBVIOUS
<1>5. held \in [Requests -> Requests \cup {NoWindow}]
  OBVIOUS
<1>6. stamp \in [Requests -> Nat] /\ requests \in [Requests -> SUBSET Requests]
  OBVIOUS
<1>7. windows \in [Keys -> Requests \cup {NoWindow}]
  OBVIOUS
<1>8. todo \in SUBSET Keys /\ strays \in SUBSET Requests
  OBVIOUS
<1>9. QED
  BY <1>1, <1>2, <1>3, <1>4, <1>5, <1>6, <1>7, <1>8 DEF TypeOK

\* Every step keeps the types.
LEMMA RateLimiterStepTypeOK == TypeOK /\ [Next]_vars => TypeOK'
<1> SUFFICES ASSUME TypeOK, [Next]_vars PROVE TypeOK'
  OBVIOUS
<1> USE RateLimiterAssumption DEF RateLimiterAssumption, TypeOK
<1>1. CASE Tick
  BY <1>1 DEF Tick
<1>2. ASSUME NEW r \in Requests, Arrive(r) PROVE TypeOK'
  <2>1. PICK header \in HeaderKeys \cup {NoHeader}, remote \in RemoteAddrs :
          key' = [key EXCEPT ![r] = RateKey(header, remote)]
    BY <1>2 DEF Arrive
  <2>2. RateKey(header, remote) \in Keys
    BY DEF RateKey, Keys
  <2>3. QED
    BY <1>2, <2>1, <2>2 DEF Arrive
<1>3. ASSUME NEW r \in Requests, Lookup(r) PROVE TypeOK'
  BY <1>3 DEF Lookup, Window
<1>4. ASSUME NEW r \in Requests, Admit(r) PROVE TypeOK'
  BY <1>4 DEF Admit, Valid
<1>5. ASSUME NEW r \in Requests, Deny(r) PROVE TypeOK'
  BY <1>5 DEF Deny, Valid
<1>6. CASE CleanupStart
  <2>1. todo' \in SUBSET Keys /\ cutoff' \in Int
    BY <1>6 DEF CleanupStart
  <2>2. QED
    BY <1>6, <2>1 DEF CleanupStart
<1>7. ASSUME NEW k \in Keys, CleanupVisit(k) PROVE TypeOK'
  BY <1>7 DEF CleanupVisit
<1>8. CASE CleanupEnd
  BY <1>8 DEF CleanupEnd
<1>9. CASE UNCHANGED vars
  BY <1>9 DEF vars
<1>10. QED
  BY <1>1, <1>2, <1>3, <1>4, <1>5, <1>6, <1>7, <1>8, <1>9 DEF Next

\* The variables keep their types: in particular a request past its arrival
\* has a limiter key, whichever of header and address it came with.
THEOREM RateLimiterTypeOK == Spec => []TypeOK
  BY RateLimiterInitTypeOK, RateLimiterStepTypeOK, PTL DEF Spec

-----------------------------------------------------------------------------

\* A set cut out of charges that are all in a full-or-less window is no
\* larger than the limit.
LEMMA WithinLimit ==
  ASSUME NEW S, NEW T, IsFiniteSet(T), Cardinality(T) <= Limit, S \subseteq T
  PROVE  Cardinality(S) <= Limit
BY RateLimiterAssumption, FS_Subset, FS_CardinalityType DEF RateLimiterAssumption

\* The step that charges a request: the window it is charged to stays within
\* the limit, and so does every minute that ends with a charge to it.
LEMMA AdmitKeepsLimit ==
  ASSUME LimitInv, NEW r \in Requests, Admit(r), TypeOK'
  PROVE  LimitInv'
<1> DEFINE w0 == held[r]
           kept == Valid(w0)
<1>1. /\ w0 \in Requests
      /\ pc[r] = "holding"
      /\ Cardinality(kept) < Limit
      /\ requests' = [requests EXCEPT ![w0] = kept \cup {r}]
      /\ stamp' = [stamp EXCEPT ![r] = now]
      /\ pc' = [pc EXCEPT ![r] = "allowed"]
      /\ held' = held
      /\ now' = now
  BY DEF Admit, Room, LimitInv, HoldsWindow
<1>2. kept \subseteq requests[w0] /\ IsFiniteSet(requests[w0])
  BY <1>1 DEF Valid, LimitInv, WindowKeeps
<1>3. IsFiniteSet(kept) /\ Cardinality(kept) \in Nat
  BY <1>2, FS_Subset, FS_CardinalityType
<1>4. /\ IsFiniteSet(kept \cup {r})
      /\ Cardinality(kept \cup {r}) <= Limit
  <2>1. /\ IsFiniteSet(kept \cup {r})
        /\ Cardinality(kept \cup {r}) = Cardinality(kept)
           \/ Cardinality(kept \cup {r}) = Cardinality(kept) + 1
    BY <1>3, FS_AddElement
  <2>2. QED
    BY <1>1, <1>3, <2>1, RateLimiterAssumption DEF RateLimiterAssumption
<1>5. \A w \in Requests : ChargedTo(w)' = IF w = w0 THEN ChargedTo(w) \cup {r}
                                                     ELSE ChargedTo(w)
  BY <1>1 DEF ChargedTo, LimitInv, TypeOK
<1>6. \A w \in Requests : r \notin ChargedTo(w)
  BY <1>1 DEF ChargedTo
<1>7. ChargesPast'
  BY <1>1 DEF ChargesPast, LimitInv, TypeOK
<1>8. HoldsWindow'
  BY <1>1 DEF HoldsWindow, LimitInv, TypeOK
<1>9. ASSUME NEW w \in Requests PROVE WindowKeeps(w)'
  <2>1. CASE w # w0
    <3>1. /\ requests'[w] = requests[w]
          /\ ChargedTo(w)' = ChargedTo(w)
          /\ \A q \in ChargedTo(w) : stamp'[q] = stamp[q]
      BY <1>1, <1>5, <1>6, <2>1 DEF LimitInv, TypeOK, ChargedTo
    <3>2. QED
      BY <1>1, <3>1 DEF LimitInv, WindowKeeps
  <2>2. CASE w = w0
    <3>1. requests'[w] = kept \cup {r}
      BY <1>1, <2>2 DEF LimitInv, TypeOK
    <3>2. requests'[w] \subseteq ChargedTo(w)'
      BY <1>2, <1>5, <2>2, <3>1 DEF LimitInv, WindowKeeps
    <3>3. \A q \in ChargedTo(w)' : stamp'[q] > now' - Minute => q \in requests'[w]
      <4> SUFFICES ASSUME NEW q \in ChargedTo(w), stamp[q] > now - Minute
                   PROVE  q \in kept
        BY <1>1, <1>5, <1>6, <2>2, <3>1 DEF LimitInv, TypeOK, ChargedTo
      <4> QED
        BY <2>2 DEF LimitInv, WindowKeeps, Valid
    <3>4. QED
      BY <1>4, <3>1, <3>2, <3>3 DEF WindowKeeps
  <2>3. QED
    BY <2>1, <2>2
<1>10. WindowLimit'
  <2> SUFFICES ASSUME NEW w \in Requests, NEW q \in ChargedTo(w)'
               PROVE  Cardinality({p \in ChargedTo(w)' :
                        /\ stamp'[q] - Minute < stamp'[p]
                        /\ stamp'[p] <= stamp'[q]}) <= Limit
    BY DEF WindowLimit, AtMostLimitPerMinute
  <2> DEFINE minute == {p \in ChargedTo(w)' : /\ stamp'[q] - Minute < stamp'[p]
                                              /\ stamp'[p] <= stamp'[q]}
             before == {p \in ChargedTo(w) : /\ stamp[q] - Minute < stamp[p]
                                             /\ stamp[p] <= stamp[q]}
  <2>1. CASE stamp'[q] = now
    <3>1. minute \subseteq requests'[w]
      BY <1>1, <1>9, <2>1 DEF WindowKeeps
    <3>2. QED
      BY <1>9, <3>1, WithinLimit DEF WindowKeeps
  <2>2. CASE stamp'[q] # now
    <3>2. stamp'[r] = now /\ \A p \in Requests \ {r} : stamp'[p] = stamp[p]
      BY <1>1 DEF LimitInv, TypeOK
    <3>0. q # r /\ q \in ChargedTo(w) /\ q \in Requests
      BY <1>5, <2>2, <3>2 DEF ChargedTo
    <3>1. stamp'[q] = stamp[q] /\ stamp[q] < now /\ stamp[q] \in Nat /\ now \in Nat
      BY <2>2, <3>0, <3>2 DEF LimitInv, TypeOK, ChargesPast
    <3>3. minute = before
      BY <1>5, <1>6, <3>0, <3>1, <3>2 DEF ChargedTo
    <3>4. Cardinality(before) <= Limit
      BY <3>0 DEF LimitInv, WindowLimit, AtMostLimitPerMinute
    <3>5. QED
      BY <3>3, <3>4
  <2>3. QED
    BY <2>1, <2>2
<1>11. QED
  BY <1>7, <1>8, <1>9, <1>10 DEF LimitInv

\* A denied request charges nothing; its window is cut down to what counts.
LEMMA DenyKeepsLimit ==
  ASSUME LimitInv, NEW r \in Requests, Deny(r), TypeOK'
  PROVE  LimitInv'
<1> DEFINE w0 == held[r]
           kept == Valid(w0)
<1>1. /\ w0 \in Requests
      /\ pc[r] = "holding"
      /\ requests' = [requests EXCEPT ![w0] = kept]
      /\ pc' = [pc EXCEPT ![r] = "denied"]
      /\ stamp' = stamp /\ held' = held /\ now' = now
  BY DEF Deny, LimitInv, HoldsWindow
<1>2. \A w \in Requests : ChargedTo(w)' = ChargedTo(w)
  BY <1>1 DEF ChargedTo, LimitInv, TypeOK
<1>3. ChargesPast' /\ HoldsWindow'
  BY <1>1 DEF ChargesPast, HoldsWindow, LimitInv, TypeOK
<1>4. ASSUME NEW w \in Requests PROVE WindowKeeps(w)'
  <2>1. requests'[w] \subseteq requests[w]
    BY <1>1 DEF LimitInv, TypeOK, Valid
  <2>2. IsFiniteSet(requests'[w]) /\ Cardinality(requests'[w]) <= Limit
    BY <2>1, WithinLimit, FS_Subset DEF LimitInv, WindowKeeps
  <2>3. \A q \in ChargedTo(w) : stamp[q] > now - Minute => q \in requests'[w]
    BY <1>1 DEF LimitInv, TypeOK, WindowKeeps, Valid
  <2>4. QED
    BY <1>1, <1>2, <2>1, <2>2, <2>3 DEF LimitInv, WindowKeeps
<1>5. WindowLimit'
  BY <1>1, <1>2 DEF LimitInv, WindowLimit, AtMostLimitPerMinute
<1>6. QED
  BY <1>3, <1>4, <1>5 DEF LimitInv

\* Any other step charges nothing, forgets no charge, and may only let time
\* pass.
LEMMA OtherStepsKeepLimit ==
  ASSUME LimitInv, TypeOK',
         now' >= now, stamp' = stamp, requests' = requests,
         \A q \in Requests : pc'[q] = "allowed" <=> pc[q] = "allowed",
         \A q \in Requests : pc[q] = "allowed" => held'[q] = held[q],
         HoldsWindow'
  PROVE  LimitInv'
<1>1. \A w \in Requests : ChargedTo(w)' = ChargedTo(w)
  BY DEF ChargedTo
<1>2. ChargesPast'
  BY DEF ChargesPast, LimitInv, TypeOK
<1>3. ASSUME NEW w \in Requests PROVE WindowKeeps(w)'
  <2>1. \A q \in ChargedTo(w) : stamp[q] > now' - Minute => q \in requests[w]
    <3>1. now \in Int /\ now' \in Int /\ Minute \in Int
      BY RateLimiterAssumption DEF RateLimiterAssumption, LimitInv, TypeOK
    <3>2. \A q \in ChargedTo(w) : stamp[q] \in Int
      BY DEF ChargedTo, LimitInv, TypeOK
    <3>3. QED
      BY <3>1, <3>2 DEF LimitInv, WindowKeeps
  <2>2. QED
    BY <1>1, <2>1 DEF LimitInv, WindowKeeps
<1>4. WindowLimit'
  BY <1>1 DEF LimitInv, WindowLimit, AtMostLimitPerMinute
<1>5. QED
  BY <1>2, <1>3, <1>4 DEF LimitInv

\* The initial state has admitted nothing.
LEMMA InitLimitInv == Init => LimitInv
<1> SUFFICES ASSUME Init, TypeOK PROVE LimitInv
  BY RateLimiterInitTypeOK
<1>1. \A w \in Requests : ChargedTo(w) = {}
  BY DEF Init, ChargedTo
<1>2. \A w \in Requests : WindowKeeps(w)
  BY <1>1, FS_EmptySet, RateLimiterAssumption DEF RateLimiterAssumption, Init, WindowKeeps
<1>3. ChargesPast /\ HoldsWindow
  BY DEF Init, ChargesPast, HoldsWindow
<1>4. QED
  BY <1>1, <1>2, <1>3 DEF LimitInv, WindowLimit, AtMostLimitPerMinute

\* Every step keeps the invariant.
LEMMA StepLimitInv == LimitInv /\ [Next]_vars => LimitInv'
<1> SUFFICES ASSUME LimitInv, [Next]_vars, TypeOK' PROVE LimitInv'
  BY RateLimiterStepTypeOK DEF LimitInv
<1>1. CASE Tick
  BY <1>1, OtherStepsKeepLimit DEF Tick, LimitInv, TypeOK, HoldsWindow
<1>2. ASSUME NEW r \in Requests, Arrive(r) PROVE LimitInv'
  <2>1. HoldsWindow'
    BY <1>2 DEF Arrive, LimitInv, TypeOK, HoldsWindow
  <2>2. QED
    BY <1>2, <2>1, OtherStepsKeepLimit DEF Arrive, LimitInv, TypeOK
<1>3. ASSUME NEW r \in Requests, Lookup(r) PROVE LimitInv'
  <2>1. Window(key[r], r) \in Requests
    BY <1>3 DEF Lookup, Window, LimitInv, TypeOK
  <2>2. HoldsWindow'
    BY <1>3, <2>1 DEF Lookup, LimitInv, TypeOK, HoldsWindow
  <2>3. QED
    BY <1>3, <2>2, OtherStepsKeepLimit DEF Lookup, LimitInv, TypeOK
<1>4. ASSUME NEW r \in Requests, Admit(r) PROVE LimitInv'
  BY <1>4, AdmitKeepsLimit
<1>5. ASSUME NEW r \in Requests, Deny(r) PROVE LimitInv'
  BY <1>5, DenyKeepsLimit
<1>6. CASE CleanupStart
  BY <1>6, OtherStepsKeepLimit DEF CleanupStart, LimitInv, TypeOK, HoldsWindow
<1>7. ASSUME NEW k \in Keys, CleanupVisit(k) PROVE LimitInv'
  BY <1>7, OtherStepsKeepLimit DEF CleanupVisit, LimitInv, TypeOK, HoldsWindow
<1>8. CASE CleanupEnd
  BY <1>8, OtherStepsKeepLimit DEF CleanupEnd, LimitInv, TypeOK, HoldsWindow
<1>9. CASE UNCHANGED vars
  BY <1>9, OtherStepsKeepLimit DEF vars, LimitInv, TypeOK, HoldsWindow
<1>10. QED
  BY <1>1, <1>2, <1>3, <1>4, <1>5, <1>6, <1>7, <1>8, <1>9 DEF Next

\* However handlers, sweeps and the clock interleave, no window object admits
\* more than Limit requests in any minute.
THEOREM RateLimiterWindowLimit == Spec => []WindowLimit
<1>1. LimitInv => WindowLimit
  BY DEF LimitInv
<1>2. QED
  BY <1>1, InitLimitInv, StepLimitInv, PTL DEF Spec

-----------------------------------------------------------------------------

\* The requests admitted for a key whose charges the map knows of.
OfKey(k) == {q \in Requests \ strays : pc[q] = "allowed" /\ key[q] = k}

\* A sweep's cutoff is a minute old at least.
CutoffPast == sweeping => cutoff <= now - Minute

\* The charges of a key that still count are all on the window the map has for
\* it, strays apart.
RecentOnWindow ==
  \A k \in Keys : \A q \in OfKey(k) :
    stamp[q] > now - Minute => held[q] = windows[k]

KeyInv == CutoffPast /\ RecentOnWindow /\ KeyLimitBarringStrays

\* A step that charges nothing and takes no window with charges that count out of
\* the map, nor puts another in its place.
LEMMA OtherStepsKeepKeyLimit ==
  ASSUME LimitInv, KeyInv, TypeOK',
         now' >= now, stamp' = stamp, strays' = strays,
         \A q \in Requests : pc'[q] = "allowed" <=> pc[q] = "allowed",
         \A q \in Requests : pc[q] = "allowed" => held'[q] = held[q] /\ key'[q] = key[q],
         \A k \in Keys : \A q \in OfKey(k) :
           stamp[q] > now - Minute => windows'[k] = windows[k],
         CutoffPast'
  PROVE  KeyInv'
<1>1. \A k : OfKey(k)' = OfKey(k)
  BY DEF OfKey
<1>2. RecentOnWindow'
  <2> SUFFICES ASSUME NEW k \in Keys, NEW q \in OfKey(k), stamp[q] > now' - Minute
               PROVE  held'[q] = windows'[k]
    BY <1>1 DEF RecentOnWindow
  <2>1. now \in Int /\ now' \in Int /\ Minute \in Int /\ stamp[q] \in Int
    BY RateLimiterAssumption DEF RateLimiterAssumption, LimitInv, TypeOK, OfKey
  <2>2. stamp[q] > now - Minute
    BY <2>1
  <2>3. QED
    BY <2>2 DEF KeyInv, RecentOnWindow, OfKey
<1>3. KeyLimitBarringStrays'
  BY <1>1 DEF KeyInv, KeyLimitBarringStrays, AtMostLimitPerMinute, OfKey
<1>4. QED
  BY <1>2, <1>3 DEF KeyInv

\* The step that charges a request, to the window of its key or as a stray.
LEMMA AdmitKeepsKeyLimit ==
  ASSUME LimitInv, KeyInv, NEW r \in Requests, Admit(r), LimitInv'
  PROVE  KeyInv'
<1>1. /\ held[r] \in Requests /\ key[r] \in Keys /\ pc[r] = "holding"
      /\ stamp' = [stamp EXCEPT ![r] = now]
      /\ pc' = [pc EXCEPT ![r] = "allowed"]
      /\ UNCHANGED <<held, key, windows, now, cutoff, sweeping>>
      /\ strays' = IF windows[key[r]] = held[r] THEN strays ELSE strays \cup {r}
  BY DEF Admit, LimitInv, HoldsWindow, TypeOK
<1>2. /\ stamp'[r] = now /\ \A q \in Requests \ {r} : stamp'[q] = stamp[q]
      /\ \A q \in Requests : stamp[q] \in Nat /\ stamp[q] <= now
      /\ now \in Nat /\ Minute \in Nat \ {0}
  BY <1>1, RateLimiterAssumption DEF RateLimiterAssumption, LimitInv, TypeOK, ChargesPast
<1>3. \A k : r \notin OfKey(k)
  BY <1>1 DEF OfKey
<1>4. \A k : OfKey(k)' = IF k = key[r] /\ windows[k] = held[r] /\ r \notin strays
                         THEN OfKey(k) \cup {r} ELSE OfKey(k)
  BY <1>1 DEF OfKey, LimitInv, TypeOK
<1>5. CutoffPast'
  BY <1>1 DEF KeyInv, CutoffPast
<1>6. RecentOnWindow'
  <2> SUFFICES ASSUME NEW k \in Keys, NEW q \in OfKey(k)', stamp'[q] > now - Minute
               PROVE  held[q] = windows[k]
    BY <1>1 DEF RecentOnWindow
  <2>1. CASE q = r
    BY <1>3, <1>4, <2>1
  <2>2. CASE q # r
    BY <1>2, <1>4, <2>2 DEF KeyInv, RecentOnWindow, OfKey
  <2>3. QED
    BY <2>1, <2>2
<1>7. KeyLimitBarringStrays'
  <2> SUFFICES ASSUME NEW k \in Keys, NEW q \in OfKey(k)'
               PROVE  Cardinality({p \in OfKey(k)' : /\ stamp'[q] - Minute < stamp'[p]
                                                     /\ stamp'[p] <= stamp'[q]}) <= Limit
    BY DEF KeyLimitBarringStrays, AtMostLimitPerMinute, OfKey
  <2> DEFINE minute == {p \in OfKey(k)' : /\ stamp'[q] - Minute < stamp'[p]
                                          /\ stamp'[p] <= stamp'[q]}
             before == {p \in OfKey(k) : /\ stamp[q] - Minute < stamp[p]
                                         /\ stamp[p] <= stamp[q]}
  <2>1. q \in Requests /\ \A p \in OfKey(k)' : p \in Requests /\ pc'[p] = "allowed"
    BY DEF OfKey
  <2>2. CASE stamp'[q] = now
    <3>1. \A p \in minute : held[p] = windows[k]
      BY <1>1, <1>6, <2>2 DEF RecentOnWindow
    <3>2. held[q] = windows[k] /\ held[q] \in Requests
      <4>1. q \in minute
        BY <1>2, <2>1, <2>2
      <4>2. held'[q] \in Requests
        BY <2>1 DEF LimitInv, HoldsWindow
      <4>3. QED
        BY <1>1, <3>1, <4>1, <4>2
    <3>3. minute \subseteq requests'[held[q]]
      <4> SUFFICES ASSUME NEW p \in minute PROVE p \in requests'[held[q]]
        OBVIOUS
      <4>1. p \in ChargedTo(held[q])'
        BY <1>1, <2>1, <3>1, <3>2 DEF ChargedTo
      <4>2. stamp'[p] > now' - Minute
        BY <1>1, <2>2
      <4>3. \A w \in Requests : WindowKeeps(w)'
        BY DEF LimitInv
      <4>4. \A x \in ChargedTo(held[q])' : stamp'[x] > now' - Minute => x \in requests'[held[q]]
        BY <1>1, <3>2, <4>3 DEF WindowKeeps
      <4>5. QED
        BY <4>1, <4>2, <4>4
    <3>4. QED
      BY <3>2, <3>3, WithinLimit DEF LimitInv, WindowKeeps
  <2>3. CASE stamp'[q] # now
    <3>1. q # r /\ stamp'[q] = stamp[q] /\ stamp[q] < now
      BY <1>2, <2>1, <2>3
    <3>2. q \in OfKey(k)
      BY <1>4, <3>1
    <3>3. \A p \in OfKey(k)' : p = r \/ (p \in OfKey(k) /\ stamp'[p] = stamp[p])
      BY <1>2, <1>4, <2>1
    <3>4. \A p \in OfKey(k) : p \in OfKey(k)' /\ stamp'[p] = stamp[p]
      BY <1>2, <1>3, <1>4 DEF OfKey
    <3>5. minute = before
      <4>1. stamp'[q] \in Int /\ now \in Int /\ ~(now <= stamp'[q])
        BY <1>2, <2>1, <3>1
      <4>2. \A p \in minute : p # r
        BY <1>2, <4>1
      <4>3. minute \subseteq before
        BY <3>1, <3>3, <4>2
      <4>4. before \subseteq minute
        BY <3>1, <3>4
      <4>5. QED
        BY <4>3, <4>4
    <3>6. Cardinality(before) <= Limit
      BY <3>2 DEF KeyInv, KeyLimitBarringStrays, AtMostLimitPerMinute, OfKey
    <3>7. QED
      BY <3>5, <3>6
  <2>4. QED
    BY <2>2, <2>3
<1>8. QED
  BY <1>5, <1>6, <1>7 DEF KeyInv

\* What a sweep takes out of the map has no charge that still counts.
LEMMA IdleIsExpired ==
  ASSUME LimitInv, KeyInv, sweeping, NEW w \in Requests, Idle(w)
  PROVE  /\ \A q \in requests[w] : stamp[q] <= now - Minute
         /\ \A q \in ChargedTo(w) : ~(stamp[q] > now - Minute)
<1>1. cutoff <= now - Minute /\ cutoff \in Int /\ now \in Int /\ Minute \in Int
  BY RateLimiterAssumption DEF RateLimiterAssumption, KeyInv, CutoffPast, LimitInv, TypeOK
<1>2. \A q \in requests[w] : stamp[q] \in Int /\ stamp[q] < cutoff
  BY DEF LimitInv, TypeOK, Idle
<1>3. \A q \in requests[w] : stamp[q] <= now - Minute
  BY <1>1, <1>2
<1>4. \A q \in ChargedTo(w) : stamp[q] > now - Minute => q \in requests[w]
  BY DEF LimitInv, WindowKeeps
<1>5. \A q \in ChargedTo(w) : ~(stamp[q] > now - Minute)
  BY <1>1, <1>2, <1>4
<1>6. QED
  BY <1>3, <1>5

LEMMA StepKeyInv ==
  ASSUME LimitInv, KeyInv, [Next]_vars, LimitInv'
  PROVE  KeyInv'
<1>a. TypeOK /\ TypeOK'
  BY DEF LimitInv
<1>b. now \in Int /\ Minute \in Int /\ cutoff \in Int
  BY <1>a, RateLimiterAssumption DEF RateLimiterAssumption, TypeOK
<1>1. CASE Tick
  <2>1. CutoffPast'
    BY <1>1, <1>b DEF Tick, KeyInv, CutoffPast
  <2>2. QED
    BY <1>1, <1>a, <1>b, <2>1, OtherStepsKeepKeyLimit DEF Tick
<1>2. ASSUME NEW r \in Requests, Arrive(r) PROVE KeyInv'
  <2>1. CutoffPast'
    BY <1>2 DEF Arrive, KeyInv, CutoffPast
  <2>2. \A q \in Requests : /\ pc'[q] = "allowed" <=> pc[q] = "allowed"
                            /\ pc[q] = "allowed" => held'[q] = held[q] /\ key'[q] = key[q]
    BY <1>2, <1>a DEF Arrive, TypeOK
  <2>3. QED
    BY <1>2, <1>a, <1>b, <2>1, <2>2, OtherStepsKeepKeyLimit DEF Arrive
<1>3. ASSUME NEW r \in Requests, Lookup(r) PROVE KeyInv'
  <2>1. CutoffPast'
    BY <1>3 DEF Lookup, KeyInv, CutoffPast
  <2>2. \A q \in Requests : /\ pc'[q] = "allowed" <=> pc[q] = "allowed"
                            /\ pc[q] = "allowed" => held'[q] = held[q] /\ key'[q] = key[q]
    BY <1>3, <1>a DEF Lookup, TypeOK
  <2>3. ASSUME NEW k \in Keys, NEW q \in OfKey(k), stamp[q] > now - Minute
        PROVE  windows'[k] = windows[k]
    <3>1. windows[k] = held[q] /\ held[q] \in Requests
      BY <2>3 DEF KeyInv, RecentOnWindow, OfKey, LimitInv, HoldsWindow
    <3>2. windows[k] # NoWindow
      BY <3>1, RateLimiterAssumption DEF RateLimiterAssumption
    <3>3. windows' = [windows EXCEPT ![key[r]] = Window(key[r], r)]
      BY <1>3 DEF Lookup
    <3>4. QED
      BY <1>a, <3>2, <3>3 DEF Window, TypeOK
  <2>4. now' = now /\ stamp' = stamp /\ strays' = strays
    BY <1>3 DEF Lookup
  <2>5. QED
    BY <1>a, <1>b, <2>1, <2>2, <2>3, <2>4, OtherStepsKeepKeyLimit
<1>4. ASSUME NEW r \in Requests, Admit(r) PROVE KeyInv'
  BY <1>4, AdmitKeepsKeyLimit
<1>5. ASSUME NEW r \in Requests, Deny(r) PROVE KeyInv'
  <2>1. CutoffPast'
    BY <1>5 DEF Deny, KeyInv, CutoffPast
  <2>2. \A q \in Requests : /\ pc'[q] = "allowed" <=> pc[q] = "allowed"
                            /\ pc[q] = "allowed" => held'[q] = held[q] /\ key'[q] = key[q]
    BY <1>5, <1>a DEF Deny, TypeOK
  <2>3. QED
    BY <1>5, <1>a, <1>b, <2>1, <2>2, OtherStepsKeepKeyLimit DEF Deny
<1>6. CASE CleanupStart
  <2>1. CutoffPast'
    BY <1>6, <1>b DEF CleanupStart, CutoffPast
  <2>2. QED
    BY <1>6, <1>a, <1>b, <2>1, OtherStepsKeepKeyLimit DEF CleanupStart
<1>7. ASSUME NEW k \in Keys, CleanupVisit(k) PROVE KeyInv'
  <2>1. CutoffPast'
    BY <1>7 DEF CleanupVisit, KeyInv, CutoffPast
  <2>2. ASSUME NEW l \in Keys, NEW q \in OfKey(l), stamp[q] > now - Minute
        PROVE  windows'[l] = windows[l]
    <3>1. windows[l] = held[q] /\ held[q] \in Requests /\ q \in ChargedTo(held[q])
      BY <2>2 DEF KeyInv, RecentOnWindow, OfKey, LimitInv, HoldsWindow, ChargedTo
    <3>2. sweeping /\ windows' = IF Idle(windows[k]) THEN [windows EXCEPT ![k] = NoWindow]
                                 ELSE windows
      BY <1>7 DEF CleanupVisit
    <3>3. ~Idle(windows[l])
      BY <2>2, <3>1, <3>2, IdleIsExpired
    <3>4. QED
      BY <1>a, <3>2, <3>3 DEF TypeOK
  <2>3. QED
    BY <1>7, <1>a, <1>b, <2>1, <2>2, OtherStepsKeepKeyLimit DEF CleanupVisit
<1>8. CASE CleanupEnd
  <2>1. CutoffPast'
    BY <1>8 DEF CleanupEnd, CutoffPast
  <2>2. QED
    BY <1>8, <1>a, <1>b, <2>1, OtherStepsKeepKeyLimit DEF CleanupEnd
<1>9. CASE UNCHANGED vars
  <2>1. CutoffPast'
    BY <1>9 DEF vars, KeyInv, CutoffPast
  <2>2. QED
    BY <1>9, <1>a, <1>b, <2>1, OtherStepsKeepKeyLimit DEF vars
<1>10. QED
  BY <1>1, <1>2, <1>3, <1>4, <1>5, <1>6, <1>7, <1>8, <1>9 DEF Next

\* The initial state has admitted nothing for any key.
LEMMA InitKeyInv == Init => LimitInv /\ KeyInv
<1> SUFFICES ASSUME Init PROVE KeyInv
  BY InitLimitInv
<1>1. \A k : OfKey(k) = {}
  BY DEF Init, OfKey
<1>2. QED
  BY <1>1 DEF Init, KeyInv, CutoffPast, RecentOnWindow, KeyLimitBarringStrays,
              AtMostLimitPerMinute, OfKey

\* Strays apart, no key is admitted more than Limit times in any minute, over all
\* the windows it has had.
THEOREM RateLimiterKeyLimit == Spec => []KeyLimitBarringStrays
<1>1. Init => LimitInv /\ KeyInv
  BY InitKeyInv
<1>2. (LimitInv /\ KeyInv) /\ [Next]_vars => (LimitInv /\ KeyInv)'
  BY StepLimitInv, StepKeyInv
<1>3. KeyInv => KeyLimitBarringStrays
  BY DEF KeyInv
<1>4. QED
  BY <1>1, <1>2, <1>3, PTL DEF Spec

\* No sweep takes a charge that still counts out of the map.
THEOREM RateLimiterCleanup == Spec => CleanupForgetsNothing
<1>1. Init => LimitInv /\ KeyInv
  BY InitKeyInv
<1>2. (LimitInv /\ KeyInv) /\ [Next]_vars => (LimitInv /\ KeyInv)'
  BY StepLimitInv, StepKeyInv
<1> DEFINE Forgets == \A k \in Keys :
             (windows[k] # NoWindow /\ windows'[k] = NoWindow)
               => \A q \in requests[windows[k]] : stamp[q] <= now - Minute
<1>3. (LimitInv /\ KeyInv) /\ [Next]_vars => [Forgets]_vars
  <2> SUFFICES ASSUME LimitInv, KeyInv, Next, NEW k \in Keys,
                      windows[k] # NoWindow, windows'[k] = NoWindow
               PROVE  \A q \in requests[windows[k]] : stamp[q] <= now - Minute
    BY DEF Forgets
  <2>1. windows[k] \in Requests
    BY DEF LimitInv, TypeOK
  <2>2. \A r \in Requests : ~Lookup(r)
    <3> SUFFICES ASSUME NEW r \in Requests, Lookup(r) PROVE FALSE
      OBVIOUS
    <3>1. Window(key[r], r) \in Requests /\ windows' = [windows EXCEPT ![key[r]] = Window(key[r], r)]
      BY DEF Lookup, Window, LimitInv, TypeOK
    <3>2. QED
      BY <3>1, RateLimiterAssumption DEF RateLimiterAssumption, LimitInv, TypeOK
  <2>3. PICK l \in Keys : CleanupVisit(l)
    BY <2>2 DEF Next, Tick, Arrive, Admit, Deny, CleanupStart, CleanupEnd
  <2>4. sweeping /\ Idle(windows[k])
    BY <2>3 DEF CleanupVisit, LimitInv, TypeOK
  <2>5. QED
    BY <2>1, <2>4, IdleIsExpired
<1>4. QED
  BY <1>1, <1>2, <1>3, PTL DEF Spec, CleanupForgetsNothing

-----------------------------------------------------------------------------

\* A handler has a window from its lookup on, and a request has a key from its
\* arrival on; an object nobody has looked up is in nobody's hands and under no key.
Unused ==
  /\ \A r \in Requests :
       /\ pc[r] = "new" => key[r] = NoHeader
       /\ pc[r] \in {"new", "arrived"} => held[r] = NoWindow
       /\ held[r] # NoWindow => pc[held[r]] \notin {"new", "arrived"}
  /\ \A k \in Keys : windows[k] # NoWindow => pc[windows[k]] \notin {"new", "arrived"}

\* The size of a set is the same in both modules.
LEMMA SameCardinality == \A S : Promise!Cardinality(S) = Cardinality(S)
BY DEF Promise!Cardinality, Cardinality, Promise!IsFiniteSet, IsFiniteSet

\* What allow() keeps of a window are all the charges on it that still count.
LEMMA ValidIsCounting ==
  ASSUME LimitInv, NEW w \in Requests
  PROVE  Valid(w) = Promise!Counting(w)
<1>1. WindowKeeps(w)
  BY DEF LimitInv
<1>2. Promise!Counting(w) = {q \in ChargedTo(w) : stamp[q] > now - Minute}
  BY DEF Promise!Counting, Verdict, ChargedTo
<1>3. QED
  BY <1>1, <1>2 DEF WindowKeeps, Valid

LEMMA StepUnused == TypeOK /\ Unused /\ [Next]_vars => Unused'
<1> SUFFICES ASSUME TypeOK, Unused, [Next]_vars PROVE Unused'
  OBVIOUS
<1> USE RateLimiterAssumption DEF RateLimiterAssumption, TypeOK, Unused
<1>1. CASE Tick
  BY <1>1 DEF Tick
<1>2. ASSUME NEW r \in Requests, Arrive(r) PROVE Unused'
  BY <1>2 DEF Arrive
<1>3. ASSUME NEW r \in Requests, Lookup(r) PROVE Unused'
  <2>1. /\ Window(key[r], r) \in Requests
        /\ Window(key[r], r) = r \/ pc[Window(key[r], r)] \notin {"new", "arrived"}
    BY <1>3 DEF Lookup, Window
  <2>2. QED
    BY <1>3, <2>1 DEF Lookup
<1>4. ASSUME NEW r \in Requests, Admit(r) \/ Deny(r) PROVE Unused'
  BY <1>4 DEF Admit, Deny
<1>5. CASE CleanupStart \/ CleanupEnd
  BY <1>5 DEF CleanupStart, CleanupEnd
<1>6. ASSUME NEW k \in Keys, CleanupVisit(k) PROVE Unused'
  BY <1>6 DEF CleanupVisit
<1>7. CASE UNCHANGED vars
  BY <1>7 DEF vars
<1>8. QED
  BY <1>1, <1>2, <1>3, <1>4, <1>5, <1>6, <1>7 DEF Next

\* Each step of the limiter is one that SlidingWindow allows, or none that
\* clients see.
LEMMA PromiseStep ==
  ASSUME LimitInv, KeyInv, Unused, [Next]_vars
  PROVE  Promise!Next \/ UNCHANGED <<now, key, held, windows, Verdict, stamp>>
<1> DEFINE Goal == Promise!Next \/ UNCHANGED <<now, key, held, windows, Verdict, stamp>>
<1>a. TypeOK /\ HoldsWindow
  BY DEF LimitInv
<1> USE <1>a, RateLimiterAssumption DEF RateLimiterAssumption, TypeOK
<1>1. CASE Tick
  <2>1. Promise!Pass
    BY <1>1 DEF Tick, Promise!Pass, Verdict
  <2>2. QED
    BY <2>1 DEF Promise!Next
<1>2. ASSUME NEW r \in Requests, Arrive(r) PROVE Goal
  <2>1. PICK header \in HeaderKeys \cup {NoHeader}, remote \in RemoteAddrs :
          key' = [key EXCEPT ![r] = RateKey(header, remote)]
    BY <1>2 DEF Arrive
  <2>2. RateKey(header, remote) \in Keys
    BY DEF RateKey, Keys
  <2>3. Promise!Ask(r, RateKey(header, remote))
    BY <1>2, <2>1 DEF Arrive, Promise!Ask, Verdict, Unused
  <2>4. QED
    BY <2>2, <2>3 DEF Promise!Next
<1>3. ASSUME NEW r \in Requests, Lookup(r) PROVE Goal
  <2> DEFINE w == Window(key[r], r)
  <2>1. w \in Requests /\ key[r] \in Keys /\ held[r] = NoWindow
    BY <1>3 DEF Lookup, Window, Unused
  <2>2. w = windows[key[r]] \/ (windows[key[r]] = NoWindow /\ Promise!Fresh(w))
    BY <1>3 DEF Lookup, Window, Unused, Promise!Fresh
  <2>3. Verdict' = Verdict
    BY <1>3 DEF Lookup, Verdict
  <2>4. Promise!Count(r, w)
    BY <1>3, <2>1, <2>2, <2>3 DEF Lookup, Promise!Count
  <2>5. QED
    BY <2>1, <2>4 DEF Promise!Next
<1>4. ASSUME NEW r \in Requests, Admit(r) PROVE Goal
  <2>1. held[r] \in Requests /\ Verdict[r] = "none"
    BY <1>4 DEF Admit, HoldsWindow, Verdict
  <2>2. Verdict' = [Verdict EXCEPT ![r] = "allowed"]
    BY <1>4 DEF Admit, Verdict
  <2>3. Cardinality(Promise!Counting(held[r])) < Limit
    BY <1>4, <2>1, ValidIsCounting DEF Admit, Room
  <2>4. Promise!Admit(r)
    BY <1>4, <2>1, <2>2, <2>3, SameCardinality DEF Admit, Promise!Admit, Promise!Pending
  <2>5. QED
    BY <2>4 DEF Promise!Next
<1>5. ASSUME NEW r \in Requests, Deny(r) PROVE Goal
  <2>1. held[r] \in Requests /\ Verdict[r] = "none"
    BY <1>5 DEF Deny, HoldsWindow, Verdict
  <2>2. Verdict' = [Verdict EXCEPT ![r] = "denied"]
    BY <1>5 DEF Deny, Verdict
  <2>3. Cardinality(Promise!Counting(held[r])) >= Limit
    <3>1. IsFiniteSet(requests[held[r]]) /\ Valid(held[r]) \subseteq requests[held[r]]
      BY <2>1 DEF LimitInv, WindowKeeps, Valid
    <3>2. Cardinality(Valid(held[r])) \in Nat
      BY <3>1, FS_Subset, FS_CardinalityType
    <3>3. QED
      BY <1>5, <2>1, <3>2, ValidIsCounting DEF Deny, Room
  <2>4. Promise!Deny(r)
    BY <1>5, <2>1, <2>2, <2>3, SameCardinality DEF Deny, Promise!Deny, Promise!Pending
  <2>5. QED
    BY <2>4 DEF Promise!Next
<1>6. ASSUME NEW k \in Keys, CleanupVisit(k) PROVE Goal
  <2>1. Verdict' = Verdict
    BY <1>6 DEF CleanupVisit, Verdict
  <2>2. CASE windows' = windows
    BY <1>6, <2>1, <2>2 DEF CleanupVisit
  <2>3. CASE windows' # windows
    <3>1. /\ sweeping /\ Idle(windows[k])
          /\ windows' = [windows EXCEPT ![k] = NoWindow]
          /\ windows[k] \in Requests
      BY <1>6, <2>3 DEF CleanupVisit
    <3>2. \A q \in ChargedTo(windows[k]) : ~(stamp[q] > now - Minute)
      BY <3>1, IdleIsExpired
    <3>3. Promise!Counting(windows[k]) = {}
      BY <3>2 DEF Promise!Counting, Verdict, ChargedTo
    <3>4. Promise!Retire(k)
      BY <1>6, <2>1, <3>1, <3>3 DEF CleanupVisit, Promise!Retire
    <3>5. QED
      BY <3>4 DEF Promise!Next
  <2>4. QED
    BY <2>2, <2>3
<1>7. CASE CleanupStart \/ CleanupEnd \/ UNCHANGED vars
  BY <1>7 DEF CleanupStart, CleanupEnd, vars, Verdict
<1>8. QED
  BY <1>1, <1>2, <1>3, <1>4, <1>5, <1>6, <1>7 DEF Next

\* The limiter, with its pruned slices, its sweeps and its two critical sections,
\* decides as a count that never forgets would: it admits nobody beyond the
\* limit, and refuses nobody within it.
THEOREM RateLimiterImplementsSlidingWindow == Spec => ImplementsSlidingWindow
<1> DEFINE Inv == LimitInv /\ KeyInv /\ Unused
<1>1. Init => Inv
  <2>1. Init => Unused
    BY DEF Init, Unused
  <2>2. QED
    BY <2>1, InitKeyInv
<1>2. Inv /\ [Next]_vars => Inv'
  BY StepLimitInv, StepKeyInv, StepUnused DEF LimitInv
<1>3. Init => Promise!Init
  BY DEF Init, Promise!Init, Verdict
<1>4. Inv /\ [Next]_vars => [Promise!Next]_<<now, key, held, windows, Verdict, stamp>>
  BY PromiseStep
<1>5. QED
  BY <1>1, <1>2, <1>3, <1>4, PTL DEF Spec, ImplementsSlidingWindow, Promise!Spec

=============================================================================
