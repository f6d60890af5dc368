---------------------------- MODULE NestedProofs ----------------------------
(***************************************************************************)
(* Proofs about the TAs that open sessions with other TAs: whatever        *)
(* threads open, close and make panic, the handles of nested sessions that *)
(* a live instance keeps name its open sessions, and nothing is left when  *)
(* the clients have closed their sessions.                                 *)
(***************************************************************************)
EXTENDS NestedTas, FiniteSetTheorems, NaturalsInduction, TLAPS

-----------------------------------------------------------------------------
\* The types of the sessions and instances.
InstRecords == [ta : TAs, dead : BOOLEAN]
SessRecords == [inst : InstIds, by : InstIds \cup {Host}]
CallRecords == [pc : {"idle", "copy", "invoke", "close"}, to : {"crypt", "sims"}, sec : BOOLEAN,
                sess : SessIds \cup {NoSession}]

TypeInv ==
    /\ DOMAIN inst \subseteq InstIds /\ inst \in [DOMAIN inst -> InstRecords]
    /\ DOMAIN sess \subseteq SessIds /\ sess \in [DOMAIN sess -> SessRecords]
    /\ DOMAIN ctx \subseteq SessIds /\ ctx \in [DOMAIN ctx -> SessIds \cup {NoSession}]
    /\ counter \in [InstIds -> Nat]
    /\ lost \in [InstIds -> Nat]
    /\ hostSess \in [Hosts -> SessIds \cup {NoSession}]
    /\ call \in [Hosts -> CallRecords]
    /\ buffers \in [InstIds -> BOOLEAN]
    /\ cached \in [InstIds -> [SdpTargets -> SessIds \cup {NoSession}]]
    /\ stor_session \in [InstIds -> SessIds \cup {NoSession}]
    /\ overwrote \in BOOLEAN

\* Which TAs the code of a TA opens, and which the threads do.
HostTas == SimsTas \cup {"rpc_test", "sdp_basic", "key"}
OpensTas(ta) == IF ta \in SimsTas THEN Targets
                ELSE IF ta = "rpc_test" THEN {"crypt", "sims"}
                ELSE IF ta = "sdp_basic" THEN SdpTargets
                ELSE IF ta = "key" THEN {"storage"} ELSE {}

\* A session is with an instance that is there, and was opened by a thread or by another
\* instance that is there, whose code opens sessions with such a TA.
SessionInv ==
    \A s \in DOMAIN sess :
        /\ sess[s].inst \in DOMAIN inst
        /\ sess[s].by = Host => inst[sess[s].inst].ta \in HostTas
        /\ sess[s].by # Host =>
              /\ sess[s].by \in DOMAIN inst
              /\ sess[s].by # sess[s].inst
              /\ inst[sess[s].inst].ta \in OpensTas(inst[sess[s].by].ta)

\* The sessions of the threads, one each.
HostInv ==
    /\ \A h \in Hosts : hostSess[h] # NoSession =>
          hostSess[h] \in DOMAIN sess /\ sess[hostSess[h]].by = Host
    /\ \A g, h \in Hosts : hostSess[g] = hostSess[h] /\ hostSess[h] # NoSession => g = h
    /\ \A s \in DOMAIN sess : sess[s].by = Host => \E h \in Hosts : hostSess[h] = s

\* An instance has a session, but the one that is kept alive, and only one if it is not
\* a single instance; there is one of each of those.
InstanceInv ==
    /\ \A i \in DOMAIN inst : inst[i].dead \/ inst[i].ta \notin KeepAlive =>
          \E s \in DOMAIN sess : sess[s].inst = i
    /\ \A s, r \in DOMAIN sess :
          sess[s].inst = sess[r].inst /\ inst[sess[s].inst].ta \notin SingleInstance => s = r
    /\ \A i, j \in DOMAIN inst : inst[i].ta = inst[j].ta /\ inst[i].ta \in SingleInstance => i = j
    /\ \A i \in DOMAIN inst : inst[i].dead => inst[i].ta \in SimsTas \cup {"rpc_test"}

\* Only what a thread has a session with opens sessions, single instances apart.
OpenerInv ==
    \A s \in DOMAIN sess :
        sess[s].by # Host /\ inst[sess[s].by].ta \notin SingleInstance =>
            \E r \in DOMAIN sess : sess[r].inst = sess[s].by /\ sess[r].by = Host

\* The contexts of sims: the nested session in one is an open session of the instance, it
\* is in no other context, and its client is a thread.
ContextInv ==
    /\ DOMAIN ctx = {s \in DOMAIN sess : inst[sess[s].inst].ta \in SimsTas}
    /\ \A s \in DOMAIN ctx : ctx[s] # NoSession =>
          /\ sess[s].by = Host /\ ~inst[sess[s].inst].dead
          /\ ctx[s] \in DOMAIN sess /\ sess[ctx[s]].by = sess[s].inst
    /\ \A s, r \in DOMAIN ctx : ctx[s] = ctx[r] /\ ctx[s] # NoSession => s = r

\* The variables of the secure data path TA and of the key TA.
StaticInv ==
    /\ \A i \in InstIds, t \in SdpTargets : cached[i][t] # NoSession =>
          /\ i \in DOMAIN inst /\ inst[i].ta = "sdp_basic"
          /\ cached[i][t] \in DOMAIN sess
          /\ sess[cached[i][t]].by = i /\ inst[sess[cached[i][t]].inst].ta = t
    /\ \A i \in InstIds : stor_session[i] # NoSession =>
          /\ i \in DOMAIN inst /\ inst[i].ta = "key"
          /\ stor_session[i] \in DOMAIN sess /\ sess[stor_session[i]].by = i

\* The commands of the RPC test TA and its copies of parameters.
CallOk(h) ==
    /\ call[h].pc # "idle" =>
          /\ hostSess[h] # NoSession
          /\ inst[InstOf(h)].ta = "rpc_test" /\ ~inst[InstOf(h)].dead
          /\ call[h].sess \in DOMAIN sess /\ sess[call[h].sess].by = InstOf(h)
          /\ call[h].pc = "copy" => call[h].sec
    /\ call[h].pc = "idle" => call[h].sess = NoSession

CallInv ==
    /\ \A h \in Hosts : CallOk(h)
    /\ \A i \in InstIds : buffers[i] =>
          /\ i \in DOMAIN inst /\ inst[i].ta = "rpc_test"
          /\ ~inst[i].dead => \E h \in Hosts : /\ hostSess[h] # NoSession /\ InstOf(h) = i
                                              /\ call[h].sec /\ call[h].pc \in {"invoke", "close"}

\* The nested sessions of a live instance of which it has no handle are counted.
LostOn(i) == OpenedBy(i) \ HandlesOf(i)

LostInv ==
    /\ \A i \in InstIds : lost[i] # 0 => i \in DOMAIN inst /\ inst[i].ta \in SimsTas /\ overwrote
    /\ \A i \in DOMAIN inst : ~inst[i].dead => Cardinality(LostOn(i)) = lost[i]

NInv == TypeInv /\ SessionInv /\ HostInv /\ InstanceInv /\ OpenerInv /\ ContextInv /\ StaticInv
            /\ CallInv /\ LostInv

-----------------------------------------------------------------------------
\* What a handle in HandlesOf is: a nested session in a context, in a variable of the TA
\* or in a command that runs.
Keeps(i, x) ==
    \/ \E s \in DOMAIN ctx : s \in DOMAIN sess /\ sess[s].inst = i /\ ctx[s] = x
    \/ \E t \in SdpTargets : cached[i][t] = x
    \/ stor_session[i] = x
    \/ \E h \in Hosts : hostSess[h] \in DOMAIN sess /\ sess[hostSess[h]].inst = i /\ call[h].sess = x

\* The handles of an instance are the values that one of its variables keeps.
LEMMA HandlesIff ==
    ASSUME NEW i, NEW x
    PROVE  x \in HandlesOf(i) <=> x # NoSession /\ Keeps(i, x)
  BY DEF HandlesOf, Keeps, SessionsOn

\* The same of the state after a step.
LEMMA HandlesIffNext ==
    ASSUME NEW i, NEW x
    PROVE  x \in HandlesOf(i)' <=> x # NoSession /\ Keeps(i, x)'
  BY DEF HandlesOf, Keeps, SessionsOn

\* A nonempty set of numbers has a first element (First, which picks handles).
LEMMA FirstIn ==
    ASSUME NEW S \in SUBSET Nat, S # {}
    PROVE  First(S) \in S
  <1>1. PICK x \in S : \A y \in S : ~ (<<y, x>> \in OpToRel(<, Nat))
    BY WFMin, NatLessThanWellFounded
  <1>2. ASSUME NEW y \in S, y < x PROVE FALSE
    <2>1. <<y, x>> \in Nat \X Nat /\ <<y, x>>[1] < <<y, x>>[2]
      BY <1>2
    <2>2. <<y, x>> \in OpToRel(<, Nat)
      BY <2>1, Zenon DEF OpToRel
    <2> QED
      BY <1>1, <2>2
  <1>3. \A y \in S : x <= y
    BY <1>2
  <1> QED
    BY <1>3 DEF First

\* What a session of the TA that there is room for gets: a handle that is free, and a free
\* instance or the shared one, which is alive and does not run the caller.
LEMMA NewFacts ==
    ASSUME TypeInv, NEW ta, NEW callers, CanOpen(ta, callers)
    PROVE  /\ NewHandle \in SessIds \ DOMAIN sess /\ NewHandle # NoSession
           /\ \/ /\ Shared(ta) /\ ta \in SingleInstance
                 /\ TargetOf(ta) \in DOMAIN inst /\ inst[TargetOf(ta)].ta = ta
                 /\ ~inst[TargetOf(ta)].dead /\ TargetOf(ta) \notin callers
              \/ /\ ~Shared(ta) /\ TargetOf(ta) \in InstIds \ DOMAIN inst
                 /\ ta \in SingleInstance => \A j \in DOMAIN inst : inst[j].ta # ta
  <1>1. NewHandle \in SessIds \ DOMAIN sess
    BY FirstIn, TeeSessionsAssumption DEF CanOpen, NewHandle
  <1>2. CASE Shared(ta)
    <2>1. TargetOf(ta) \in InstancesOf(ta)
      BY <1>2 DEF Shared, TargetOf
    <2> QED
      BY <1>1, <1>2, <2>1, TeeSessionsAssumption DEF CanOpen, InstancesOf, Shared, NoSession
  <1>3. CASE ~Shared(ta)
    <2>1. TargetOf(ta) \in InstIds \ DOMAIN inst
      BY <1>3, FirstIn, TeeSessionsAssumption DEF CanOpen, TargetOf
    <2> QED
      BY <1>1, <1>3, <2>1, TeeSessionsAssumption DEF InstancesOf, Shared, NoSession
  <1> QED
    BY <1>2, <1>3

-----------------------------------------------------------------------------
\* What Held names are open sessions of the instance.
HoldsOpen(held) == \A s \in DOMAIN sess : held[s] \subseteq DOMAIN sess

\* The set that Closing computes is closed under what it stands for.
LEMMA ClosingComplete ==
    ASSUME NEW S \in SUBSET DOMAIN sess, NEW held, HoldsOpen(held)
    PROVE  /\ S \subseteq Closing(S, held) /\ Closing(S, held) \subseteq DOMAIN sess
           /\ Complete(Closing(S, held), held)
  <1> DEFINE complete == {C \in SUBSET DOMAIN sess : S \subseteq C /\ Complete(C, held)}
             K == Closing(S, held)
  <1>1. K = {s \in DOMAIN sess : \A C \in complete : s \in C}
    BY DEF Closing
  <1>2. K \subseteq DOMAIN sess /\ S \subseteq K
    BY <1>1
  <1>3. \A C \in complete : K \subseteq C /\ Complete(C, held)
    BY <1>1
  <1> HIDE DEF complete, K
  <1>4. ASSUME NEW s \in K, ~inst[sess[s].inst].dead, NEW x \in held[s]
        PROVE  x \in K
    <2>1. x \in DOMAIN sess
      BY <1>2, <1>4 DEF HoldsOpen
    <2>2. \A C \in complete : x \in C
      BY <1>3, <1>4 DEF Complete
    <2> QED
      BY <1>1, <2>1, <2>2
  <1>5. ASSUME NEW i \in Gone(K), NEW x \in OpenedBy(i)
        PROVE  x \in K
    <2>1. x \in DOMAIN sess
      BY <1>5 DEF OpenedBy
    <2>2. ASSUME NEW C \in complete PROVE x \in C
      <3>1. i \in Gone(C)
        BY <1>3, <1>5 DEF Gone
      <3> QED
        BY <1>3, <1>5, <3>1 DEF Complete
    <2> QED
      BY <1>1, <2>1, <2>2
  <1>6. Complete(K, held)
    BY <1>4, <1>5 DEF Complete
  <1> QED
    BY <1>2, <1>6 DEF K

\* It is the least such set: a session is in it because it was to be closed, because the
\* close entry point of one that is in it closes it, or because its opener goes.
LEMMA ClosingLeast ==
    ASSUME NEW S \in SUBSET DOMAIN sess, NEW held, HoldsOpen(held), NEW x \in Closing(S, held)
    PROVE  \/ x \in S
           \/ \E s \in Closing(S, held) : ~inst[sess[s].inst].dead /\ x \in held[s]
           \/ \E i \in Gone(Closing(S, held)) : x \in OpenedBy(i)
  <1> DEFINE K == Closing(S, held)
             D == K \ {x}
  <1>1. S \subseteq K /\ K \subseteq DOMAIN sess /\ Complete(K, held) /\ x \in K
    BY ClosingComplete
  <1>2. \A C \in SUBSET DOMAIN sess : S \subseteq C /\ Complete(C, held) => K \subseteq C
    BY DEF Closing
  <1> HIDE DEF K
  <1> SUFFICES ASSUME x \notin S,
                      \A s \in K : ~inst[sess[s].inst].dead => x \notin held[s],
                      \A i \in Gone(K) : x \notin OpenedBy(i)
               PROVE  FALSE
    BY DEF K
  <1>3. \A s \in D : ~inst[sess[s].inst].dead => held[s] \subseteq D
    BY <1>1 DEF Complete
  <1>4. Gone(D) \subseteq Gone(K)
    BY DEF Gone
  <1>5. \A i \in Gone(D) : OpenedBy(i) \subseteq D
    BY <1>1, <1>4 DEF Complete
  <1>6. Complete(D, held)
    BY <1>3, <1>5 DEF Complete
  <1> QED
    BY <1>1, <1>2, <1>6

-----------------------------------------------------------------------------
\* The instance i, shared or new, has a new session n that b opened; d says that it was
\* made to panic at once.
TeeOpen(n, i, ta, b, d) ==
    /\ n \in SessIds \ DOMAIN sess /\ n # NoSession /\ i \in InstIds /\ ta \in TAs /\ d \in BOOLEAN
    /\ DOMAIN sess' = DOMAIN sess \cup {n}
    /\ sess'[n] = [inst |-> i, by |-> b]
    /\ \A s \in DOMAIN sess : sess'[s] = sess[s]
    /\ DOMAIN inst' = DOMAIN inst \cup {i}
    /\ inst'[i] = [ta |-> ta, dead |-> d]
    /\ \A j \in DOMAIN inst : j # i => inst'[j] = inst[j]
    /\ i \in DOMAIN inst => ta \in SingleInstance /\ inst[i].ta = ta /\ ~inst[i].dead
    /\ i \notin DOMAIN inst /\ ta \in SingleInstance => \A j \in DOMAIN inst : inst[j].ta # ta

\* The instances with the one of the new session.
LEMMA InstWithFacts ==
    ASSUME TypeInv, NEW ta \in TAs, NEW callers, CanOpen(ta, callers), NEW i, i = TargetOf(ta),
           NEW I, I = InstWith(ta)
    PROVE  /\ DOMAIN I = DOMAIN inst \cup {i} /\ I[i] = [ta |-> ta, dead |-> FALSE]
           /\ \A j \in DOMAIN inst : j # i => I[j] = inst[j]
           /\ i \in DOMAIN inst => ta \in SingleInstance /\ inst[i].ta = ta /\ ~inst[i].dead
           /\ i \notin DOMAIN inst /\ ta \in SingleInstance => \A j \in DOMAIN inst : inst[j].ta # ta
           /\ I \in [DOMAIN I -> InstRecords]
  <1>1. CASE Shared(ta)
    <2>1. /\ ta \in SingleInstance /\ i \in DOMAIN inst /\ inst[i].ta = ta /\ ~inst[i].dead
          /\ I = inst
      BY <1>1, NewFacts DEF InstWith
    <2>2. inst[i] \in InstRecords
      BY <2>1 DEF TypeInv
    <2>3. inst[i] = [ta |-> ta, dead |-> FALSE]
      BY <2>1, <2>2 DEF InstRecords
    <2> QED
      BY <2>1, <2>3 DEF TypeInv
  <1>2. CASE ~Shared(ta)
    <2>1. /\ i \notin DOMAIN inst
          /\ ta \in SingleInstance => \A j \in DOMAIN inst : inst[j].ta # ta
          /\ I = With(inst, i, [ta |-> ta, dead |-> FALSE])
      BY <1>2, NewFacts DEF InstWith
    <2>2. [ta |-> ta, dead |-> FALSE] \in InstRecords
      BY DEF InstRecords
    <2> QED
      BY <2>1, <2>2 DEF With, TypeInv
  <1> QED
    BY <1>1, <1>2

\* The session that CanOpen allows is opened.
LEMMA OpenFacts ==
    ASSUME TypeInv, NEW ta \in TAs, NEW callers \in SUBSET DOMAIN inst, CanOpen(ta, callers),
           NEW b \in InstIds \cup {Host}, inst' = InstWith(ta), sess' = SessWith(ta, b)
    PROVE  /\ TeeOpen(NewHandle, TargetOf(ta), ta, b, FALSE)
           /\ TargetOf(ta) \notin callers
           /\ sess' \in [DOMAIN sess' -> SessRecords] /\ inst' \in [DOMAIN inst' -> InstRecords]
  <1>1. PICK n : n = NewHandle
    OBVIOUS
  <1>2. PICK i : i = TargetOf(ta)
    OBVIOUS
  <1>3. n \in SessIds \ DOMAIN sess /\ n # NoSession /\ i \in InstIds /\ i \notin callers
    BY <1>1, <1>2, NewFacts DEF TypeInv
  <1>4. sess' = With(sess, n, [inst |-> i, by |-> b])
    BY <1>1, <1>2 DEF SessWith
  <1>5. /\ DOMAIN sess' = DOMAIN sess \cup {n} /\ sess'[n] = [inst |-> i, by |-> b]
        /\ \A s \in DOMAIN sess : sess'[s] = sess[s]
    BY <1>3, <1>4 DEF With
  <1>6. sess' \in [DOMAIN sess' -> SessRecords]
    <2>1. [inst |-> i, by |-> b] \in SessRecords
      BY <1>3 DEF SessRecords
    <2> QED
      BY <1>4, <2>1 DEF With, TypeInv
  <1>7. /\ DOMAIN inst' = DOMAIN inst \cup {i} /\ inst'[i] = [ta |-> ta, dead |-> FALSE]
        /\ \A j \in DOMAIN inst : j # i => inst'[j] = inst[j]
        /\ i \in DOMAIN inst => ta \in SingleInstance /\ inst[i].ta = ta /\ ~inst[i].dead
        /\ i \notin DOMAIN inst /\ ta \in SingleInstance => \A j \in DOMAIN inst : inst[j].ta # ta
        /\ inst' \in [DOMAIN inst' -> InstRecords]
    BY <1>2, InstWithFacts
  <1>8. TeeOpen(n, i, ta, b, FALSE)
    BY <1>3, <1>5, <1>7 DEF TeeOpen
  <1> QED
    BY <1>1, <1>2, <1>3, <1>6, <1>7, <1>8

\* What a new session asks of its opener.
MayOpen(i, ta, b) ==
    /\ b = Host => ta \in HostTas
    /\ b # Host =>
          /\ b \in DOMAIN inst /\ b # i /\ ta \in OpensTas(inst[b].ta)
          /\ \E r \in DOMAIN sess : sess[r].inst = b /\ sess[r].by = Host

\* A new session keeps what is known of sessions and instances.
LEMMA OpenKeepsTee ==
    ASSUME TypeInv, SessionInv, InstanceInv, OpenerInv, NEW n, NEW i, NEW ta, NEW b, NEW d,
           TeeOpen(n, i, ta, b, d), MayOpen(i, ta, b), d => ta \in SimsTas
    PROVE  SessionInv' /\ InstanceInv' /\ OpenerInv'
  <1>1. \A j \in DOMAIN inst : inst'[j].ta = inst[j].ta
    BY DEF TeeOpen
  <1>2. sess'[n].inst = i /\ sess'[n].by = b /\ inst'[i].ta = ta /\ inst'[i].dead = d
    BY DEF TeeOpen
  <1>3. SessionInv'
    <2> SUFFICES ASSUME NEW s \in DOMAIN sess'
                 PROVE  /\ sess'[s].inst \in DOMAIN inst'
                        /\ sess'[s].by = Host => inst'[sess'[s].inst].ta \in HostTas
                        /\ sess'[s].by # Host =>
                              /\ sess'[s].by \in DOMAIN inst' /\ sess'[s].by # sess'[s].inst
                              /\ inst'[sess'[s].inst].ta \in OpensTas(inst'[sess'[s].by].ta)
      BY DEF SessionInv, OpensTas
    <2>1. CASE s = n
      BY <1>1, <1>2, <2>1 DEF TeeOpen, MayOpen
    <2>2. CASE s \in DOMAIN sess
      BY <1>1, <2>2 DEF TeeOpen, SessionInv
    <2> QED
      BY <2>1, <2>2 DEF TeeOpen
  <1>4. InstanceInv'
    <2>1. ASSUME NEW j \in DOMAIN inst', inst'[j].dead \/ inst'[j].ta \notin KeepAlive
          PROVE  \E s \in DOMAIN sess' : sess'[s].inst = j
      <3>1. CASE j = i
        BY <1>2, <3>1 DEF TeeOpen
      <3>2. CASE j # i
        BY <2>1, <3>2 DEF TeeOpen, InstanceInv
      <3> QED
        BY <3>1, <3>2
    <2>2. ASSUME NEW s \in DOMAIN sess', NEW r \in DOMAIN sess', sess'[s].inst = sess'[r].inst,
                 inst'[sess'[s].inst].ta \notin SingleInstance
          PROVE  s = r
      <3>1. \A q \in DOMAIN sess : sess[q].inst \in DOMAIN inst
        BY DEF SessionInv
      <3>2. CASE s = n \/ r = n
        BY <1>2, <2>2, <3>1, <3>2 DEF TeeOpen
      <3>3. CASE s \in DOMAIN sess /\ r \in DOMAIN sess
        BY <1>1, <2>2, <3>1, <3>3 DEF TeeOpen, InstanceInv
      <3> QED
        BY <3>2, <3>3 DEF TeeOpen
    <2>3. ASSUME NEW j \in DOMAIN inst', NEW k \in DOMAIN inst', inst'[j].ta = inst'[k].ta,
                 inst'[j].ta \in SingleInstance
          PROVE  j = k
      BY <1>1, <1>2, <2>3 DEF TeeOpen, InstanceInv
    <2>4. ASSUME NEW j \in DOMAIN inst', inst'[j].dead
          PROVE  inst'[j].ta \in SimsTas \cup {"rpc_test"}
      BY <1>1, <1>2, <2>4 DEF TeeOpen, InstanceInv
    <2> QED
      BY <2>1, <2>2, <2>3, <2>4 DEF InstanceInv
  <1>5. OpenerInv'
    <2> SUFFICES ASSUME NEW s \in DOMAIN sess', sess'[s].by # Host,
                        inst'[sess'[s].by].ta \notin SingleInstance
                 PROVE  \E r \in DOMAIN sess' : sess'[r].inst = sess'[s].by /\ sess'[r].by = Host
      BY DEF OpenerInv
    <2>1. \E r \in DOMAIN sess : sess[r].inst = sess'[s].by /\ sess[r].by = Host
      <3>1. CASE s = n
        BY <1>2, <3>1 DEF TeeOpen, MayOpen
      <3>2. CASE s \in DOMAIN sess
        BY <1>1, <3>2 DEF TeeOpen, OpenerInv, SessionInv
      <3> QED
        BY <3>1, <3>2 DEF TeeOpen
    <2> QED
      BY <2>1 DEF TeeOpen
  <1> QED
    BY <1>3, <1>4, <1>5

\* The contexts after a new session: it has an empty one if its TA has contexts, one
\* context of its opener may have its handle, and those of an instance that was made to
\* panic are nothing.
CtxOpen(n, i, ta, b, d) ==
    /\ DOMAIN ctx' = DOMAIN ctx \cup {x \in {n} : ta \in SimsTas}
    /\ n \in DOMAIN ctx' => ctx'[n] = NoSession
    /\ \A r \in DOMAIN ctx :
          \/ ctx'[r] = NoSession
          \/ ctx'[r] = ctx[r] /\ ~(d /\ sess[r].inst = i)
          \/ /\ ctx'[r] = n /\ b # Host /\ b # i
             /\ sess[r].by = Host /\ sess[r].inst = b /\ ~inst[b].dead
    /\ \A r, q \in DOMAIN ctx : ctx'[r] = n /\ ctx'[q] = n => r = q

\* A new session keeps what is known of contexts.
LEMMA OpenKeepsContexts ==
    ASSUME TypeInv, SessionInv, ContextInv, NEW n, NEW i, NEW ta, NEW b, NEW d,
           TeeOpen(n, i, ta, b, d), CtxOpen(n, i, ta, b, d)
    PROVE  ContextInv'
  <1>1. \A j \in DOMAIN inst : inst'[j].ta = inst[j].ta
    BY DEF TeeOpen
  <1>2. sess'[n].inst = i /\ sess'[n].by = b /\ inst'[i].ta = ta
    BY DEF TeeOpen
  <1>3. DOMAIN ctx' = {s \in DOMAIN sess' : inst'[sess'[s].inst].ta \in SimsTas}
    <2>1. \A s \in DOMAIN sess : inst'[sess'[s].inst].ta = inst[sess[s].inst].ta
      BY <1>1 DEF TeeOpen, SessionInv
    <2> QED
      BY <1>2, <2>1 DEF TeeOpen, CtxOpen, ContextInv
  <1>4. ASSUME NEW s \in DOMAIN ctx', ctx'[s] # NoSession
        PROVE  /\ s \in DOMAIN ctx
               /\ sess'[s].by = Host /\ ~inst'[sess'[s].inst].dead
               /\ ctx'[s] \in DOMAIN sess' /\ sess'[ctx'[s]].by = sess'[s].inst
               /\ ctx'[s] = n \/ (ctx'[s] = ctx[s] /\ ctx[s] \in DOMAIN sess)
    <2>1. s \in DOMAIN ctx /\ s \in DOMAIN sess /\ sess[s].inst \in DOMAIN inst
      BY <1>4 DEF CtxOpen, ContextInv, SessionInv
    <2>2. CASE ctx'[s] = ctx[s] /\ ~(d /\ sess[s].inst = i)
      <3>1. /\ sess[s].by = Host /\ ~inst[sess[s].inst].dead
            /\ ctx[s] \in DOMAIN sess /\ sess[ctx[s]].by = sess[s].inst
        BY <1>4, <2>1, <2>2 DEF ContextInv
      <3>2. sess'[s] = sess[s] /\ sess'[ctx[s]] = sess[ctx[s]]
        BY <2>1, <3>1 DEF TeeOpen
      <3>3. ~inst'[sess[s].inst].dead
        BY <2>1, <2>2, <3>1 DEF TeeOpen
      <3> QED
        BY <2>1, <2>2, <3>1, <3>2, <3>3 DEF TeeOpen
    <2>3. CASE /\ ctx'[s] = n /\ b # Host /\ b # i
               /\ sess[s].by = Host /\ sess[s].inst = b /\ ~inst[b].dead
      BY <1>2, <2>1, <2>3 DEF TeeOpen
    <2> QED
      BY <1>4, <2>1, <2>2, <2>3 DEF CtxOpen
  <1>5. ASSUME NEW s \in DOMAIN ctx', NEW r \in DOMAIN ctx', ctx'[s] = ctx'[r], ctx'[s] # NoSession
        PROVE  s = r
    BY <1>4, <1>5 DEF TeeOpen, CtxOpen, ContextInv
  <1> QED
    BY <1>3, <1>4, <1>5 DEF ContextInv

\* A new session keeps what is known of variables of TAs that stay as they are.
LEMMA OpenKeepsStatics ==
    ASSUME TypeInv, SessionInv, StaticInv, NEW n, NEW i, NEW ta, NEW b, NEW d,
           TeeOpen(n, i, ta, b, d), cached' = cached, stor_session' = stor_session
    PROVE  StaticInv'
  <1>1. \A j \in DOMAIN inst : j \in DOMAIN inst' /\ inst'[j].ta = inst[j].ta
    BY DEF TeeOpen
  <1>2. \A s \in DOMAIN sess : s \in DOMAIN sess' /\ sess'[s] = sess[s] /\ sess[s].inst \in DOMAIN inst
    BY DEF TeeOpen, SessionInv
  <1> QED
    BY <1>1, <1>2 DEF StaticInv

\* A new session keeps what is known of the commands of the RPC test TA that stay.
LEMMA OpenKeepsCalls ==
    ASSUME TypeInv, SessionInv, HostInv, CallInv, NEW n, NEW i, NEW ta, NEW b, NEW d,
           TeeOpen(n, i, ta, b, d), d => ta \in SimsTas, buffers' = buffers,
           \A h \in Hosts : hostSess[h] # NoSession => hostSess'[h] = hostSess[h],
           \A h \in Hosts : call'[h] = call[h] \/ (call[h].pc = "idle" /\ CallOk(h)')
    PROVE  CallInv'
  <1>1. \A j \in DOMAIN inst : /\ j \in DOMAIN inst' /\ inst'[j].ta = inst[j].ta
                               /\ inst[j].ta = "rpc_test" => inst'[j] = inst[j]
    BY DEF TeeOpen, SingleInstance
  <1>2. \A s \in DOMAIN sess : s \in DOMAIN sess' /\ sess'[s] = sess[s] /\ sess[s].inst \in DOMAIN inst
    BY DEF TeeOpen, SessionInv
  <1>3. ASSUME NEW h \in Hosts, hostSess[h] # NoSession
        PROVE  hostSess'[h] = hostSess[h] /\ InstOf(h)' = InstOf(h) /\ InstOf(h) \in DOMAIN inst
    BY <1>2, <1>3 DEF InstOf, HostInv
  <1>4. ASSUME NEW h \in Hosts PROVE CallOk(h)'
    <2>1. CASE call'[h] = call[h] /\ call[h].pc # "idle"
      <3>1. /\ hostSess[h] # NoSession
            /\ inst[InstOf(h)].ta = "rpc_test" /\ ~inst[InstOf(h)].dead
            /\ call[h].sess \in DOMAIN sess /\ sess[call[h].sess].by = InstOf(h)
            /\ call[h].pc = "copy" => call[h].sec
        BY <2>1 DEF CallInv, CallOk
      <3> QED
        BY <1>1, <1>2, <1>3, <2>1, <3>1 DEF CallOk
    <2>2. CASE call'[h] = call[h] /\ call[h].pc = "idle"
      BY <2>2 DEF CallInv, CallOk
    <2> QED
      BY <2>1, <2>2
  <1>5. ASSUME NEW j \in InstIds, buffers'[j]
        PROVE  /\ j \in DOMAIN inst' /\ inst'[j].ta = "rpc_test"
               /\ ~inst'[j].dead => \E h \in Hosts :
                     /\ hostSess'[h] # NoSession /\ InstOf(h)' = j
                     /\ call'[h].sec /\ call'[h].pc \in {"invoke", "close"}
    <2>1. /\ j \in DOMAIN inst /\ inst[j].ta = "rpc_test"
          /\ ~inst[j].dead => \E h \in Hosts :
                     /\ hostSess[h] # NoSession /\ InstOf(h) = j
                     /\ call[h].sec /\ call[h].pc \in {"invoke", "close"}
      BY <1>5 DEF CallInv
    <2>2. inst'[j] = inst[j] /\ j \in DOMAIN inst'
      BY <1>1, <2>1
    <2>3. \A h \in Hosts : call[h].pc \in {"invoke", "close"} => call'[h] = call[h]
      OBVIOUS
    <2> QED
      BY <1>3, <2>1, <2>2, <2>3
  <1> QED
    BY <1>4, <1>5 DEF CallInv

\* A new session leaves an instance the handles it has, when no variable loses one.
LEMMA OpenKeepsHandles ==
    ASSUME TypeInv, HostInv, ContextInv, CallInv, NEW n, NEW i, NEW ta, NEW b, NEW d,
           TeeOpen(n, i, ta, b, d), NEW j, NEW y \in DOMAIN sess,
           DOMAIN ctx' \subseteq DOMAIN ctx \cup {n}, n \in DOMAIN ctx' => ctx'[n] = NoSession,
           \A r \in DOMAIN ctx : r \in DOMAIN ctx' /\ ctx'[r] = ctx[r],
           \A t \in SdpTargets : cached'[j][t] = y <=> cached[j][t] = y,
           stor_session'[j] = y <=> stor_session[j] = y,
           \A g \in Hosts : call'[g].sess = y <=> call[g].sess = y,
           \A g \in Hosts : hostSess[g] # NoSession => hostSess'[g] = hostSess[g]
    PROVE  Keeps(j, y)' <=> Keeps(j, y)
  <1>1. y # NoSession
    BY TeeSessionsAssumption DEF TypeInv, NoSession
  <1>2. \A r \in DOMAIN sess : r \in DOMAIN sess' /\ sess'[r] = sess[r]
    BY DEF TeeOpen
  <1>3. \A r \in DOMAIN ctx : r \in DOMAIN sess
    BY DEF ContextInv
  <1>4. (\E s \in DOMAIN ctx' : s \in DOMAIN sess' /\ sess'[s].inst = j /\ ctx'[s] = y)
           <=> (\E s \in DOMAIN ctx : s \in DOMAIN sess /\ sess[s].inst = j /\ ctx[s] = y)
    BY <1>1, <1>2, <1>3
  <1>5. \A g \in Hosts : call[g].sess = y => /\ hostSess'[g] = hostSess[g]
                                             /\ hostSess[g] \in DOMAIN sess
    BY <1>1 DEF CallInv, CallOk, HostInv
  <1>6. (\E g \in Hosts : hostSess'[g] \in DOMAIN sess' /\ sess'[hostSess'[g]].inst = j
                            /\ call'[g].sess = y)
           <=> (\E g \in Hosts : hostSess[g] \in DOMAIN sess /\ sess[hostSess[g]].inst = j
                            /\ call[g].sess = y)
    BY <1>2, <1>5
  <1> QED
    BY <1>4, <1>6 DEF Keeps

\* A new session of another opener, or one whose handle is kept, leaves no session of an
\* instance without a handle that had one.
LEMMA OpenLostOn ==
    ASSUME TypeInv, NEW n, NEW i, NEW ta, NEW b, NEW d, TeeOpen(n, i, ta, b, d), NEW j,
           \A y \in DOMAIN sess : y # NoSession /\ sess[y].by = j => (Keeps(j, y)' <=> Keeps(j, y)),
           b = j => Keeps(j, n)'
    PROVE  LostOn(j)' = LostOn(j)
  <1>0. n # NoSession /\ \A y \in DOMAIN sess : y # NoSession
    BY TeeSessionsAssumption DEF TeeOpen, TypeInv, NoSession
  <1>1. ASSUME NEW y PROVE y \in LostOn(j)' <=> y \in LostOn(j)
    <2>1. CASE y = n
      BY <1>0, <2>1, HandlesIffNext DEF LostOn, OpenedBy, TeeOpen
    <2>2. CASE y \in DOMAIN sess
      <3>1. y \in OpenedBy(j)' <=> y \in OpenedBy(j)
        BY <2>2 DEF OpenedBy, TeeOpen
      <3>2. y \in OpenedBy(j) => (y \in HandlesOf(j)' <=> y \in HandlesOf(j))
        BY <1>0, <2>2, HandlesIff, HandlesIffNext DEF OpenedBy
      <3> QED
        BY <3>1, <3>2 DEF LostOn
    <2>3. CASE y # n /\ y \notin DOMAIN sess
      BY <2>3 DEF LostOn, OpenedBy, TeeOpen
    <2> QED
      BY <2>1, <2>2, <2>3
  <1> QED
    BY <1>1

\* An instance that is new has opened no session.
LEMMA FreshLost ==
    ASSUME TypeInv, SessionInv, NEW n, NEW i, NEW ta, NEW b, NEW d, TeeOpen(n, i, ta, b, d), b # i,
           i \notin DOMAIN inst
    PROVE  LostOn(i)' = {}
  <1>1. \A y \in DOMAIN sess' : sess'[y].by # i
    BY TeeSessionsAssumption DEF TeeOpen, SessionInv, TypeInv, Host
  <1> QED
    BY <1>1 DEF LostOn, OpenedBy

\* A new session whose handle is kept, and that overwrites none, loses none.
LEMMA OpenKeepsLost ==
    ASSUME TypeInv, SessionInv, LostInv, NEW n, NEW i, NEW ta, NEW b, NEW d, TeeOpen(n, i, ta, b, d),
           b # i, lost' = lost, overwrote' = overwrote,
           \A j \in DOMAIN inst : ~inst'[j].dead => LostOn(j)' = LostOn(j)
    PROVE  LostInv'
  <1>1. ASSUME NEW j \in InstIds, lost'[j] # 0
        PROVE  j \in DOMAIN inst' /\ inst'[j].ta \in SimsTas /\ overwrote'
    BY <1>1 DEF LostInv, TeeOpen
  <1>2. ASSUME NEW j \in DOMAIN inst', ~inst'[j].dead
        PROVE  Cardinality(LostOn(j)') = lost'[j]
    <2>1. CASE j \in DOMAIN inst
      <3>1. ~inst[j].dead
        BY <1>2, <2>1 DEF TeeOpen
      <3> QED
        BY <1>2, <2>1, <3>1 DEF LostInv
    <2>2. CASE j \notin DOMAIN inst
      <3>1. j = i /\ LostOn(i)' = {}
        BY <1>2, <2>2, FreshLost DEF TeeOpen
      <3>2. lost'[j] = 0
        BY <2>2, <3>1 DEF LostInv, TeeOpen
      <3> QED
        BY <3>1, <3>2, FS_EmptySet
    <2> QED
      BY <2>1, <2>2
  <1> QED
    BY <1>1, <1>2 DEF LostInv

-----------------------------------------------------------------------------
\* A thread opens a session.
LEMMA OpenSessionStep ==
    ASSUME NInv, NEW h \in Hosts, NEW ta \in Uses[h], OpenSession(h, ta)
    PROVE  NInv'
  <1> USE DEF NInv
  <1>1. ta \in TAs /\ ta \in HostTas
    BY NestedTasAssumption DEF TAs, HostTas, SimsTas
  <1>2. PICK n : n = NewHandle
    OBVIOUS
  <1>3. PICK i : i = TargetOf(ta)
    OBVIOUS
  <1>4. /\ TeeOpen(n, i, ta, Host, FALSE)
        /\ sess' \in [DOMAIN sess' -> SessRecords] /\ inst' \in [DOMAIN inst' -> InstRecords]
    BY <1>1, <1>2, <1>3, OpenFacts DEF OpenSession
  <1>5. /\ hostSess[h] = NoSession /\ hostSess' = [hostSess EXCEPT ![h] = n]
        /\ ctx' = IF ta \in SimsTas THEN With(ctx, n, NoSession) ELSE ctx
        /\ counter' = IF ta \in SimsTas THEN [counter EXCEPT ![i] = @ + 1] ELSE counter
        /\ lost' = lost /\ call' = call /\ buffers' = buffers /\ cached' = cached
        /\ stor_session' = stor_session /\ overwrote' = overwrote
    BY <1>2, <1>3 DEF OpenSession, CtxWith, CounterWith, rpcVars
  <1>6. n \in SessIds /\ n \notin DOMAIN sess /\ n # NoSession /\ i \in InstIds /\ Host \notin InstIds
    BY <1>4, TeeSessionsAssumption DEF TeeOpen, Host
  <1>7. TypeInv'
    BY <1>4, <1>5, <1>6 DEF TypeInv, With, TeeOpen
  <1>8. SessionInv' /\ InstanceInv' /\ OpenerInv'
    BY <1>1, <1>4, OpenKeepsTee DEF MayOpen
  <1>9. HostInv'
    <2>1. \A g \in Hosts : hostSess'[g] = IF g = h THEN n ELSE hostSess[g]
      BY <1>5 DEF TypeInv
    <2>2. \A s \in DOMAIN sess : s \in DOMAIN sess' /\ sess'[s] = sess[s]
      BY <1>4 DEF TeeOpen
    <2>3. DOMAIN sess' = DOMAIN sess \cup {n} /\ sess'[n].by = Host
      BY <1>4 DEF TeeOpen
    <2>4. \A g \in Hosts : hostSess'[g] # NoSession =>
              hostSess'[g] \in DOMAIN sess' /\ sess'[hostSess'[g]].by = Host
      BY <2>1, <2>2, <2>3 DEF HostInv
    <2>5. \A f, g \in Hosts : hostSess'[f] = hostSess'[g] /\ hostSess'[g] # NoSession => f = g
      BY <1>6, <2>1 DEF HostInv
    <2>6. \A s \in DOMAIN sess' : sess'[s].by = Host => \E g \in Hosts : hostSess'[g] = s
      <3> TAKE s \in DOMAIN sess'
      <3> HAVE sess'[s].by = Host
      <3>1. CASE s = n
        BY <2>1, <3>1
      <3>2. CASE s \in DOMAIN sess
        <4>1. PICK g \in Hosts : hostSess[g] = s
          BY <2>2, <3>2 DEF HostInv
        <4>2. s # NoSession
          BY <3>2, TeeSessionsAssumption DEF TypeInv, NoSession
        <4> QED
          BY <1>5, <2>1, <4>1, <4>2
      <3> QED
        BY <2>3, <3>1, <3>2
    <2> QED
      BY <2>4, <2>5, <2>6 DEF HostInv
  <1>10. CtxOpen(n, i, ta, Host, FALSE)
    <2>1. n \notin DOMAIN ctx /\ \A r \in DOMAIN ctx : r \in DOMAIN sess /\ ctx[r] # n
      BY <1>6 DEF ContextInv
    <2> QED
      BY <1>5, <2>1 DEF CtxOpen, With
  <1>11. ContextInv'
    BY <1>4, <1>10, OpenKeepsContexts
  <1>12. StaticInv'
    BY <1>4, <1>5, OpenKeepsStatics
  <1>13. CallInv'
    <2>1. \A g \in Hosts : hostSess[g] # NoSession => hostSess'[g] = hostSess[g]
      BY <1>5 DEF TypeInv
    <2> QED
      BY <1>4, <1>5, <2>1, OpenKeepsCalls
  <1>14. LostInv'
    <2>1. ASSUME NEW j \in DOMAIN inst, NEW y \in DOMAIN sess
          PROVE  Keeps(j, y)' <=> Keeps(j, y)
      <3>1. /\ DOMAIN ctx' \subseteq DOMAIN ctx \cup {n}
            /\ n \in DOMAIN ctx' => ctx'[n] = NoSession
            /\ \A r \in DOMAIN ctx : r \in DOMAIN ctx' /\ ctx'[r] = ctx[r]
        BY <1>5, <1>6 DEF With, ContextInv
      <3>2. \A g \in Hosts : hostSess[g] # NoSession => hostSess'[g] = hostSess[g]
        BY <1>5 DEF TypeInv
      <3>3. /\ \A t \in SdpTargets : cached'[j][t] = y <=> cached[j][t] = y
            /\ stor_session'[j] = y <=> stor_session[j] = y
            /\ \A g \in Hosts : call'[g].sess = y <=> call[g].sess = y
        BY <1>5
      <3>9. TypeInv /\ HostInv /\ ContextInv /\ CallInv
        OBVIOUS
      <3> HIDE DEF NInv
      <3> QED
        BY <1>4, <3>1, <3>2, <3>3, <3>9, OpenKeepsHandles
    <2>2. \A j \in DOMAIN inst : LostOn(j)' = LostOn(j)
      <3> TAKE j \in DOMAIN inst
      <3>1. Host # j
        BY <1>6 DEF TypeInv
      <3> QED
        BY <1>4, <2>1, <3>1, OpenLostOn
    <2> QED
      BY <1>4, <1>5, <1>6, <2>2, OpenKeepsLost
  <1> QED
    BY <1>7, <1>8, <1>9, <1>11, <1>12, <1>13, <1>14

\* An instance that panicked (Kill) keeps its TA.
LEMMA KilledRecord ==
    ASSUME NEW r \in InstRecords
    PROVE  [r EXCEPT !.dead = TRUE] = [ta |-> r.ta, dead |-> TRUE]
  <1>1. PICK q : q = [r EXCEPT !.dead = TRUE]
    OBVIOUS
  <1>2. q \in InstRecords /\ q.dead = TRUE /\ q.ta = r.ta
    BY <1>1 DEF InstRecords
  <1>3. q = [ta |-> r.ta, dead |-> TRUE]
    BY <1>2 DEF InstRecords
  <1> QED
    BY <1>1, <1>3

\* What sims_open_ta_session and sims_entry_panic with a TA do; d tells them apart.
NestEffect(s, ta, n, i, b, d) ==
    /\ s \in DOMAIN sess /\ sess[s].by = Host /\ s \in DOMAIN ctx
    /\ b = sess[s].inst /\ b \in DOMAIN inst /\ inst[b].ta \in SimsTas /\ ~inst[b].dead /\ b # i
    /\ TeeOpen(n, i, ta, b, d)
    /\ sess' \in [DOMAIN sess' -> SessRecords] /\ inst' \in [DOMAIN inst' -> InstRecords]
    /\ DOMAIN ctx' = DOMAIN ctx \cup {n} /\ ctx'[n] = NoSession /\ ctx'[s] = n
    /\ \A r \in DOMAIN ctx \ {s} : ctx'[r] = IF d /\ sess[r].inst = i THEN NoSession ELSE ctx[r]
    /\ ctx' \in [DOMAIN ctx' -> SessIds \cup {NoSession}]
    /\ lost' \in [InstIds -> Nat] /\ counter' \in [InstIds -> Nat]
    /\ lost'[b] = IF ctx[s] = NoSession THEN lost[b] ELSE lost[b] + 1
    /\ \A j \in InstIds \ {b} : lost'[j] = IF d /\ j = i THEN 0 ELSE lost[j]
    /\ overwrote' = (overwrote \/ ctx[s] # NoSession)
    /\ UNCHANGED <<hostSess, rpcVars, cached, stor_session>>

\* The commands of sims that open a session have this effect.
LEMMA NestFacts ==
    ASSUME NInv, NEW h \in Hosts, NEW ta \in Targets, NEW s, s = hostSess[h],
           NEW d \in BOOLEAN,
           IF d THEN PanicThere(s, ta) ELSE sims_open_ta_session(s, ta),
           overwrote' = (overwrote \/ \E i \in InstIds : lost'[i] > lost[i]),
           UNCHANGED <<hostSess, rpcVars, cached, stor_session>>
    PROVE  NestEffect(s, ta, NewHandle, TargetOf(ta), sess[s].inst, d)
  <1> USE DEF NInv
  <1>1. ta \in SimsTas /\ ta \in TAs
    BY NestedTasAssumption DEF SimsTas, TAs
  <1>2. CanNest(s, ta)
    BY DEF PanicThere, sims_open_ta_session
  <1>3. PICK n : n = NewHandle
    OBVIOUS
  <1>4. PICK i : i = TargetOf(ta)
    OBVIOUS
  <1>5. PICK b : b = sess[s].inst
    OBVIOUS
  <1>6. /\ s \in DOMAIN sess /\ b \in DOMAIN inst /\ inst[b].ta \in SimsTas /\ ~inst[b].dead
        /\ CanOpen(ta, {b})
    BY <1>2, <1>5 DEF CanNest, Runs, SessionInv
  <1>7. sess[s].by = Host /\ s \in DOMAIN ctx
    <2>1. s # NoSession
      BY <1>6, TeeSessionsAssumption DEF TypeInv, NoSession
    <2> QED
      BY <1>5, <1>6, <2>1 DEF HostInv, ContextInv
  <1>8. n \in SessIds \ DOMAIN sess /\ n # NoSession /\ i \in InstIds /\ i # b
    BY <1>3, <1>4, <1>6, NewFacts DEF TypeInv
  <1>9. PICK I : I = InstWith(ta)
    OBVIOUS
  <1>10. /\ DOMAIN I = DOMAIN inst \cup {i} /\ I[i] = [ta |-> ta, dead |-> FALSE]
         /\ \A j \in DOMAIN inst : j # i => I[j] = inst[j]
         /\ i \in DOMAIN inst => ta \in SingleInstance /\ inst[i].ta = ta /\ ~inst[i].dead
         /\ i \notin DOMAIN inst /\ ta \in SingleInstance => \A j \in DOMAIN inst : inst[j].ta # ta
         /\ I \in [DOMAIN I -> InstRecords]
    BY <1>1, <1>4, <1>6, <1>9, InstWithFacts
  <1>11. sess' = With(sess, n, [inst |-> i, by |-> b])
    BY <1>3, <1>4, <1>5 DEF PanicThere, sims_open_ta_session, SessWith
  <1>12. /\ DOMAIN sess' = DOMAIN sess \cup {n} /\ sess'[n] = [inst |-> i, by |-> b]
         /\ \A r \in DOMAIN sess : sess'[r] = sess[r]
         /\ sess' \in [DOMAIN sess' -> SessRecords]
    <2>1. [inst |-> i, by |-> b] \in SessRecords
      BY <1>6, <1>8 DEF SessRecords, TypeInv
    <2> QED
      BY <1>8, <1>11, <2>1 DEF With, TypeInv
  <1>13. inst' = IF d THEN [I EXCEPT ![i].dead = TRUE] ELSE I
    BY <1>4, <1>9 DEF PanicThere, sims_open_ta_session
  <1>14. /\ DOMAIN inst' = DOMAIN I /\ inst'[i] = [ta |-> ta, dead |-> d]
         /\ \A j \in DOMAIN inst : j # i => inst'[j] = inst[j]
         /\ inst' \in [DOMAIN inst' -> InstRecords]
    <2>1. CASE ~d
      BY <1>8, <1>10, <1>13, <2>1
    <2>2. CASE d
      <3>1. inst' = [I EXCEPT ![i] = [ta |-> ta, dead |-> TRUE]]
        <4>1. inst' = [I EXCEPT ![i] = [I[i] EXCEPT !.dead = TRUE]]
          BY <1>13, <2>2
        <4>2. I[i] \in InstRecords /\ I[i].ta = ta
          <5>1. [ta |-> ta, dead |-> FALSE] \in InstRecords
            BY <1>1 DEF InstRecords
          <5>2. I[i] = [ta |-> ta, dead |-> FALSE]
            BY <1>10
          <5> QED
            BY <5>1, <5>2
        <4>3. [I[i] EXCEPT !.dead = TRUE] = [ta |-> ta, dead |-> TRUE]
          BY <4>2, KilledRecord
        <4> QED
          BY <4>1, <4>3, Zenon
      <3>2. [ta |-> ta, dead |-> TRUE] \in InstRecords
        BY <1>1 DEF InstRecords
      <3> QED
        BY <1>8, <1>10, <2>2, <3>1, <3>2
    <2> QED
      BY <2>1, <2>2
  <1>15. TeeOpen(n, i, ta, b, d)
    BY <1>1, <1>8, <1>10, <1>12, <1>14 DEF TeeOpen
  <1>16. PICK c : c = [With(ctx, n, NoSession) EXCEPT ![s] = n]
    OBVIOUS
  <1>17. /\ DOMAIN c = DOMAIN ctx \cup {n} /\ c[n] = NoSession /\ c[s] = n
         /\ \A r \in DOMAIN ctx \ {s} : c[r] = ctx[r]
    <2>1. n \notin DOMAIN ctx
      BY <1>8 DEF ContextInv
    <2> QED
      BY <1>6, <1>7, <1>8, <1>16, <2>1 DEF With
  <1>18. ctx' = IF d THEN DeadContexts(c, i) ELSE c
    BY <1>1, <1>3, <1>4, <1>16 DEF PanicThere, sims_open_ta_session, NestedCtx, CtxWith
  <1>19. /\ DOMAIN ctx' = DOMAIN ctx \cup {n} /\ ctx'[n] = NoSession /\ ctx'[s] = n
         /\ \A r \in DOMAIN ctx \ {s} : ctx'[r] = IF d /\ sess[r].inst = i THEN NoSession ELSE ctx[r]
    <2>1. s \notin SessionsOn(i) /\ n \notin SessionsOn(i)
      BY <1>5, <1>8 DEF SessionsOn
    <2>2. \A r \in DOMAIN ctx : r \in SessionsOn(i) <=> sess[r].inst = i
      BY DEF SessionsOn, ContextInv
    <2>3. CASE ~d
      BY <1>17, <1>18, <2>3
    <2>4. CASE d
      <3>1. ctx' = [r \in DOMAIN c |-> IF r \in SessionsOn(i) THEN NoSession ELSE c[r]]
        BY <1>18, <2>4 DEF DeadContexts
      <3>2. DOMAIN ctx' = DOMAIN c /\ ctx'[n] = c[n] /\ ctx'[s] = c[s]
        BY <1>7, <1>17, <2>1, <3>1
      <3>3. \A r \in DOMAIN ctx \ {s} : ctx'[r] = IF sess[r].inst = i THEN NoSession ELSE ctx[r]
        BY <1>17, <2>2, <3>1
      <3> QED
        BY <1>17, <2>4, <3>2, <3>3
    <2> QED
      BY <2>3, <2>4
  <1>191. ctx' \in [DOMAIN ctx' -> SessIds \cup {NoSession}]
    <2>1. ctx' = [r \in DOMAIN ctx' |-> ctx'[r]]
      BY <1>16, <1>18 DEF DeadContexts, With
    <2>2. \A r \in DOMAIN ctx' : ctx'[r] \in SessIds \cup {NoSession}
      BY <1>8, <1>19 DEF TypeInv
    <2> QED
      BY <2>1, <2>2
  <1>20. PICK l : l = [lost EXCEPT ![b] = @ + IF ctx[s] = NoSession THEN 0 ELSE 1]
    OBVIOUS
  <1>21. /\ l \in [InstIds -> Nat] /\ l[b] = IF ctx[s] = NoSession THEN lost[b] ELSE lost[b] + 1
         /\ \A j \in InstIds \ {b} : l[j] = lost[j]
    BY <1>6, <1>20 DEF TypeInv
  <1>22. lost' = IF d THEN [l EXCEPT ![i] = 0] ELSE l
    BY <1>4, <1>5, <1>20 DEF PanicThere, sims_open_ta_session, NestedLost, DeadMemory
  <1>23. /\ lost' \in [InstIds -> Nat]
         /\ lost'[b] = IF ctx[s] = NoSession THEN lost[b] ELSE lost[b] + 1
         /\ \A j \in InstIds \ {b} : lost'[j] = IF d /\ j = i THEN 0 ELSE lost[j]
    BY <1>8, <1>21, <1>22
  <1>24. counter' \in [InstIds -> Nat]
    <2>1. [counter EXCEPT ![i] = @ + 1] \in [InstIds -> Nat]
      BY <1>8 DEF TypeInv
    <2>2. PICK e \in [InstIds -> Nat] : e = CounterWith(ta)
      BY <1>1, <1>4, <2>1 DEF CounterWith
    <2>3. counter' = IF d THEN [e EXCEPT ![i] = 0] ELSE e
      BY <1>4, <2>2 DEF PanicThere, sims_open_ta_session, DeadMemory
    <2> QED
      BY <2>2, <2>3
  <1>25. overwrote' = (overwrote \/ ctx[s] # NoSession)
    <2>1. b \in InstIds /\ lost \in [InstIds -> Nat]
      BY <1>6 DEF TypeInv
    <2>2. (\E j \in InstIds : lost'[j] > lost[j]) <=> ctx[s] # NoSession
      BY <1>23, <2>1
    <2> QED
      BY <2>2
  <1>26. NestEffect(s, ta, n, i, b, d)
    BY <1>5, <1>6, <1>7, <1>8, <1>12, <1>14, <1>15, <1>19, <1>191, <1>23, <1>24, <1>25 DEF NestEffect
  <1> QED
    BY <1>3, <1>4, <1>5, <1>26

\* A session of sims opens a session, or opens one and makes it panic.
LEMMA NestStep ==
    ASSUME NInv, NEW s, NEW ta \in Targets, NEW n, NEW i, NEW b, NEW d, NestEffect(s, ta, n, i, b, d)
    PROVE  NInv'
  <1> USE DEF NInv
  <1>1. ta \in SimsTas /\ ta \in TAs
    BY NestedTasAssumption DEF SimsTas, TAs
  <1>2. /\ TeeOpen(n, i, ta, b, d) /\ d \in BOOLEAN
        /\ n \in SessIds /\ n \notin DOMAIN sess /\ n # NoSession /\ i \in InstIds
        /\ b \in InstIds /\ b # Host /\ b # i
    BY TeeSessionsAssumption DEF NestEffect, TeeOpen, TypeInv, Host
  <1>3. TypeInv'
    <2>1. DOMAIN ctx' \subseteq SessIds /\ ctx' \in [DOMAIN ctx' -> SessIds \cup {NoSession}]
      BY <1>2 DEF NestEffect, TypeInv
    <2> QED
      BY <1>2, <2>1 DEF NestEffect, TypeInv, TeeOpen, rpcVars
  <1>4. SessionInv' /\ InstanceInv' /\ OpenerInv'
    <2>1. MayOpen(i, ta, b)
      BY <1>2 DEF NestEffect, MayOpen, OpensTas
    <2> QED
      BY <1>1, <1>2, <2>1, OpenKeepsTee
  <1>5. HostInv'
    <2>1. sess'[n].by = b /\ DOMAIN sess' = DOMAIN sess \cup {n}
      BY <1>2 DEF TeeOpen
    <2>2. \A r \in DOMAIN sess : sess'[r] = sess[r]
      BY <1>2 DEF TeeOpen
    <2> QED
      BY <1>2, <2>1, <2>2 DEF HostInv, NestEffect
  <1>6. ContextInv'
    <2>1. \A r \in DOMAIN ctx : ctx[r] # n
      BY <1>2 DEF ContextInv
    <2>2. CtxOpen(n, i, ta, b, d)
      BY <1>1, <1>2, <2>1 DEF NestEffect, CtxOpen
    <2> QED
      BY <1>2, <2>2, OpenKeepsContexts
  <1>7. StaticInv'
    BY <1>2, OpenKeepsStatics DEF NestEffect
  <1>8. CallInv'
    BY <1>1, <1>2, OpenKeepsCalls DEF NestEffect, rpcVars
  <1>9. PICK x : x = ctx[s]
    OBVIOUS
  <1>10. ASSUME NEW j \in DOMAIN inst, ~inst'[j].dead, NEW y \in DOMAIN sess, y # NoSession,
                sess[y].by = j
         PROVE  Keeps(j, y)' <=> Keeps(j, y) /\ y # x
    <2>1. \A r \in DOMAIN sess : r \in DOMAIN sess' /\ sess'[r] = sess[r]
      BY <1>2 DEF TeeOpen
    <2>2. \A r \in DOMAIN ctx : r \in DOMAIN sess
      BY DEF ContextInv
    <2>3. d => j # i
      BY <1>2, <1>10 DEF TeeOpen
    <2>4. (\E r \in DOMAIN ctx' : r \in DOMAIN sess' /\ sess'[r].inst = j /\ ctx'[r] = y)
             <=> \E r \in DOMAIN ctx : r \in DOMAIN sess /\ sess[r].inst = j /\ ctx[r] = y /\ r # s
      BY <1>2, <1>10, <2>1, <2>2, <2>3 DEF NestEffect
    <2>5. \A r \in DOMAIN ctx : ctx[r] = y => (r # s <=> y # x)
      BY <1>9, <1>10 DEF ContextInv, NestEffect
    <2>6. (\E t \in SdpTargets : cached[j][t] = y) \/ stor_session[j] = y => y # x
      <3>1. x # NoSession => inst[sess[x].by].ta \in SimsTas
        BY <1>9 DEF ContextInv, NestEffect
      <3>2. j \in InstIds
        BY DEF TypeInv
      <3> QED
        BY <1>10, <3>1, <3>2 DEF StaticInv, SimsTas
    <2>7. ASSUME NEW g \in Hosts, call[g].sess = y PROVE y # x
      <3>1. x # NoSession => inst[sess[x].by].ta \in SimsTas
        BY <1>9 DEF ContextInv, NestEffect
      <3>2. inst[sess[y].by].ta = "rpc_test"
        BY <1>10, <2>7 DEF CallInv, CallOk
      <3> QED
        BY <1>10, <3>1, <3>2 DEF SimsTas
    <2>8. \A g \in Hosts : hostSess[g] \in DOMAIN sess' <=> hostSess[g] \in DOMAIN sess
      BY <1>2 DEF HostInv, TeeOpen
    <2>9. /\ cached' = cached /\ stor_session' = stor_session /\ hostSess' = hostSess /\ call' = call
      BY DEF NestEffect, rpcVars
    <2>10. (\E g \in Hosts : hostSess'[g] \in DOMAIN sess' /\ sess'[hostSess'[g]].inst = j
                               /\ call'[g].sess = y)
             <=> \E g \in Hosts : hostSess[g] \in DOMAIN sess /\ sess[hostSess[g]].inst = j
                               /\ call[g].sess = y
      BY <2>1, <2>8, <2>9
    <2> QED
      BY <2>4, <2>5, <2>6, <2>7, <2>9, <2>10 DEF Keeps
  <1>11. Keeps(b, n)'
    BY <1>2 DEF Keeps, NestEffect, TeeOpen
  <1>12. x # NoSession => x \in DOMAIN sess /\ sess[x].by = b /\ x \in HandlesOf(b)
    <2>1. x # NoSession => x \in DOMAIN sess /\ sess[x].by = b
      BY <1>9 DEF ContextInv, NestEffect
    <2>2. Keeps(b, x)
      BY <1>9 DEF Keeps, NestEffect
    <2> QED
      BY <2>1, <2>2, HandlesIff
  <1>13. LostInv'
    <2>1. ASSUME NEW j \in InstIds, lost'[j] # 0
          PROVE  j \in DOMAIN inst' /\ inst'[j].ta \in SimsTas /\ overwrote'
      <3>1. CASE j = b
        <4>1. lost[b] # 0 \/ ctx[s] # NoSession
          BY <2>1, <3>1 DEF NestEffect
        <4>2. b \in DOMAIN inst /\ inst[b].ta \in SimsTas /\ inst'[b] = inst[b] /\ b \in DOMAIN inst'
          BY <1>2 DEF NestEffect, TeeOpen
        <4>3. lost[b] # 0 => overwrote
          BY <1>2 DEF LostInv
        <4>4. overwrote' = (overwrote \/ ctx[s] # NoSession)
          BY DEF NestEffect
        <4>5. overwrote'
          BY <4>1, <4>3, <4>4, Zenon
        <4> QED
          BY <3>1, <4>2, <4>5
      <3>2. CASE j # b
        <4>1. lost[j] # 0
          BY <2>1, <3>2 DEF NestEffect
        <4>2. j \in DOMAIN inst /\ inst[j].ta \in SimsTas /\ overwrote
          BY <4>1 DEF LostInv
        <4>3. j \in DOMAIN inst' /\ inst'[j].ta = inst[j].ta
          BY <1>2, <4>2 DEF TeeOpen
        <4>4. overwrote' = (overwrote \/ ctx[s] # NoSession)
          BY DEF NestEffect
        <4>5. overwrote'
          BY <4>2, <4>4, Zenon
        <4> QED
          BY <4>2, <4>3, <4>5
      <3> QED
        BY <3>1, <3>2
    <2>2. ASSUME NEW j \in DOMAIN inst', ~inst'[j].dead
          PROVE  Cardinality(LostOn(j)') = lost'[j]
      <3>1. CASE j \notin DOMAIN inst
        <4>1. j = i /\ LostOn(i)' = {}
          BY <1>2, <2>2, <3>1, FreshLost DEF TeeOpen
        <4>2. lost'[j] = 0
          BY <1>2, <3>1, <4>1 DEF LostInv, NestEffect
        <4> QED
          BY <4>1, <4>2, FS_EmptySet
      <3>2. CASE j \in DOMAIN inst /\ (j # b \/ x = NoSession)
        <4>1. \A y \in DOMAIN sess : y # NoSession /\ sess[y].by = j => (Keeps(j, y)' <=> Keeps(j, y))
          BY <1>10, <1>12, <2>2, <3>2
        <4>2. LostOn(j)' = LostOn(j)
          BY <1>2, <1>11, <4>1, OpenLostOn
        <4>3. lost'[j] = lost[j]
          BY <1>2, <1>9, <2>2, <3>2 DEF NestEffect, TypeInv, TeeOpen
        <4>4. ~inst[j].dead
          BY <1>2, <2>2, <3>2 DEF TeeOpen
        <4> QED
          BY <3>2, <4>2, <4>3, <4>4 DEF LostInv
      <3>3. CASE j = b /\ x # NoSession
        <4>0. \A y \in DOMAIN sess : y # NoSession
          BY TeeSessionsAssumption DEF TypeInv, NoSession
        <4>1. LostOn(b)' = LostOn(b) \cup {x}
          <5>1. ASSUME NEW y PROVE y \in LostOn(b)' <=> y \in LostOn(b) \/ y = x
            <6>1. CASE y \in DOMAIN sess /\ sess[y].by = b
              <7>1. y \in OpenedBy(b)' /\ y \in OpenedBy(b)
                BY <1>2, <6>1 DEF OpenedBy, TeeOpen
              <7>2. y \in HandlesOf(b)' <=> y \in HandlesOf(b) /\ y # x
                <8>1. Keeps(b, y)' <=> Keeps(b, y) /\ y # x
                  BY <1>10, <2>2, <3>3, <4>0, <6>1 DEF NestEffect
                <8> QED
                  BY <4>0, <6>1, <8>1, HandlesIff, HandlesIffNext
              <7> QED
                BY <7>1, <7>2 DEF LostOn
            <6>2. CASE y = n
              BY <1>2, <1>11, <1>12, <3>3, <6>2, HandlesIffNext DEF LostOn, OpenedBy
            <6>3. CASE y # n /\ ~(y \in DOMAIN sess /\ sess[y].by = b)
              BY <1>2, <1>12, <3>3, <6>3 DEF LostOn, OpenedBy, TeeOpen
            <6> QED
              BY <6>1, <6>2, <6>3
          <5> QED
            BY <5>1
        <4>2. x \notin LostOn(b)
          BY <1>12, <3>3 DEF LostOn
        <4>3. IsFiniteSet(LostOn(b))
          BY FS_Subset, TeeSessionsAssumption DEF LostOn, OpenedBy, TypeInv
        <4>4. Cardinality(LostOn(b)) = lost[b]
          BY DEF LostInv, NestEffect
        <4>5. lost'[b] = lost[b] + 1
          BY <1>9, <3>3 DEF NestEffect
        <4> QED
          BY <3>3, <4>1, <4>2, <4>3, <4>4, <4>5, FS_AddElement
      <3> QED
        BY <3>1, <3>2, <3>3
    <2> QED
      BY <2>1, <2>2 DEF LostInv
  <1> QED
    BY <1>3, <1>4, <1>5, <1>6, <1>7, <1>8, <1>13

\* A command of the RPC test TA opens its session.
LEMMA RpcOpenStep ==
    ASSUME NInv, NEW h \in Hosts, NEW to \in {"crypt", "sims"}, NEW sec \in BOOLEAN, RpcOpen(h, to, sec),
           UNCHANGED <<hostSess, cached, stor_session, overwrote>>
    PROVE  NInv'
  <1> USE DEF NInv
  <1>1. to \in TAs
    BY DEF TAs
  <1>2. PICK n : n = NewHandle
    OBVIOUS
  <1>3. PICK i : i = TargetOf(to)
    OBVIOUS
  <1>4. PICK b : b = InstOf(h)
    OBVIOUS
  <1>5. /\ hostSess[h] \in DOMAIN sess /\ b = sess[hostSess[h]].inst /\ b \in DOMAIN inst
        /\ inst[b].ta = "rpc_test" /\ ~inst[b].dead /\ CanOpen(to, {b}) /\ call[h].pc = "idle"
    BY <1>4 DEF RpcOpen, Runs, SessionInv, InstOf
  <1>6. hostSess[h] # NoSession /\ sess[hostSess[h]].by = Host /\ b \in InstIds /\ b # Host
    BY <1>5, TeeSessionsAssumption DEF TypeInv, HostInv, NoSession, Host
  <1>7. /\ TeeOpen(n, i, to, b, FALSE) /\ b # i
        /\ sess' \in [DOMAIN sess' -> SessRecords] /\ inst' \in [DOMAIN inst' -> InstRecords]
    <2>1. {b} \in SUBSET DOMAIN inst /\ inst' = InstWith(to) /\ sess' = SessWith(to, b)
      BY <1>4, <1>5 DEF RpcOpen
    <2> QED
      BY <1>1, <1>2, <1>3, <1>5, <1>6, <2>1, OpenFacts
  <1>8. n \in SessIds /\ n \notin DOMAIN sess /\ n # NoSession /\ i \in InstIds
    BY <1>7 DEF TeeOpen
  <1>9. /\ call' = [call EXCEPT ![h] = [pc |-> IF sec THEN "copy" ELSE "invoke", to |-> to,
                                        sec |-> sec, sess |-> n]]
        /\ ctx' = IF to \in SimsTas THEN With(ctx, n, NoSession) ELSE ctx
        /\ counter' = IF to \in SimsTas THEN [counter EXCEPT ![i] = @ + 1] ELSE counter
        /\ lost' = lost /\ buffers' = buffers /\ hostSess' = hostSess /\ cached' = cached
        /\ stor_session' = stor_session /\ overwrote' = overwrote
    BY <1>2, <1>3 DEF RpcOpen, CtxWith, CounterWith
  <1>10. /\ DOMAIN ctx' = DOMAIN ctx \cup {x \in {n} : to \in SimsTas}
         /\ n \in DOMAIN ctx' => ctx'[n] = NoSession
         /\ \A r \in DOMAIN ctx : r \in DOMAIN ctx' /\ ctx'[r] = ctx[r] /\ ctx[r] # n /\ r # n
    BY <1>8, <1>9 DEF With, ContextInv
  <1>11. TypeInv'
    <2>1. call' \in [Hosts -> CallRecords]
      BY <1>8, <1>9 DEF TypeInv, CallRecords
    <2> QED
      BY <1>7, <1>8, <1>9, <2>1 DEF TypeInv, With, TeeOpen
  <1>12. SessionInv' /\ InstanceInv' /\ OpenerInv'
    <2>1. MayOpen(i, to, b)
      BY <1>5, <1>6, <1>7 DEF MayOpen, OpensTas, SimsTas
    <2> QED
      BY <1>7, <2>1, OpenKeepsTee
  <1>13. HostInv'
    BY <1>6, <1>7, <1>9 DEF HostInv, TeeOpen
  <1>14. ContextInv'
    <2>1. CtxOpen(n, i, to, b, FALSE)
      BY <1>10 DEF CtxOpen
    <2> QED
      BY <1>7, <2>1, OpenKeepsContexts
  <1>15. StaticInv'
    BY <1>7, <1>9, OpenKeepsStatics
  <1>16. \A g \in Hosts : g # h => call'[g] = call[g]
    BY <1>9 DEF TypeInv
  <1>17. call'[h].pc = (IF sec THEN "copy" ELSE "invoke") /\ call'[h].sec = sec /\ call'[h].sess = n
    BY <1>9 DEF TypeInv
  <1>18. CallInv'
    <2>1. CallOk(h)'
      <3>1. InstOf(h)' = b /\ inst'[b] = inst[b] /\ sess'[n].by = b /\ n \in DOMAIN sess'
        BY <1>5, <1>7, <1>9 DEF InstOf, TeeOpen
      <3> QED
        BY <1>5, <1>6, <1>9, <1>17, <3>1 DEF CallOk
    <2>2. \A g \in Hosts : call'[g] = call[g] \/ (call[g].pc = "idle" /\ CallOk(g)')
      BY <1>5, <1>16, <2>1
    <2>3. \A g \in Hosts : hostSess[g] # NoSession => hostSess'[g] = hostSess[g]
      BY <1>9
    <2> QED
      BY <1>7, <1>9, <2>2, <2>3, OpenKeepsCalls
  <1>19. Keeps(b, n)'
    <2>1. hostSess'[h] \in DOMAIN sess' /\ sess'[hostSess'[h]].inst = b
      BY <1>5, <1>7, <1>9 DEF TeeOpen
    <2> QED
      BY <1>17, <2>1 DEF Keeps
  <1>20. LostInv'
    <2>1. ASSUME NEW j \in DOMAIN inst, NEW y \in DOMAIN sess
          PROVE  Keeps(j, y)' <=> Keeps(j, y)
      <3>1. \A g \in Hosts : hostSess[g] # NoSession => hostSess'[g] = hostSess[g]
        BY <1>9
      <3>2. y # n /\ y # NoSession /\ call[h].sess = NoSession
        BY <1>5, <1>8, TeeSessionsAssumption DEF TypeInv, NoSession, CallInv, CallOk
      <3>3. /\ \A t \in SdpTargets : cached'[j][t] = y <=> cached[j][t] = y
            /\ stor_session'[j] = y <=> stor_session[j] = y
            /\ \A g \in Hosts : call'[g].sess = y <=> call[g].sess = y
        BY <1>9, <1>16, <1>17, <3>2
      <3>9. TypeInv /\ HostInv /\ ContextInv /\ CallInv
        OBVIOUS
      <3> HIDE DEF NInv
      <3> QED
        BY <1>7, <1>10, <3>1, <3>3, <3>9, OpenKeepsHandles
    <2>2. \A j \in DOMAIN inst : LostOn(j)' = LostOn(j)
      BY <1>7, <1>19, <2>1, OpenLostOn
    <2> QED
      BY <1>7, <1>9, <2>2, OpenKeepsLost
  <1> QED
    BY <1>11, <1>12, <1>13, <1>14, <1>15, <1>18, <1>20

\* The command of the secure data path TA opens a session.
SdpOpens(h, t, b) ==
    /\ b = sess[hostSess[h]].inst /\ Runs(hostSess[h], {"sdp_basic"})
    /\ cached[b][t] = NoSession /\ CanOpen(t, {b})
    /\ cached' = [cached EXCEPT ![b][t] = NewHandle]
    /\ inst' = InstWith(t) /\ sess' = SessWith(t, b)
    /\ UNCHANGED <<simsVars, hostSess, rpcVars, stor_session, overwrote>>

\* A command of the secure data path TA opens a session and caches it.
LEMMA SdpOpenStep ==
    ASSUME NInv, NEW h \in Hosts, NEW t \in SdpTargets, NEW b, SdpOpens(h, t, b)
    PROVE  NInv'
  <1> USE DEF NInv
  <1>1. t \in TAs /\ t \notin SimsTas
    BY DEF TAs, SdpTargets, SimsTas
  <1>2. PICK n : n = NewHandle
    OBVIOUS
  <1>3. PICK i : i = TargetOf(t)
    OBVIOUS
  <1>5. /\ hostSess[h] \in DOMAIN sess /\ b \in DOMAIN inst
        /\ inst[b].ta = "sdp_basic" /\ ~inst[b].dead
    BY DEF SdpOpens, Runs, SessionInv
  <1>6. hostSess[h] # NoSession /\ sess[hostSess[h]].by = Host /\ b \in InstIds /\ b # Host
    BY <1>5, TeeSessionsAssumption DEF TypeInv, HostInv, NoSession, Host
  <1>7. /\ TeeOpen(n, i, t, b, FALSE) /\ b # i
        /\ sess' \in [DOMAIN sess' -> SessRecords] /\ inst' \in [DOMAIN inst' -> InstRecords]
    <2>1. /\ {b} \in SUBSET DOMAIN inst /\ CanOpen(t, {b})
          /\ inst' = InstWith(t) /\ sess' = SessWith(t, b)
      BY <1>5 DEF SdpOpens
    <2> QED
      BY <1>1, <1>2, <1>3, <1>6, <2>1, OpenFacts
  <1>8. n \in SessIds /\ n \notin DOMAIN sess /\ n # NoSession /\ i \in InstIds
    BY <1>7 DEF TeeOpen
  <1>9. /\ ctx' = ctx /\ counter' = counter /\ lost' = lost /\ call' = call /\ buffers' = buffers
        /\ hostSess' = hostSess /\ stor_session' = stor_session /\ overwrote' = overwrote
    BY DEF SdpOpens, simsVars, rpcVars
  <1>10. /\ cached'[b][t] = n
         /\ \A j \in InstIds, u \in SdpTargets : j # b \/ u # t => cached'[j][u] = cached[j][u]
         /\ cached' \in [InstIds -> [SdpTargets -> SessIds \cup {NoSession}]]
    BY <1>2, <1>6, <1>8 DEF SdpOpens, TypeInv
  <1>11. TypeInv'
    BY <1>7, <1>8, <1>9, <1>10 DEF TypeInv, TeeOpen
  <1>12. SessionInv' /\ InstanceInv' /\ OpenerInv'
    <2>1. MayOpen(i, t, b)
      BY <1>5, <1>6, <1>7 DEF MayOpen, OpensTas, SimsTas, SdpOpens
    <2> QED
      BY <1>7, <2>1, OpenKeepsTee
  <1>13. HostInv'
    BY <1>6, <1>7, <1>9 DEF HostInv, TeeOpen
  <1>14. ContextInv'
    <2>1. \A r \in DOMAIN ctx : r \in DOMAIN sess /\ ctx[r] # n
      BY <1>8 DEF ContextInv
    <2>2. CtxOpen(n, i, t, b, FALSE)
      BY <1>1, <1>8, <1>9, <2>1 DEF CtxOpen
    <2> QED
      BY <1>7, <2>2, OpenKeepsContexts
  <1>15. StaticInv'
    <2>1. \A j \in DOMAIN inst : j \in DOMAIN inst' /\ inst'[j].ta = inst[j].ta
      BY <1>7 DEF TeeOpen
    <2>2. \A s \in DOMAIN sess : s \in DOMAIN sess' /\ sess'[s] = sess[s] /\ sess[s].inst \in DOMAIN inst
      BY <1>7 DEF TeeOpen, SessionInv
    <2>3. ASSUME NEW j \in InstIds, NEW u \in SdpTargets, cached'[j][u] # NoSession
          PROVE  /\ j \in DOMAIN inst' /\ inst'[j].ta = "sdp_basic"
                 /\ cached'[j][u] \in DOMAIN sess'
                 /\ sess'[cached'[j][u]].by = j /\ inst'[sess'[cached'[j][u]].inst].ta = u
      <3>1. CASE j = b /\ u = t
        <4>1. n \in DOMAIN sess' /\ sess'[n].by = b /\ sess'[n].inst = i /\ inst'[i].ta = t
          BY <1>7 DEF TeeOpen
        <4> QED
          BY <1>5, <1>10, <2>1, <3>1, <4>1
      <3>2. CASE j # b \/ u # t
        <4>1. cached'[j][u] = cached[j][u]
          BY <1>10, <3>2
        <4>2. /\ j \in DOMAIN inst /\ inst[j].ta = "sdp_basic"
              /\ cached[j][u] \in DOMAIN sess
              /\ sess[cached[j][u]].by = j /\ inst[sess[cached[j][u]].inst].ta = u
          BY <2>3, <4>1 DEF StaticInv
        <4> QED
          BY <2>1, <2>2, <4>1, <4>2
      <3> QED
        BY <3>1, <3>2
    <2>4. ASSUME NEW j \in InstIds, stor_session'[j] # NoSession
          PROVE  /\ j \in DOMAIN inst' /\ inst'[j].ta = "key"
                 /\ stor_session'[j] \in DOMAIN sess' /\ sess'[stor_session'[j]].by = j
      BY <1>9, <2>1, <2>2, <2>4 DEF StaticInv
    <2> QED
      BY <2>3, <2>4 DEF StaticInv
  <1>16. CallInv'
    BY <1>7, <1>9, OpenKeepsCalls
  <1>17. Keeps(b, n)'
    BY <1>10 DEF Keeps
  <1>18. LostInv'
    <2>1. ASSUME NEW j \in DOMAIN inst, NEW y \in DOMAIN sess
          PROVE  Keeps(j, y)' <=> Keeps(j, y)
      <3>1. y # n /\ y # NoSession /\ j \in InstIds
        BY <1>8, TeeSessionsAssumption DEF TypeInv, NoSession
      <3>2. /\ DOMAIN ctx' \subseteq DOMAIN ctx \cup {n}
            /\ n \in DOMAIN ctx' => ctx'[n] = NoSession
            /\ \A r \in DOMAIN ctx : r \in DOMAIN ctx' /\ ctx'[r] = ctx[r]
        BY <1>8, <1>9 DEF ContextInv
      <3>3. \A u \in SdpTargets : cached'[j][u] = y <=> cached[j][u] = y
        BY <1>10, <3>1 DEF SdpOpens
      <3>4. /\ stor_session'[j] = y <=> stor_session[j] = y
            /\ \A g \in Hosts : call'[g].sess = y <=> call[g].sess = y
            /\ \A g \in Hosts : hostSess[g] # NoSession => hostSess'[g] = hostSess[g]
        BY <1>9
      <3>9. TypeInv /\ HostInv /\ ContextInv /\ CallInv
        OBVIOUS
      <3> HIDE DEF NInv
      <3> QED
        BY <1>7, <3>2, <3>3, <3>4, <3>9, OpenKeepsHandles
    <2>2. \A j \in DOMAIN inst : LostOn(j)' = LostOn(j)
      <3> TAKE j \in DOMAIN inst
      <3>1. TypeInv
        OBVIOUS
      <3>2. TeeOpen(n, i, t, b, FALSE)
        BY <1>7
      <3>3. \A y \in DOMAIN sess : y # NoSession /\ sess[y].by = j => (Keeps(j, y)' <=> Keeps(j, y))
        BY <2>1
      <3>4. b = j => Keeps(j, n)'
        BY <1>17, Zenon
      <3> HIDE DEF NInv
      <3> QED
        BY <3>1, <3>2, <3>3, <3>4, OpenLostOn
    <2> QED
      BY <1>7, <1>9, <2>2, OpenKeepsLost
  <1> QED
    BY <1>11, <1>12, <1>13, <1>14, <1>15, <1>16, <1>18

\* What opening a session with the key TA does: its instance i and session m, and the
\* instance j and session n of the storage TA.
KeyEffect(h, i, j, m, n) ==
    /\ hostSess[h] = NoSession /\ hostSess' = [hostSess EXCEPT ![h] = m]
    /\ i \in InstIds \ DOMAIN inst /\ j \in InstIds \ DOMAIN inst /\ i # j
    /\ m \in SessIds \ DOMAIN sess /\ n \in SessIds \ DOMAIN sess /\ m # n
    /\ DOMAIN inst' = DOMAIN inst \cup {i, j}
    /\ inst'[i] = [ta |-> "key", dead |-> FALSE] /\ inst'[j] = [ta |-> "storage", dead |-> FALSE]
    /\ \A k \in DOMAIN inst : inst'[k] = inst[k]
    /\ DOMAIN sess' = DOMAIN sess \cup {m, n}
    /\ sess'[m] = [inst |-> i, by |-> Host] /\ sess'[n] = [inst |-> j, by |-> i]
    /\ \A s \in DOMAIN sess : sess'[s] = sess[s]
    /\ sess' \in [DOMAIN sess' -> SessRecords] /\ inst' \in [DOMAIN inst' -> InstRecords]
    /\ stor_session' = [stor_session EXCEPT ![i] = n]
    /\ UNCHANGED <<simsVars, rpcVars, cached, overwrote>>

\* A set of two elements and more is not empty without one of them.
LEMMA TwoLeft ==
    ASSUME NEW S, IsFiniteSet(S), Cardinality(S) >= 2, NEW x
    PROVE  S # {} /\ S \ {x} # {}
  <1>1. Cardinality(S) \in Nat
    BY FS_CardinalityType
  <1>2. /\ IsFiniteSet(S \ {x})
        /\ Cardinality(S \ {x}) = IF x \in S THEN Cardinality(S) - 1 ELSE Cardinality(S)
    BY FS_RemoveElement, Zenon
  <1>3. Cardinality(S \ {x}) # 0
    BY <1>1, <1>2
  <1>4. S \ {x} # {}
    BY <1>3, FS_EmptySet
  <1> QED
    BY <1>4

\* OpenKeySession has this effect.
LEMMA KeyFacts ==
    ASSUME NInv, NEW h \in Hosts, OpenKeySession(h)
    PROVE  \E i, j, m, n : KeyEffect(h, i, j, m, n)
  <1> USE DEF NInv
  <1>1. PICK i : i = TargetOf("key")
    OBVIOUS
  <1>2. PICK j : j = First(InstIds \ (DOMAIN inst \cup {i}))
    OBVIOUS
  <1>3. PICK m : m = NewHandle
    OBVIOUS
  <1>4. PICK n : n = First(SessIds \ (DOMAIN sess \cup {m}))
    OBVIOUS
  <1>5. ~Shared("key") /\ i = First(InstIds \ DOMAIN inst)
    BY <1>1 DEF Shared, SingleInstance, TargetOf
  <1>6. i \in InstIds \ DOMAIN inst /\ j \in InstIds \ DOMAIN inst /\ i # j
    <2>1. IsFiniteSet(InstIds \ DOMAIN inst) /\ Cardinality(InstIds \ DOMAIN inst) >= 2
      BY FS_Difference, TeeSessionsAssumption DEF OpenKeySession
    <2>2. InstIds \ DOMAIN inst # {} /\ (InstIds \ DOMAIN inst) \ {i} # {}
      BY <2>1, TwoLeft
    <2>3. i \in InstIds \ DOMAIN inst
      BY <1>5, <2>2, FirstIn, TeeSessionsAssumption
    <2>4. InstIds \ (DOMAIN inst \cup {i}) # {} /\ InstIds \ (DOMAIN inst \cup {i}) \in SUBSET Nat
      BY <2>2, TeeSessionsAssumption
    <2>5. j \in InstIds \ (DOMAIN inst \cup {i})
      BY <1>2, <2>4, FirstIn
    <2> QED
      BY <2>3, <2>5
  <1>7. m \in SessIds \ DOMAIN sess /\ n \in SessIds \ DOMAIN sess /\ m # n
    <2>1. IsFiniteSet(SessIds \ DOMAIN sess) /\ Cardinality(SessIds \ DOMAIN sess) >= 2
      BY FS_Difference, TeeSessionsAssumption DEF OpenKeySession
    <2>2. SessIds \ DOMAIN sess # {} /\ (SessIds \ DOMAIN sess) \ {m} # {}
      BY <2>1, TwoLeft
    <2>3. m \in SessIds \ DOMAIN sess
      BY <1>3, <2>2, FirstIn, TeeSessionsAssumption DEF NewHandle
    <2>4. SessIds \ (DOMAIN sess \cup {m}) # {} /\ SessIds \ (DOMAIN sess \cup {m}) \in SUBSET Nat
      BY <2>2, TeeSessionsAssumption
    <2>5. n \in SessIds \ (DOMAIN sess \cup {m})
      BY <1>4, <2>4, FirstIn
    <2> QED
      BY <2>3, <2>5
  <1>8. inst' = With(With(inst, i, [ta |-> "key", dead |-> FALSE]), j, [ta |-> "storage", dead |-> FALSE])
    BY <1>1, <1>2, <1>5 DEF OpenKeySession, InstWith
  <1>9. sess' = With(With(sess, m, [inst |-> i, by |-> Host]), n, [inst |-> j, by |-> i])
    BY <1>1, <1>2, <1>3, <1>4 DEF OpenKeySession, SessWith
  <1>10. /\ DOMAIN inst' = DOMAIN inst \cup {i, j}
         /\ inst'[i] = [ta |-> "key", dead |-> FALSE] /\ inst'[j] = [ta |-> "storage", dead |-> FALSE]
         /\ \A k \in DOMAIN inst : inst'[k] = inst[k]
    BY <1>6, <1>8 DEF With
  <1>11. /\ DOMAIN sess' = DOMAIN sess \cup {m, n}
         /\ sess'[m] = [inst |-> i, by |-> Host] /\ sess'[n] = [inst |-> j, by |-> i]
         /\ \A s \in DOMAIN sess : sess'[s] = sess[s]
    BY <1>7, <1>9 DEF With
  <1>12. inst' \in [DOMAIN inst' -> InstRecords]
    <2>1. inst' = [k \in DOMAIN inst' |-> inst'[k]]
      BY <1>8 DEF With
    <2>2. [ta |-> "key", dead |-> FALSE] \in InstRecords /\ [ta |-> "storage", dead |-> FALSE] \in InstRecords
      BY DEF InstRecords, TAs
    <2>3. \A k \in DOMAIN inst : inst[k] \in InstRecords
      BY DEF TypeInv
    <2>4. \A k \in DOMAIN inst' : inst'[k] \in InstRecords
      BY <1>10, <2>2, <2>3
    <2> QED
      BY <2>1, <2>4
  <1>13. sess' \in [DOMAIN sess' -> SessRecords]
    <2>1. sess' = [s \in DOMAIN sess' |-> sess'[s]]
      BY <1>9 DEF With
    <2>2. [inst |-> i, by |-> Host] \in SessRecords /\ [inst |-> j, by |-> i] \in SessRecords
      BY <1>6 DEF SessRecords
    <2>3. \A s \in DOMAIN sess : sess[s] \in SessRecords
      BY DEF TypeInv
    <2>4. \A s \in DOMAIN sess' : sess'[s] \in SessRecords
      BY <1>11, <2>2, <2>3
    <2> QED
      BY <2>1, <2>4
  <1>14. /\ hostSess[h] = NoSession /\ hostSess' = [hostSess EXCEPT ![h] = m]
         /\ stor_session' = [stor_session EXCEPT ![i] = n]
         /\ UNCHANGED <<simsVars, rpcVars, cached, overwrote>>
    BY <1>1, <1>3, <1>4 DEF OpenKeySession
  <1>15. KeyEffect(h, i, j, m, n)
    BY <1>6, <1>7, <1>10, <1>11, <1>12, <1>13, <1>14 DEF KeyEffect
  <1> QED
    BY <1>15

\* A thread opens a session with the key TA, which opens one with the storage TA.
LEMMA OpenKeySessionStep ==
    ASSUME NInv, NEW h \in Hosts, NEW i, NEW j, NEW m, NEW n, KeyEffect(h, i, j, m, n)
    PROVE  NInv'
  <1> USE DEF NInv
  <1>1. /\ i \in InstIds /\ j \in InstIds /\ i \notin DOMAIN inst /\ j \notin DOMAIN inst /\ i # j
        /\ i # Host /\ j # Host
        /\ m \in SessIds /\ n \in SessIds /\ m \notin DOMAIN sess /\ n \notin DOMAIN sess /\ m # n
        /\ m # NoSession /\ n # NoSession
    BY TeeSessionsAssumption DEF KeyEffect, Host, NoSession
  <1>2. /\ DOMAIN sess' = DOMAIN sess \cup {m, n}
        /\ sess'[m].inst = i /\ sess'[m].by = Host /\ sess'[n].inst = j /\ sess'[n].by = i
        /\ \A s \in DOMAIN sess : sess'[s] = sess[s] /\ s # NoSession
    BY TeeSessionsAssumption DEF KeyEffect, TypeInv, NoSession
  <1>3. /\ DOMAIN inst' = DOMAIN inst \cup {i, j}
        /\ inst'[i].ta = "key" /\ inst'[j].ta = "storage" /\ ~inst'[i].dead /\ ~inst'[j].dead
        /\ \A k \in DOMAIN inst : inst'[k] = inst[k]
    BY DEF KeyEffect
  <1>4. /\ ctx' = ctx /\ counter' = counter /\ lost' = lost /\ call' = call /\ buffers' = buffers
        /\ cached' = cached /\ overwrote' = overwrote
        /\ hostSess[h] = NoSession /\ \A g \in Hosts : hostSess'[g] = IF g = h THEN m ELSE hostSess[g]
        /\ \A k \in InstIds : stor_session'[k] = IF k = i THEN n ELSE stor_session[k]
    BY DEF KeyEffect, simsVars, rpcVars, TypeInv
  <1>5. \A s \in DOMAIN sess : /\ sess[s].inst \in DOMAIN inst
                               /\ sess[s].by # Host => sess[s].by \in DOMAIN inst
    BY DEF SessionInv
  <1>6. TypeInv'
    BY <1>1, <1>4 DEF TypeInv, KeyEffect
  <1>7. SessionInv'
    <2> SUFFICES ASSUME NEW s \in DOMAIN sess'
                 PROVE  /\ sess'[s].inst \in DOMAIN inst'
                        /\ sess'[s].by = Host => inst'[sess'[s].inst].ta \in HostTas
                        /\ sess'[s].by # Host =>
                              /\ sess'[s].by \in DOMAIN inst' /\ sess'[s].by # sess'[s].inst
                              /\ inst'[sess'[s].inst].ta \in OpensTas(inst'[sess'[s].by].ta)
      BY DEF SessionInv, OpensTas
    <2>1. CASE s \in DOMAIN sess
      BY <1>2, <1>3, <2>1 DEF SessionInv
    <2>2. CASE s = m
      BY <1>2, <1>3, <2>2 DEF HostTas
    <2>3. CASE s = n
      <3>1. OpensTas("key") = {"storage"}
        BY DEF OpensTas, SimsTas
      <3> QED
        BY <1>1, <1>2, <1>3, <2>3, <3>1
    <2> QED
      BY <1>2, <2>1, <2>2, <2>3
  <1>8. HostInv'
    <2>1. \A g \in Hosts : hostSess'[g] # NoSession =>
              hostSess'[g] \in DOMAIN sess' /\ sess'[hostSess'[g]].by = Host
      BY <1>2, <1>4 DEF HostInv
    <2>2. \A f, g \in Hosts : hostSess'[f] = hostSess'[g] /\ hostSess'[g] # NoSession => f = g
      BY <1>1, <1>4 DEF HostInv
    <2>3. ASSUME NEW s \in DOMAIN sess', sess'[s].by = Host
          PROVE  \E g \in Hosts : hostSess'[g] = s
      <3>1. CASE s = m
        BY <1>4, <3>1
      <3>2. CASE s \in DOMAIN sess
        <4>1. PICK g \in Hosts : hostSess[g] = s
          BY <1>2, <2>3, <3>2 DEF HostInv
        <4> QED
          BY <1>2, <1>4, <3>2, <4>1
      <3> QED
        BY <1>1, <1>2, <2>3, <3>1, <3>2
    <2> QED
      BY <2>1, <2>2, <2>3 DEF HostInv
  <1>9. InstanceInv'
    <2>1. ASSUME NEW k \in DOMAIN inst', inst'[k].dead \/ inst'[k].ta \notin KeepAlive
          PROVE  \E s \in DOMAIN sess' : sess'[s].inst = k
      <3>1. CASE k \in DOMAIN inst
        <4>1. \E s \in DOMAIN sess : sess[s].inst = k
          BY <1>3, <2>1, <3>1 DEF InstanceInv
        <4> QED
          BY <1>2, <4>1
      <3> QED
        BY <1>2, <1>3, <3>1
    <2>2. ASSUME NEW s \in DOMAIN sess', NEW r \in DOMAIN sess', sess'[s].inst = sess'[r].inst,
                 inst'[sess'[s].inst].ta \notin SingleInstance
          PROVE  s = r
      BY <1>1, <1>2, <1>3, <1>5, <2>2 DEF InstanceInv
    <2>3. ASSUME NEW k \in DOMAIN inst', NEW l \in DOMAIN inst', inst'[k].ta = inst'[l].ta,
                 inst'[k].ta \in SingleInstance
          PROVE  k = l
      BY <1>3, <2>3 DEF InstanceInv, SingleInstance
    <2>4. ASSUME NEW k \in DOMAIN inst', inst'[k].dead
          PROVE  inst'[k].ta \in SimsTas \cup {"rpc_test"}
      BY <1>3, <2>4 DEF InstanceInv
    <2> QED
      BY <2>1, <2>2, <2>3, <2>4 DEF InstanceInv
  <1>10. OpenerInv'
    <2> SUFFICES ASSUME NEW s \in DOMAIN sess', sess'[s].by # Host,
                        inst'[sess'[s].by].ta \notin SingleInstance
                 PROVE  \E r \in DOMAIN sess' : sess'[r].inst = sess'[s].by /\ sess'[r].by = Host
      BY DEF OpenerInv
    <2>1. CASE s \in DOMAIN sess
      <3>1. \E r \in DOMAIN sess : sess[r].inst = sess[s].by /\ sess[r].by = Host
        BY <1>2, <1>3, <1>5, <2>1 DEF OpenerInv
      <3> QED
        BY <1>2, <2>1, <3>1
    <2> QED
      BY <1>2, <2>1
  <1>11. ContextInv'
    <2>1. {s \in DOMAIN sess' : inst'[sess'[s].inst].ta \in SimsTas}
             = {s \in DOMAIN sess : inst[sess[s].inst].ta \in SimsTas}
      BY <1>1, <1>2, <1>3, <1>5 DEF SimsTas
    <2>2. ASSUME NEW s \in DOMAIN ctx, ctx[s] # NoSession
          PROVE  /\ sess'[s].by = Host /\ ~inst'[sess'[s].inst].dead
                 /\ ctx[s] \in DOMAIN sess' /\ sess'[ctx[s]].by = sess'[s].inst
      BY <1>2, <1>3, <1>5, <2>2 DEF ContextInv
    <2> QED
      BY <1>4, <2>1, <2>2 DEF ContextInv
  <1>12. StaticInv'
    <2>1. ASSUME NEW k \in InstIds, NEW t \in SdpTargets, cached[k][t] # NoSession
          PROVE  /\ k \in DOMAIN inst' /\ inst'[k].ta = "sdp_basic"
                 /\ cached[k][t] \in DOMAIN sess'
                 /\ sess'[cached[k][t]].by = k /\ inst'[sess'[cached[k][t]].inst].ta = t
      BY <1>2, <1>3, <1>5, <2>1 DEF StaticInv
    <2>2. ASSUME NEW k \in InstIds, stor_session'[k] # NoSession
          PROVE  /\ k \in DOMAIN inst' /\ inst'[k].ta = "key"
                 /\ stor_session'[k] \in DOMAIN sess' /\ sess'[stor_session'[k]].by = k
      BY <1>2, <1>3, <1>4, <2>2 DEF StaticInv
    <2> QED
      BY <1>4, <2>1, <2>2 DEF StaticInv
  <1>13. CallInv'
    <2>1. ASSUME NEW g \in Hosts, hostSess[g] # NoSession
          PROVE  hostSess'[g] = hostSess[g] /\ InstOf(g)' = InstOf(g) /\ InstOf(g) \in DOMAIN inst
      BY <1>2, <1>4, <1>5, <2>1 DEF HostInv, InstOf
    <2>2. ASSUME NEW g \in Hosts PROVE CallOk(g)'
      BY <1>2, <1>3, <1>4, <2>1 DEF CallInv, CallOk
    <2>3. ASSUME NEW k \in InstIds, buffers'[k]
          PROVE  /\ k \in DOMAIN inst' /\ inst'[k].ta = "rpc_test"
                 /\ ~inst'[k].dead => \E g \in Hosts :
                       /\ hostSess'[g] # NoSession /\ InstOf(g)' = k
                       /\ call'[g].sec /\ call'[g].pc \in {"invoke", "close"}
      <3>1. /\ k \in DOMAIN inst /\ inst[k].ta = "rpc_test"
            /\ ~inst[k].dead => \E g \in Hosts :
                       /\ hostSess[g] # NoSession /\ InstOf(g) = k
                       /\ call[g].sec /\ call[g].pc \in {"invoke", "close"}
        BY <1>4, <2>3 DEF CallInv
      <3> QED
        BY <1>3, <1>4, <2>1, <3>1
    <2> QED
      BY <2>2, <2>3 DEF CallInv
  <1>14. LostInv'
    <2>1. ASSUME NEW k \in InstIds, lost'[k] # 0
          PROVE  k \in DOMAIN inst' /\ inst'[k].ta \in SimsTas /\ overwrote'
      BY <1>3, <1>4, <2>1 DEF LostInv
    <2>2. ASSUME NEW k \in DOMAIN inst', k \in DOMAIN inst PROVE LostOn(k)' = LostOn(k)
      <3>0. k # i /\ k # j /\ k \in InstIds /\ k # Host
        BY <1>1, <2>2, TeeSessionsAssumption DEF TypeInv, Host
      <3>1. OpenedBy(k)' = OpenedBy(k)
        BY <1>1, <1>2, <3>0 DEF OpenedBy
      <3>2. ASSUME NEW y \in DOMAIN sess PROVE Keeps(k, y)' <=> Keeps(k, y)
        <4>1. (\E s \in DOMAIN ctx' : s \in DOMAIN sess' /\ sess'[s].inst = k /\ ctx'[s] = y)
                 <=> (\E s \in DOMAIN ctx : s \in DOMAIN sess /\ sess[s].inst = k /\ ctx[s] = y)
          BY <1>1, <1>2, <1>4, <3>0
        <4>2. \A g \in Hosts : call[g].sess = y => hostSess'[g] = hostSess[g] /\ hostSess[g] \in DOMAIN sess
          BY <1>2, <1>4, <3>2 DEF CallInv, CallOk, HostInv
        <4>3. (\E g \in Hosts : hostSess'[g] \in DOMAIN sess' /\ sess'[hostSess'[g]].inst = k
                                 /\ call'[g].sess = y)
                 <=> (\E g \in Hosts : hostSess[g] \in DOMAIN sess /\ sess[hostSess[g]].inst = k
                                 /\ call[g].sess = y)
          BY <1>2, <1>4, <4>2
        <4>4. stor_session'[k] = stor_session[k] /\ cached' = cached
          BY <1>4, <3>0
        <4> QED
          BY <4>1, <4>3, <4>4 DEF Keeps
      <3>3. ASSUME NEW y \in OpenedBy(k) PROVE y \in HandlesOf(k)' <=> y \in HandlesOf(k)
        BY <3>2, <3>3, HandlesIff, HandlesIffNext DEF OpenedBy
      <3> QED
        BY <3>1, <3>3 DEF LostOn
    <2>3. LostOn(i)' = {}
      <3>1. ASSUME NEW y \in OpenedBy(i)' PROVE y = n
        BY <1>1, <1>2, <1>5, <3>1 DEF OpenedBy
      <3>2. n \in HandlesOf(i)'
        <4>1. Keeps(i, n)'
          BY <1>1, <1>4 DEF Keeps
        <4> QED
          BY <1>1, <4>1, HandlesIffNext
      <3> QED
        BY <3>1, <3>2 DEF LostOn
    <2>4. LostOn(j)' = {}
      BY <1>1, <1>2, <1>5 DEF LostOn, OpenedBy
    <2>5. ASSUME NEW k \in DOMAIN inst', ~inst'[k].dead
          PROVE  Cardinality(LostOn(k)') = lost'[k]
      <3>1. CASE k \in DOMAIN inst
        BY <1>3, <1>4, <2>2, <2>5, <3>1 DEF LostInv
      <3>2. CASE k \in {i, j}
        <4>1. lost'[k] = 0 /\ LostOn(k)' = {}
          BY <1>1, <1>4, <2>3, <2>4, <3>2 DEF LostInv
        <4> QED
          BY <4>1, FS_EmptySet
      <3> QED
        BY <1>3, <3>1, <3>2
    <2> QED
      BY <2>1, <2>5 DEF LostInv
  <1> QED
    BY <1>6, <1>7, <1>8, <1>9, <1>10, <1>11, <1>12, <1>13, <1>14

-----------------------------------------------------------------------------
\* The instance i panics.
Killed(i) ==
    /\ i \in DOMAIN inst /\ sess' = sess
    /\ DOMAIN inst' = DOMAIN inst /\ inst'[i] = [ta |-> inst[i].ta, dead |-> TRUE]
    /\ \A j \in DOMAIN inst : j # i => inst'[j] = inst[j]
    /\ inst' \in [DOMAIN inst' -> InstRecords]

\* TEE_Panic has this effect.
LEMMA KillFacts ==
    ASSUME TypeInv, NEW i \in DOMAIN inst, Kill(i)
    PROVE  Killed(i)
  <1>1. inst[i] \in InstRecords
    BY DEF TypeInv
  <1>2. PICK r : r = [ta |-> inst[i].ta, dead |-> TRUE]
    OBVIOUS
  <1>3. r \in InstRecords
    BY <1>1, <1>2 DEF InstRecords
  <1>4. inst' = [inst EXCEPT ![i] = r] /\ sess' = sess
    <2>1. inst' = [inst EXCEPT ![i] = [inst[i] EXCEPT !.dead = TRUE]] /\ sess' = sess
      BY DEF Kill
    <2>2. [inst[i] EXCEPT !.dead = TRUE] = r
      BY <1>1, <1>2, KilledRecord
    <2> QED
      BY <2>1, <2>2, Zenon
  <1>5. /\ DOMAIN inst' = DOMAIN inst /\ inst'[i] = r
        /\ \A j \in DOMAIN inst : j # i => inst'[j] = inst[j]
        /\ inst' \in [DOMAIN inst' -> InstRecords]
    BY <1>3, <1>4 DEF TypeInv
  <1> QED
    BY <1>2, <1>4, <1>5 DEF Killed

\* An instance that panics and has a session keeps its sessions.
LEMMA KillKeepsTee ==
    ASSUME TypeInv, SessionInv, InstanceInv, OpenerInv, NEW i, Killed(i),
           inst[i].ta \in SimsTas \cup {"rpc_test"}, NEW s \in DOMAIN sess, sess[s].inst = i
    PROVE  SessionInv' /\ InstanceInv' /\ OpenerInv'
  <1>1. \A j \in DOMAIN inst : j \in DOMAIN inst' /\ inst'[j].ta = inst[j].ta
    BY DEF Killed
  <1>2. sess' = sess /\ DOMAIN inst' = DOMAIN inst
    BY DEF Killed
  <1>3. SessionInv'
    BY <1>1, <1>2 DEF SessionInv, OpensTas
  <1>4. InstanceInv'
    <2>1. ASSUME NEW j \in DOMAIN inst', inst'[j].dead \/ inst'[j].ta \notin KeepAlive
          PROVE  \E r \in DOMAIN sess' : sess'[r].inst = j
      BY <1>2, <2>1 DEF Killed, InstanceInv
    <2>2. ASSUME NEW q \in DOMAIN sess', NEW r \in DOMAIN sess', sess'[q].inst = sess'[r].inst,
                 inst'[sess'[q].inst].ta \notin SingleInstance
          PROVE  q = r
      BY <1>1, <1>2, <2>2 DEF InstanceInv, SessionInv
    <2>3. ASSUME NEW j \in DOMAIN inst', NEW k \in DOMAIN inst', inst'[j].ta = inst'[k].ta,
                 inst'[j].ta \in SingleInstance
          PROVE  j = k
      BY <1>1, <1>2, <2>3 DEF InstanceInv
    <2>4. ASSUME NEW j \in DOMAIN inst', inst'[j].dead
          PROVE  inst'[j].ta \in SimsTas \cup {"rpc_test"}
      BY <1>1, <1>2, <2>4 DEF InstanceInv, Killed
    <2> QED
      BY <2>1, <2>2, <2>3, <2>4 DEF InstanceInv
  <1>5. OpenerInv'
    BY <1>1, <1>2 DEF OpenerInv, SessionInv
  <1> QED
    BY <1>3, <1>4, <1>5

\* sims panics.
LEMMA PanicHereStep ==
    ASSUME NInv, NEW h \in Hosts, PanicHere(hostSess[h]),
           overwrote' = (overwrote \/ \E i \in InstIds : lost'[i] > lost[i]),
           UNCHANGED <<hostSess, rpcVars, cached, stor_session>>
    PROVE  NInv'
  <1> USE DEF NInv
  <1>1. PICK s : s = hostSess[h]
    OBVIOUS
  <1>2. PICK i : i = sess[s].inst
    OBVIOUS
  <1>3. /\ s \in DOMAIN sess /\ i \in DOMAIN inst /\ inst[i].ta \in SimsTas /\ ~inst[i].dead /\ i \in InstIds
        /\ Kill(i)
    BY <1>1, <1>2 DEF PanicHere, Runs, SessionInv, TypeInv
  <1>4. Killed(i)
    BY <1>3, KillFacts
  <1>5. /\ hostSess' = hostSess /\ call' = call /\ buffers' = buffers /\ cached' = cached
        /\ stor_session' = stor_session /\ sess' = sess
    BY <1>4 DEF rpcVars, Killed
  <1>6. /\ lost' \in [InstIds -> Nat] /\ lost'[i] = 0 /\ \A j \in InstIds : j # i => lost'[j] = lost[j]
        /\ counter' \in [InstIds -> Nat]
    BY <1>1, <1>2, <1>3 DEF PanicHere, DeadMemory, TypeInv
  <1>7. /\ DOMAIN ctx' = DOMAIN ctx /\ ctx' \in [DOMAIN ctx' -> SessIds \cup {NoSession}]
        /\ \A r \in DOMAIN ctx : ctx'[r] = IF sess[r].inst = i THEN NoSession ELSE ctx[r]
    <2>1. ctx' = [r \in DOMAIN ctx |-> IF r \in SessionsOn(i) THEN NoSession ELSE ctx[r]]
      BY <1>1, <1>2 DEF PanicHere, DeadContexts
    <2>2. \A r \in DOMAIN ctx : r \in SessionsOn(i) <=> sess[r].inst = i
      BY DEF SessionsOn, ContextInv
    <2> QED
      BY <2>1, <2>2 DEF TypeInv
  <1>8. overwrote' = overwrote
    <2>1. ~\E j \in InstIds : lost'[j] > lost[j]
      BY <1>6 DEF TypeInv
    <2>2. overwrote' = (overwrote \/ \E j \in InstIds : lost'[j] > lost[j]) /\ overwrote \in BOOLEAN
      BY DEF TypeInv
    <2> QED
      BY <2>1, <2>2, Zenon
  <1>9. TypeInv'
    BY <1>4, <1>5, <1>6, <1>7, <1>8 DEF TypeInv, Killed
  <1>10. SessionInv' /\ InstanceInv' /\ OpenerInv'
    BY <1>2, <1>3, <1>4, KillKeepsTee
  <1>11. HostInv'
    BY <1>5 DEF HostInv
  <1>12. \A j \in DOMAIN inst : j \in DOMAIN inst' /\ inst'[j].ta = inst[j].ta /\ (j # i => inst'[j] = inst[j])
    BY <1>4 DEF Killed
  <1>13. ContextInv'
    <2>1. DOMAIN ctx' = {r \in DOMAIN sess' : inst'[sess'[r].inst].ta \in SimsTas}
      BY <1>5, <1>7, <1>12 DEF ContextInv, SessionInv
    <2>2. ASSUME NEW r \in DOMAIN ctx', ctx'[r] # NoSession
          PROVE  /\ sess'[r].by = Host /\ ~inst'[sess'[r].inst].dead
                 /\ ctx'[r] \in DOMAIN sess' /\ sess'[ctx'[r]].by = sess'[r].inst
      <3>1. r \in DOMAIN sess /\ sess[r].inst \in DOMAIN inst /\ ctx'[r] = ctx[r] /\ sess[r].inst # i
        BY <1>7, <2>2 DEF ContextInv, SessionInv
      <3> QED
        BY <1>5, <1>7, <1>12, <2>2, <3>1 DEF ContextInv
    <2> QED
      BY <1>7, <2>1, <2>2 DEF ContextInv
  <1>14. StaticInv'
    BY <1>5, <1>12 DEF StaticInv, SessionInv
  <1>15. CallInv'
    <2>1. \A g \in Hosts : InstOf(g)' = InstOf(g)
      BY <1>5 DEF InstOf
    <2>2. \A j \in DOMAIN inst : inst[j].ta = "rpc_test" => inst'[j] = inst[j]
      BY <1>3, <1>12 DEF SimsTas
    <2>3. ASSUME NEW g \in Hosts PROVE CallOk(g)'
      <3>1. call[g].pc # "idle" => InstOf(g) \in DOMAIN inst
        BY DEF CallInv, CallOk, HostInv, SessionInv, InstOf
      <3> QED
        BY <1>5, <2>1, <2>2, <3>1 DEF CallInv, CallOk
    <2>4. ASSUME NEW j \in InstIds, buffers'[j]
          PROVE  /\ j \in DOMAIN inst' /\ inst'[j].ta = "rpc_test"
                 /\ ~inst'[j].dead => \E g \in Hosts :
                       /\ hostSess'[g] # NoSession /\ InstOf(g)' = j
                       /\ call'[g].sec /\ call'[g].pc \in {"invoke", "close"}
      <3>1. /\ j \in DOMAIN inst /\ inst[j].ta = "rpc_test"
            /\ ~inst[j].dead => \E g \in Hosts :
                       /\ hostSess[g] # NoSession /\ InstOf(g) = j
                       /\ call[g].sec /\ call[g].pc \in {"invoke", "close"}
        BY <1>5, <2>4 DEF CallInv
      <3> QED
        BY <1>5, <1>12, <2>1, <2>2, <3>1
    <2> QED
      BY <2>3, <2>4 DEF CallInv
  <1>16. LostInv'
    <2>1. ASSUME NEW j \in InstIds, lost'[j] # 0
          PROVE  j \in DOMAIN inst' /\ inst'[j].ta \in SimsTas /\ overwrote'
      BY <1>6, <1>8, <1>12, <2>1 DEF LostInv
    <2>2. ASSUME NEW j \in DOMAIN inst', ~inst'[j].dead
          PROVE  Cardinality(LostOn(j)') = lost'[j]
      <3>1. j \in DOMAIN inst /\ j # i /\ ~inst[j].dead /\ j \in InstIds
        BY <1>4, <2>2 DEF Killed, TypeInv
      <3>2. OpenedBy(j)' = OpenedBy(j)
        BY <1>5 DEF OpenedBy
      <3>3. ASSUME NEW y PROVE Keeps(j, y)' <=> Keeps(j, y)
        <4>1. (\E r \in DOMAIN ctx' : r \in DOMAIN sess' /\ sess'[r].inst = j /\ ctx'[r] = y)
                 <=> (\E r \in DOMAIN ctx : r \in DOMAIN sess /\ sess[r].inst = j /\ ctx[r] = y)
          BY <1>5, <1>7, <3>1
        <4> QED
          BY <1>5, <4>1 DEF Keeps
      <3>4. HandlesOf(j)' = HandlesOf(j)
        <4>1. ASSUME NEW y PROVE y \in HandlesOf(j)' <=> y \in HandlesOf(j)
          BY <3>3, HandlesIff, HandlesIffNext
        <4> QED
          BY <4>1 DEF HandlesOf
      <3>5. LostOn(j)' = LostOn(j)
        BY <3>2, <3>4 DEF LostOn
      <3> QED
        BY <1>6, <3>1, <3>5 DEF LostInv
    <2> QED
      BY <2>1, <2>2 DEF LostInv
  <1> QED
    BY <1>9, <1>10, <1>11, <1>13, <1>14, <1>15, <1>16

\* The copies cannot be allocated and the RPC test TA panics.
LEMMA RpcPanicStep ==
    ASSUME NInv, NEW h \in Hosts, call[h].pc = "copy", Kill(InstOf(h)), buffers' = buffers,
           call' = [call EXCEPT ![h] = NoCall],
           UNCHANGED <<simsVars, hostSess, cached, stor_session, overwrote>>
    PROVE  NInv'
  <1> USE DEF NInv
  <1>1. PICK i : i = InstOf(h)
    OBVIOUS
  <1>2. /\ hostSess[h] \in DOMAIN sess /\ i = sess[hostSess[h]].inst
        /\ i \in DOMAIN inst /\ inst[i].ta = "rpc_test" /\ ~inst[i].dead
    BY <1>1 DEF CallInv, CallOk, HostInv, SessionInv, InstOf
  <1>3. Killed(i)
    BY <1>1, <1>2, KillFacts
  <1>4. /\ hostSess' = hostSess /\ buffers' = buffers /\ cached' = cached /\ overwrote' = overwrote
        /\ stor_session' = stor_session /\ sess' = sess /\ ctx' = ctx /\ lost' = lost /\ counter' = counter
    BY <1>3 DEF simsVars, Killed
  <1>5. /\ call' \in [Hosts -> CallRecords] /\ call'[h].pc = "idle" /\ call'[h].sess = NoSession
        /\ \A g \in Hosts : g # h => call'[g] = call[g]
    <2>1. NoCall \in CallRecords /\ NoCall.pc = "idle" /\ NoCall.sess = NoSession
      BY DEF NoCall, CallRecords
    <2> QED
      BY <2>1 DEF TypeInv
  <1>6. TypeInv'
    BY <1>3, <1>4, <1>5 DEF TypeInv, Killed
  <1>7. SessionInv' /\ InstanceInv' /\ OpenerInv'
    BY <1>2, <1>3, KillKeepsTee
  <1>8. HostInv'
    BY <1>4 DEF HostInv
  <1>9. \A j \in DOMAIN inst : j \in DOMAIN inst' /\ inst'[j].ta = inst[j].ta /\ (j # i => inst'[j] = inst[j])
    BY <1>3 DEF Killed
  <1>10. ContextInv'
    <2>1. DOMAIN ctx' = {r \in DOMAIN sess' : inst'[sess'[r].inst].ta \in SimsTas}
      BY <1>4, <1>9 DEF ContextInv, SessionInv
    <2>2. \A r \in DOMAIN ctx : sess[r].inst \in DOMAIN inst /\ sess[r].inst # i
      BY <1>2 DEF ContextInv, SessionInv, SimsTas
    <2> QED
      BY <1>4, <1>9, <2>1, <2>2 DEF ContextInv
  <1>11. StaticInv'
    BY <1>4, <1>9 DEF StaticInv, SessionInv
  <1>12. ASSUME NEW g \in Hosts, hostSess[g] # NoSession, InstOf(g) = i PROVE g = h
    <2>1. hostSess[g] = hostSess[h]
      BY <1>2, <1>12 DEF HostInv, InstanceInv, InstOf, SingleInstance
    <2> QED
      BY <1>12, <2>1 DEF HostInv
  <1>13. CallInv'
    <2>1. \A g \in Hosts : InstOf(g)' = InstOf(g)
      BY <1>4 DEF InstOf
    <2>2. ASSUME NEW g \in Hosts PROVE CallOk(g)'
      <3>1. CASE g = h
        BY <1>5, <3>1 DEF CallOk
      <3>2. CASE g # h
        <4>1. call[g].pc # "idle" => InstOf(g) \in DOMAIN inst /\ InstOf(g) # i
          BY <1>12, <3>2 DEF CallInv, CallOk, HostInv, SessionInv, InstOf
        <4>2. call'[g] = call[g]
          BY <1>5, <3>2
        <4> QED
          BY <1>4, <1>9, <2>1, <4>1, <4>2 DEF CallInv, CallOk
      <3> QED
        BY <3>1, <3>2
    <2>3. ASSUME NEW j \in InstIds, buffers'[j]
          PROVE  /\ j \in DOMAIN inst' /\ inst'[j].ta = "rpc_test"
                 /\ ~inst'[j].dead => \E g \in Hosts :
                       /\ hostSess'[g] # NoSession /\ InstOf(g)' = j
                       /\ call'[g].sec /\ call'[g].pc \in {"invoke", "close"}
      <3>1. /\ j \in DOMAIN inst /\ inst[j].ta = "rpc_test"
            /\ ~inst[j].dead => \E g \in Hosts :
                       /\ hostSess[g] # NoSession /\ InstOf(g) = j
                       /\ call[g].sec /\ call[g].pc \in {"invoke", "close"}
        BY <1>4, <2>3 DEF CallInv
      <3>2. CASE j = i
        BY <1>3, <1>9, <3>1, <3>2 DEF Killed
      <3>3. CASE j # i
        <4>1. inst'[j] = inst[j] /\ j \in DOMAIN inst'
          BY <1>9, <3>1, <3>3
        <4>2. \A g \in Hosts : InstOf(g) = j => g # h
          BY <1>1, <3>3
        <4> QED
          BY <1>4, <1>5, <2>1, <3>1, <4>1, <4>2
      <3> QED
        BY <3>2, <3>3
    <2> QED
      BY <2>2, <2>3 DEF CallInv
  <1>14. LostInv'
    <2>1. ASSUME NEW j \in InstIds, lost'[j] # 0
          PROVE  j \in DOMAIN inst' /\ inst'[j].ta \in SimsTas /\ overwrote'
      BY <1>4, <1>9, <2>1 DEF LostInv
    <2>2. ASSUME NEW j \in DOMAIN inst', ~inst'[j].dead
          PROVE  Cardinality(LostOn(j)') = lost'[j]
      <3>1. j \in DOMAIN inst /\ j # i /\ ~inst[j].dead
        BY <1>3, <2>2 DEF Killed
      <3>2. OpenedBy(j)' = OpenedBy(j)
        BY <1>4 DEF OpenedBy
      <3>3. ASSUME NEW y, y # NoSession PROVE Keeps(j, y)' <=> Keeps(j, y)
        <4>1. \A g \in Hosts : sess[hostSess[g]].inst = j => call'[g] = call[g]
          BY <1>2, <1>5, <3>1
        <4> QED
          BY <1>4, <4>1 DEF Keeps
      <3>4. HandlesOf(j)' = HandlesOf(j)
        <4>1. ASSUME NEW y PROVE y \in HandlesOf(j)' <=> y \in HandlesOf(j)
          BY <3>3, HandlesIff, HandlesIffNext
        <4> QED
          BY <4>1 DEF HandlesOf
      <3>5. LostOn(j)' = LostOn(j)
        BY <3>2, <3>4 DEF LostOn
      <3> QED
        BY <1>4, <3>1, <3>5 DEF LostInv
    <2> QED
      BY <2>1, <2>2 DEF LostInv
  <1> QED
    BY <1>6, <1>7, <1>8, <1>10, <1>11, <1>13, <1>14

\* The parameters are copied, or the nested session is called.
LEMMA RpcGoesOnStep ==
    ASSUME NInv, NEW h \in Hosts, call[h].pc \in {"copy", "invoke"},
           call' = [call EXCEPT ![h].pc = IF call[h].pc = "copy" THEN "invoke" ELSE "close"],
           buffers' = IF call[h].pc = "copy" THEN [buffers EXCEPT ![InstOf(h)] = TRUE] ELSE buffers,
           UNCHANGED <<teeVars, simsVars, hostSess, cached, stor_session, overwrote>>
    PROVE  NInv'
  <1> USE DEF NInv
  <1>1. /\ hostSess' = hostSess /\ cached' = cached /\ overwrote' = overwrote /\ inst' = inst
        /\ stor_session' = stor_session /\ sess' = sess /\ ctx' = ctx /\ lost' = lost /\ counter' = counter
    BY DEF simsVars, teeVars
  <1>2. /\ call' \in [Hosts -> CallRecords] /\ call'[h].pc \in {"invoke", "close"}
        /\ call'[h].sec = call[h].sec /\ \A g \in Hosts : call'[g].sess = call[g].sess
        /\ \A g \in Hosts : g # h => call'[g] = call[g]
    BY DEF TypeInv, CallRecords
  <1>3. /\ hostSess[h] # NoSession /\ InstOf(h) \in DOMAIN inst /\ InstOf(h) \in InstIds
        /\ inst[InstOf(h)].ta = "rpc_test" /\ ~inst[InstOf(h)].dead
        /\ call[h].sess \in DOMAIN sess /\ sess[call[h].sess].by = InstOf(h)
        /\ call[h].pc = "copy" => call[h].sec
    BY DEF CallInv, CallOk, HostInv, SessionInv, InstOf, TypeInv
  <1>4. buffers' \in [InstIds -> BOOLEAN]
    BY <1>3 DEF TypeInv
  <1>5. TypeInv'
    BY <1>1, <1>2, <1>4 DEF TypeInv
  <1>6. SessionInv' /\ HostInv' /\ InstanceInv' /\ OpenerInv' /\ ContextInv' /\ StaticInv'
    BY <1>1 DEF SessionInv, HostInv, InstanceInv, OpenerInv, ContextInv, StaticInv, OpensTas
  <1>7. CallInv'
    <2>1. \A g \in Hosts : InstOf(g)' = InstOf(g)
      BY <1>1 DEF InstOf
    <2>2. ASSUME NEW g \in Hosts PROVE CallOk(g)'
      BY <1>1, <1>2, <1>3, <2>1 DEF CallInv, CallOk
    <2>3. ASSUME NEW j \in InstIds, buffers'[j]
          PROVE  /\ j \in DOMAIN inst' /\ inst'[j].ta = "rpc_test"
                 /\ ~inst'[j].dead => \E g \in Hosts :
                       /\ hostSess'[g] # NoSession /\ InstOf(g)' = j
                       /\ call'[g].sec /\ call'[g].pc \in {"invoke", "close"}
      <3>1. CASE j = InstOf(h) /\ call[h].pc = "copy"
        BY <1>1, <1>2, <1>3, <2>1, <3>1
      <3>2. CASE ~(j = InstOf(h) /\ call[h].pc = "copy")
        <4>1. buffers[j]
          BY <1>3, <2>3, <3>2 DEF TypeInv
        <4>2. /\ j \in DOMAIN inst /\ inst[j].ta = "rpc_test"
              /\ ~inst[j].dead => \E g \in Hosts :
                       /\ hostSess[g] # NoSession /\ InstOf(g) = j
                       /\ call[g].sec /\ call[g].pc \in {"invoke", "close"}
          BY <4>1 DEF CallInv
        <4>3. \A g \in Hosts : call[g].sec /\ call[g].pc \in {"invoke", "close"} =>
                                  call'[g].sec /\ call'[g].pc \in {"invoke", "close"}
          BY <1>2
        <4> QED
          BY <1>1, <2>1, <4>2, <4>3
      <3> QED
        BY <3>1, <3>2
    <2> QED
      BY <2>2, <2>3 DEF CallInv
  <1>8. LostInv'
    <2>1. ASSUME NEW j PROVE LostOn(j)' = LostOn(j)
      <3>1. OpenedBy(j)' = OpenedBy(j)
        BY <1>1 DEF OpenedBy
      <3>2. ASSUME NEW y PROVE Keeps(j, y)' <=> Keeps(j, y)
        BY <1>1, <1>2 DEF Keeps
      <3>3. ASSUME NEW y PROVE y \in HandlesOf(j)' <=> y \in HandlesOf(j)
        BY <3>2, HandlesIff, HandlesIffNext
      <3> QED
        BY <3>1, <3>3 DEF LostOn
    <2> QED
      BY <1>1, <2>1 DEF LostInv
  <1> QED
    BY <1>5, <1>6, <1>7, <1>8

-----------------------------------------------------------------------------
\* The sessions C and the instances G go when the sessions S are closed: what contexts and
\* instances that go had opened goes with them, and nothing else.
ClosedSet(S, C, G) ==
    /\ S \subseteq C /\ C \subseteq DOMAIN sess /\ G \subseteq DOMAIN inst
    /\ \A i \in DOMAIN inst :
          i \in G <=> /\ \A s \in DOMAIN sess : sess[s].inst = i => s \in C
                      /\ inst[i].dead \/ inst[i].ta \notin KeepAlive
    /\ \A x \in DOMAIN sess : sess[x].by \in G => x \in C
    /\ \A r \in DOMAIN ctx : r \in C /\ ctx[r] # NoSession => ctx[r] \in C
    /\ \A x \in C : \/ x \in S
                    \/ \E r \in DOMAIN ctx : r \in C /\ ctx[r] = x
                    \/ sess[x].by \in G

\* A command that has copies of its parameters runs in the instance.
NeedsCopies(g, i) ==
    /\ hostSess[g] # NoSession /\ InstOf(g) = i
    /\ call[g].sec /\ call[g].pc \in {"invoke", "close"}

\* The state after that, and what S may be: sessions of threads, or of which the RPC test
\* TA or the secure data path TA has the handle.
CloseEffect(S, C, G) ==
    /\ ClosedSet(S, C, G)
    /\ \A x \in S : \/ sess[x].by = Host
                    \/ inst[sess[x].by].ta \notin SimsTas \cup {"key"} /\ x \in HandlesOf(sess[x].by)
    /\ DOMAIN sess' = DOMAIN sess \ C /\ \A s \in DOMAIN sess' : sess'[s] = sess[s]
    /\ DOMAIN inst' = DOMAIN inst \ G /\ \A i \in DOMAIN inst' : inst'[i] = inst[i]
    /\ DOMAIN ctx' = DOMAIN ctx \ C /\ \A s \in DOMAIN ctx' : ctx'[s] = ctx[s]
    /\ \A i \in InstIds : lost'[i] = IF i \in G THEN 0 ELSE lost[i]
    /\ \A g \in Hosts :
          \/ hostSess'[g] = hostSess[g] /\ hostSess[g] \notin C
          \/ hostSess'[g] = NoSession /\ hostSess[g] \in C \cup {NoSession}
    /\ \A g \in Hosts :
          \/ call'[g] = call[g] /\ call[g].sess \notin S /\ hostSess'[g] = hostSess[g]
          \/ call'[g].pc = "idle" /\ call'[g].sess = NoSession /\ call[g].sess \in S \cup {NoSession}
    /\ \A i \in InstIds, t \in SdpTargets :
          cached'[i][t] = IF i \in G \/ cached[i][t] \in S THEN NoSession ELSE cached[i][t]
    /\ \A i \in InstIds : stor_session'[i] = IF i \in G THEN NoSession ELSE stor_session[i]
    /\ \A i \in InstIds : buffers'[i] =>
          /\ buffers[i] /\ i \notin G
          /\ \A g \in Hosts : NeedsCopies(g, i) => call'[g] = call[g]
    /\ overwrote' = overwrote
    /\ TypeInv'

\* What stays when sessions are closed is as it was.
LEMMA CloseKeepsTee ==
    ASSUME NInv, NEW S, NEW C, NEW G, CloseEffect(S, C, G)
    PROVE  SessionInv' /\ HostInv' /\ InstanceInv' /\ OpenerInv'
  <1> USE DEF NInv
  <1>0. \A s \in DOMAIN sess : s # NoSession /\ sess[s].inst \in DOMAIN inst
    BY TeeSessionsAssumption DEF TypeInv, NoSession, SessionInv
  <1>1. /\ DOMAIN sess' = DOMAIN sess \ C /\ \A s \in DOMAIN sess' : s \in DOMAIN sess /\ s \notin C /\ sess'[s] = sess[s]
        /\ DOMAIN inst' = DOMAIN inst \ G /\ \A i \in DOMAIN inst' : i \in DOMAIN inst /\ i \notin G /\ inst'[i] = inst[i]
    BY DEF CloseEffect
  <1>2. \A s \in DOMAIN sess' : sess[s].inst \in DOMAIN inst' /\ (sess[s].by # Host => sess[s].by \in DOMAIN inst')
    BY <1>0, <1>1 DEF CloseEffect, ClosedSet, SessionInv
  <1>3. SessionInv'
    BY <1>1, <1>2 DEF SessionInv, OpensTas
  <1>4. HostInv'
    <2>1. \A g \in Hosts : hostSess'[g] # NoSession => hostSess'[g] = hostSess[g] /\ hostSess[g] \notin C
      BY DEF CloseEffect
    <2>2. ASSUME NEW s \in DOMAIN sess', sess'[s].by = Host
          PROVE  \E g \in Hosts : hostSess'[g] = s
      <3>1. PICK g \in Hosts : hostSess[g] = s
        BY <1>1, <2>2 DEF HostInv
      <3>2. hostSess'[g] = s
        BY <1>0, <1>1, <3>1 DEF CloseEffect
      <3> QED
        BY <3>2
    <2> QED
      BY <1>1, <2>1, <2>2 DEF HostInv
  <1>5. InstanceInv'
    <2>1. ASSUME NEW i \in DOMAIN inst', inst'[i].dead \/ inst'[i].ta \notin KeepAlive
          PROVE  \E s \in DOMAIN sess' : sess'[s].inst = i
      <3>1. PICK s \in DOMAIN sess : sess[s].inst = i /\ s \notin C
        BY <1>1, <2>1 DEF CloseEffect, ClosedSet
      <3> QED
        BY <1>1, <3>1
    <2>2. ASSUME NEW s \in DOMAIN sess', NEW r \in DOMAIN sess', sess'[s].inst = sess'[r].inst,
                 inst'[sess'[s].inst].ta \notin SingleInstance
          PROVE  s = r
      BY <1>1, <1>2, <2>2 DEF InstanceInv
    <2> QED
      BY <1>1, <2>1, <2>2 DEF InstanceInv
  <1>6. OpenerInv'
    <2> SUFFICES ASSUME NEW s \in DOMAIN sess', sess'[s].by # Host,
                        inst'[sess'[s].by].ta \notin SingleInstance
                 PROVE  \E r \in DOMAIN sess' : sess'[r].inst = sess'[s].by /\ sess'[r].by = Host
      BY DEF OpenerInv
    <2>1. PICK i \in DOMAIN inst' : i = sess[s].by
      BY <1>1, <1>2
    <2>2. inst[i].ta \notin SingleInstance /\ i \in DOMAIN inst /\ i \notin G /\ s \in DOMAIN sess
      BY <1>1, <2>1
    <2>3. PICK r \in DOMAIN sess : sess[r].inst = i /\ sess[r].by = Host
      BY <1>1, <2>1, <2>2 DEF OpenerInv
    <2>4. r \notin C
      <3> SUFFICES ASSUME r \in C PROVE FALSE
        OBVIOUS
      <3>1. \A q \in DOMAIN sess : sess[q].inst = i => q = r
        BY <2>2, <2>3 DEF InstanceInv
      <3>2. inst[i].ta \notin KeepAlive
        BY <2>2 DEF SingleInstance, KeepAlive
      <3> QED
        BY <2>2, <3>1, <3>2 DEF CloseEffect, ClosedSet
    <2> QED
      BY <1>1, <2>1, <2>3, <2>4
  <1> QED
    BY <1>3, <1>4, <1>5, <1>6

\* The handles that are kept name sessions that stay.
LEMMA CloseKeepsHandles ==
    ASSUME NInv, NEW S, NEW C, NEW G, CloseEffect(S, C, G)
    PROVE  ContextInv' /\ StaticInv' /\ CallInv'
  <1> USE DEF NInv
  <1>0. /\ \A s \in DOMAIN sess : s # NoSession /\ sess[s].inst \in DOMAIN inst
        /\ \A i \in DOMAIN inst : i # Host /\ i \in InstIds
    BY TeeSessionsAssumption DEF TypeInv, NoSession, SessionInv, Host
  <1>1. /\ DOMAIN sess' = DOMAIN sess \ C /\ \A s \in DOMAIN sess' : s \in DOMAIN sess /\ s \notin C /\ sess'[s] = sess[s]
        /\ DOMAIN inst' = DOMAIN inst \ G /\ \A i \in DOMAIN inst' : i \in DOMAIN inst /\ i \notin G /\ inst'[i] = inst[i]
        /\ DOMAIN ctx' = DOMAIN ctx \ C /\ \A s \in DOMAIN ctx' : s \in DOMAIN ctx /\ s \notin C /\ ctx'[s] = ctx[s]
    BY DEF CloseEffect
  <1>2. \A s \in DOMAIN sess' : sess[s].inst \in DOMAIN inst'
    BY <1>0, <1>1 DEF CloseEffect, ClosedSet
  <1>3. \A x \in S : \/ sess[x].by = Host
                     \/ inst[sess[x].by].ta \notin SimsTas \cup {"key"}
    BY DEF CloseEffect
  <1>4. \A x \in C : \/ x \in S
                     \/ \E r \in DOMAIN ctx : r \in C /\ ctx[r] = x
                     \/ sess[x].by \in G
    BY DEF CloseEffect, ClosedSet
  <1>5. \A r \in DOMAIN ctx : ctx[r] # NoSession =>
            sess[ctx[r]].by = sess[r].inst /\ inst[sess[r].inst].ta \in SimsTas /\ r \in DOMAIN sess
    BY DEF ContextInv
  <1>6. ContextInv'
    <2>1. DOMAIN ctx' = {s \in DOMAIN sess' : inst'[sess'[s].inst].ta \in SimsTas}
      BY <1>1, <1>2 DEF ContextInv
    <2>2. ASSUME NEW s \in DOMAIN ctx', ctx'[s] # NoSession
          PROVE  /\ sess'[s].by = Host /\ ~inst'[sess'[s].inst].dead
                 /\ ctx'[s] \in DOMAIN sess' /\ sess'[ctx'[s]].by = sess'[s].inst
      <3>1. PICK x : x = ctx[s]
        OBVIOUS
      <3>2. /\ s \in DOMAIN ctx /\ s \notin C /\ s \in DOMAIN sess /\ x # NoSession /\ ctx'[s] = x
            /\ sess[s].by = Host /\ ~inst[sess[s].inst].dead
            /\ x \in DOMAIN sess /\ sess[x].by = sess[s].inst /\ inst[sess[s].inst].ta \in SimsTas
        BY <1>1, <2>2, <3>1 DEF ContextInv
      <3>3. x \notin C
        <4> SUFFICES ASSUME x \in C PROVE FALSE
          OBVIOUS
        <4>1. CASE x \in S
          BY <1>0, <1>3, <3>2, <4>1
        <4>2. CASE \E r \in DOMAIN ctx : r \in C /\ ctx[r] = x
          BY <3>1, <3>2, <4>2 DEF ContextInv
        <4>3. CASE sess[x].by \in G
          BY <1>0, <3>2, <4>3 DEF CloseEffect, ClosedSet
        <4> QED
          BY <1>4, <4>1, <4>2, <4>3
      <3>4. s \in DOMAIN sess' /\ x \in DOMAIN sess'
        BY <1>1, <3>2, <3>3
      <3> QED
        BY <1>1, <1>2, <3>2, <3>4
    <2> QED
      BY <1>1, <2>1, <2>2 DEF ContextInv
  <1>7. ASSUME NEW i \in DOMAIN inst, inst[i].ta \notin SimsTas, i \notin G,
               NEW x \in DOMAIN sess, x \notin S, sess[x].by = i
        PROVE  x \in DOMAIN sess' /\ sess'[x] = sess[x] /\ i \in DOMAIN inst' /\ inst'[i] = inst[i]
               /\ inst'[sess[x].inst] = inst[sess[x].inst]
    <2>1. x \notin C
      BY <1>0, <1>4, <1>5, <1>7
    <2> QED
      BY <1>1, <1>2, <1>7, <2>1
  <1>8. StaticInv'
    <2>1. ASSUME NEW i \in InstIds, NEW t \in SdpTargets, cached'[i][t] # NoSession
          PROVE  /\ i \in DOMAIN inst' /\ inst'[i].ta = "sdp_basic"
                 /\ cached'[i][t] \in DOMAIN sess'
                 /\ sess'[cached'[i][t]].by = i /\ inst'[sess'[cached'[i][t]].inst].ta = t
      <3>1. PICK x : x = cached[i][t]
        OBVIOUS
      <3>2. cached'[i][t] = x /\ x # NoSession /\ i \notin G /\ x \notin S
        BY <2>1, <3>1 DEF CloseEffect
      <3>3. /\ i \in DOMAIN inst /\ inst[i].ta = "sdp_basic" /\ x \in DOMAIN sess
            /\ sess[x].by = i /\ inst[sess[x].inst].ta = t
        BY <3>1, <3>2 DEF StaticInv
      <3> QED
        BY <1>7, <3>2, <3>3 DEF SimsTas
    <2>2. ASSUME NEW i \in InstIds, stor_session'[i] # NoSession
          PROVE  /\ i \in DOMAIN inst' /\ inst'[i].ta = "key"
                 /\ stor_session'[i] \in DOMAIN sess' /\ sess'[stor_session'[i]].by = i
      <3>1. PICK x : x = stor_session[i]
        OBVIOUS
      <3>2. stor_session'[i] = x /\ x # NoSession /\ i \notin G
        BY <2>2, <3>1 DEF CloseEffect
      <3>3. i \in DOMAIN inst /\ inst[i].ta = "key" /\ x \in DOMAIN sess /\ sess[x].by = i
        BY <3>1, <3>2 DEF StaticInv
      <3>4. x \notin S
        BY <1>0, <1>3, <3>3
      <3> QED
        BY <1>7, <3>2, <3>3, <3>4 DEF SimsTas
    <2> QED
      BY <2>1, <2>2 DEF StaticInv
  <1>9. CallInv'
    <2>1. ASSUME NEW g \in Hosts, hostSess'[g] # NoSession
          PROVE  /\ hostSess'[g] = hostSess[g] /\ hostSess[g] \in DOMAIN sess' /\ InstOf(g)' = InstOf(g)
                 /\ InstOf(g) \in DOMAIN inst' /\ inst'[InstOf(g)] = inst[InstOf(g)]
      <3>1. hostSess'[g] = hostSess[g] /\ hostSess[g] \in DOMAIN sess' /\ sess'[hostSess[g]] = sess[hostSess[g]]
        BY <1>1, <2>1 DEF CloseEffect, HostInv
      <3>2. InstOf(g)' = InstOf(g)
        BY <3>1 DEF InstOf
      <3>3. InstOf(g) \in DOMAIN inst'
        BY <1>2, <3>1 DEF InstOf
      <3> QED
        BY <1>1, <3>1, <3>2, <3>3
    <2>2. ASSUME NEW g \in Hosts PROVE CallOk(g)'
      <3>1. CASE call'[g].pc = "idle"
        <4>1. call'[g] = call[g] => call'[g].sess = NoSession
          BY <3>1 DEF CallInv, CallOk
        <4> QED
          BY <3>1, <4>1 DEF CallOk, CloseEffect
      <3>2. CASE call'[g].pc # "idle"
        <4>1. call'[g] = call[g] /\ call[g].sess \notin S /\ hostSess'[g] = hostSess[g]
          BY <3>2 DEF CloseEffect
        <4>2. /\ hostSess[g] # NoSession
              /\ inst[InstOf(g)].ta = "rpc_test" /\ ~inst[InstOf(g)].dead
              /\ call[g].sess \in DOMAIN sess /\ sess[call[g].sess].by = InstOf(g)
              /\ call[g].pc = "copy" => call[g].sec
          BY <3>2, <4>1 DEF CallInv, CallOk
        <4>3. /\ hostSess[g] \in DOMAIN sess' /\ InstOf(g)' = InstOf(g)
              /\ InstOf(g) \in DOMAIN inst' /\ inst'[InstOf(g)] = inst[InstOf(g)]
          BY <2>1, <4>1, <4>2
        <4>4. call[g].sess \in DOMAIN sess' /\ sess'[call[g].sess] = sess[call[g].sess]
          BY <1>1, <1>7, <4>1, <4>2, <4>3 DEF SimsTas
        <4> QED
          BY <3>2, <4>1, <4>2, <4>3, <4>4 DEF CallOk
      <3> QED
        BY <3>1, <3>2
    <2>3. ASSUME NEW i \in InstIds, buffers'[i]
          PROVE  /\ i \in DOMAIN inst' /\ inst'[i].ta = "rpc_test"
                 /\ ~inst'[i].dead => \E g \in Hosts :
                       /\ hostSess'[g] # NoSession /\ InstOf(g)' = i
                       /\ call'[g].sec /\ call'[g].pc \in {"invoke", "close"}
      <3>1. buffers[i] /\ i \notin G
        BY <2>3 DEF CloseEffect
      <3>2. /\ i \in DOMAIN inst /\ inst[i].ta = "rpc_test"
            /\ ~inst[i].dead => \E g \in Hosts :
                       /\ hostSess[g] # NoSession /\ InstOf(g) = i
                       /\ call[g].sec /\ call[g].pc \in {"invoke", "close"}
        BY <3>1 DEF CallInv
      <3>3. i \in DOMAIN inst' /\ inst'[i] = inst[i]
        BY <1>1, <3>1, <3>2
      <3>4. ASSUME ~inst[i].dead
            PROVE  \E g \in Hosts : /\ hostSess'[g] # NoSession /\ InstOf(g)' = i
                                    /\ call'[g].sec /\ call'[g].pc \in {"invoke", "close"}
        <4>1. PICK g \in Hosts : /\ hostSess[g] # NoSession /\ InstOf(g) = i
                                 /\ call[g].sec /\ call[g].pc \in {"invoke", "close"}
          BY <3>2, <3>4
        <4>2. call'[g] = call[g]
          BY <2>3, <4>1 DEF CloseEffect, NeedsCopies
        <4>3. hostSess'[g] = hostSess[g]
          BY <4>1, <4>2 DEF CloseEffect
        <4>4. InstOf(g)' = i
          BY <2>1, <4>1, <4>3
        <4> QED
          BY <4>1, <4>2, <4>3, <4>4
      <3> QED
        BY <3>2, <3>3, <3>4
    <2> QED
      BY <2>2, <2>3 DEF CallInv
  <1> QED
    BY <1>6, <1>8, <1>9

\* No session of an instance that stays loses its handle, and those without one stay.
LEMMA CloseKeepsLost ==
    ASSUME NInv, NEW S, NEW C, NEW G, CloseEffect(S, C, G)
    PROVE  LostInv'
  <1> USE DEF NInv
  <1>0. /\ \A s \in DOMAIN sess : s # NoSession /\ sess[s].inst \in DOMAIN inst
        /\ \A i \in DOMAIN inst : i # Host /\ i \in InstIds
    BY TeeSessionsAssumption DEF TypeInv, NoSession, SessionInv, Host
  <1>1. /\ DOMAIN sess' = DOMAIN sess \ C /\ \A s \in DOMAIN sess' : s \in DOMAIN sess /\ s \notin C /\ sess'[s] = sess[s]
        /\ DOMAIN inst' = DOMAIN inst \ G /\ \A i \in DOMAIN inst' : i \in DOMAIN inst /\ i \notin G /\ inst'[i] = inst[i]
        /\ DOMAIN ctx' = DOMAIN ctx \ C /\ \A s \in DOMAIN ctx' : s \in DOMAIN ctx /\ s \notin C /\ ctx'[s] = ctx[s]
    BY DEF CloseEffect
  <1>2. S \subseteq C
    BY DEF CloseEffect, ClosedSet
  <1>3. ASSUME NEW j \in DOMAIN inst', NEW y, y # NoSession, Keeps(j, y)'
        PROVE  Keeps(j, y)
    <2>0. j \in DOMAIN inst /\ j \in InstIds
      BY <1>0, <1>1
    <2>1. CASE \E s \in DOMAIN ctx' : s \in DOMAIN sess' /\ sess'[s].inst = j /\ ctx'[s] = y
      BY <1>1, <2>1 DEF Keeps
    <2>2. CASE \E t \in SdpTargets : cached'[j][t] = y
      BY <1>3, <2>0, <2>2 DEF Keeps, CloseEffect
    <2>3. CASE stor_session'[j] = y
      BY <1>3, <2>0, <2>3 DEF Keeps, CloseEffect
    <2>4. CASE \E g \in Hosts : hostSess'[g] \in DOMAIN sess' /\ sess'[hostSess'[g]].inst = j
                                   /\ call'[g].sess = y
      <3>1. PICK g \in Hosts : hostSess'[g] \in DOMAIN sess' /\ sess'[hostSess'[g]].inst = j
                                   /\ call'[g].sess = y
        BY <2>4
      <3>2. call'[g] = call[g] /\ hostSess'[g] = hostSess[g]
        BY <1>3, <3>1 DEF CloseEffect
      <3> QED
        BY <1>1, <3>1, <3>2 DEF Keeps
    <2> QED
      BY <1>3, <2>1, <2>2, <2>3, <2>4 DEF Keeps
  <1>4. ASSUME NEW j \in DOMAIN inst', NEW y \in DOMAIN sess, y \notin C, Keeps(j, y)
        PROVE  Keeps(j, y)'
    <2>0. j \in DOMAIN inst /\ j \in InstIds /\ j \notin G /\ y # NoSession /\ y \notin S
      BY <1>0, <1>1, <1>2, <1>4
    <2>1. CASE \E s \in DOMAIN ctx : s \in DOMAIN sess /\ sess[s].inst = j /\ ctx[s] = y
      <3>1. PICK s \in DOMAIN ctx : s \in DOMAIN sess /\ sess[s].inst = j /\ ctx[s] = y
        BY <2>1
      <3>2. s \notin C
        BY <1>4, <2>0, <3>1 DEF CloseEffect, ClosedSet
      <3>3. s \in DOMAIN ctx' /\ s \in DOMAIN sess'
        BY <1>1, <3>1, <3>2
      <3> QED
        BY <1>1, <3>1, <3>3 DEF Keeps
    <2>2. CASE \E t \in SdpTargets : cached[j][t] = y
      BY <2>0, <2>2 DEF Keeps, CloseEffect
    <2>3. CASE stor_session[j] = y
      BY <2>0, <2>3 DEF Keeps, CloseEffect
    <2>4. CASE \E g \in Hosts : hostSess[g] \in DOMAIN sess /\ sess[hostSess[g]].inst = j
                                   /\ call[g].sess = y
      <3>1. PICK g \in Hosts : hostSess[g] \in DOMAIN sess /\ sess[hostSess[g]].inst = j
                                   /\ call[g].sess = y
        BY <2>4
      <3>2. call'[g] = call[g] /\ hostSess'[g] = hostSess[g]
        BY <2>0, <3>1 DEF CloseEffect
      <3>3. hostSess[g] \notin C
        BY <1>0, <3>1, <3>2 DEF CloseEffect
      <3> QED
        BY <1>1, <3>1, <3>2, <3>3 DEF Keeps
    <2> QED
      BY <1>4, <2>1, <2>2, <2>3, <2>4 DEF Keeps
  <1>5. ASSUME NEW j \in DOMAIN inst', NEW y \in DOMAIN sess, sess[y].by = j, ~Keeps(j, y)
        PROVE  y \notin C
    <2> SUFFICES ASSUME y \in C PROVE FALSE
      OBVIOUS
    <2>0. j \in DOMAIN inst /\ j \notin G /\ j # Host /\ y # NoSession
      BY <1>0, <1>1
    <2>1. CASE y \in S
      BY <1>5, <2>0, <2>1, HandlesIff DEF CloseEffect
    <2>2. CASE \E r \in DOMAIN ctx : r \in C /\ ctx[r] = y
      <3>1. PICK r \in DOMAIN ctx : ctx[r] = y
        BY <2>2
      <3>2. r \in DOMAIN sess /\ sess[r].inst = j
        BY <1>5, <2>0, <3>1 DEF ContextInv
      <3> QED
        BY <1>5, <3>1, <3>2 DEF Keeps
    <2> QED
      BY <1>5, <2>0, <2>1, <2>2 DEF CloseEffect, ClosedSet
  <1>6. ASSUME NEW j \in DOMAIN inst' PROVE LostOn(j)' = LostOn(j)
    <2>1. ASSUME NEW y PROVE y \in LostOn(j)' <=> y \in LostOn(j)
      <3>1. y \in LostOn(j)' <=> y \in DOMAIN sess' /\ sess'[y].by = j /\ ~(y # NoSession /\ Keeps(j, y)')
        BY HandlesIffNext DEF LostOn, OpenedBy
      <3>2. y \in LostOn(j) <=> y \in DOMAIN sess /\ sess[y].by = j /\ ~(y # NoSession /\ Keeps(j, y))
        BY HandlesIff DEF LostOn, OpenedBy
      <3>3. y \in DOMAIN sess' <=> y \in DOMAIN sess /\ y \notin C
        BY <1>1
      <3> QED
        BY <1>0, <1>1, <1>3, <1>4, <1>5, <3>1, <3>2, <3>3
    <2> QED
      BY <2>1 DEF LostOn
  <1>7. ASSUME NEW j \in InstIds, lost'[j] # 0
        PROVE  j \in DOMAIN inst' /\ inst'[j].ta \in SimsTas /\ overwrote'
    <2>1. lost[j] # 0 /\ j \notin G
      BY <1>7 DEF CloseEffect
    <2> QED
      BY <1>1, <2>1 DEF LostInv, CloseEffect
  <1>8. ASSUME NEW j \in DOMAIN inst', ~inst'[j].dead
        PROVE  Cardinality(LostOn(j)') = lost'[j]
    <2>1. j \in DOMAIN inst /\ ~inst[j].dead /\ lost'[j] = lost[j]
      BY <1>0, <1>1, <1>8 DEF CloseEffect
    <2> QED
      BY <1>6, <2>1 DEF LostInv
  <1> QED
    BY <1>7, <1>8 DEF LostInv

\* All of it together.
LEMMA CloseStep ==
    ASSUME NInv, NEW S, NEW C, NEW G, CloseEffect(S, C, G)
    PROVE  NInv'
  <1>1. TypeInv'
    BY DEF CloseEffect
  <1> QED
    BY <1>1, CloseKeepsTee, CloseKeepsHandles, CloseKeepsLost DEF NInv

-----------------------------------------------------------------------------
\* Closing and Gone compute such sets from the handles in the contexts, with or without
\* the one in the variable of the key TA.
LEMMA ClosingCloses ==
    ASSUME NInv, NEW S \in SUBSET DOMAIN sess, NEW held, NEW C, C = Closing(S, held),
           NEW G, G = Gone(C),
           \A r \in DOMAIN sess : HeldByContext(r) \subseteq held[r],
           \A r \in DOMAIN sess : held[r] \subseteq Held(r)
    PROVE  ClosedSet(S, C, G)
  <1> USE DEF NInv
  <1>1. ASSUME NEW r \in DOMAIN sess, NEW x \in held[r]
        PROVE  /\ x \in DOMAIN sess /\ sess[x].by = sess[r].inst
               /\ \/ r \in DOMAIN ctx /\ ctx[r] = x
                  \/ inst[sess[r].inst].ta = "key"
    <2>1. CASE x \in HeldByContext(r)
      BY <2>1 DEF HeldByContext, ContextInv
    <2>2. CASE x = stor_session[sess[r].inst] /\ x # NoSession
      BY <2>2 DEF StaticInv, TypeInv, SessRecords
    <2> QED
      BY <1>1, <2>1, <2>2 DEF Held
  <1>2. HoldsOpen(held)
    BY <1>1 DEF HoldsOpen
  <1>3. S \subseteq C /\ C \subseteq DOMAIN sess /\ Complete(C, held)
    BY <1>2, ClosingComplete
  <1>4. /\ G \subseteq DOMAIN inst
        /\ \A i \in DOMAIN inst :
              i \in G <=> /\ \A s \in DOMAIN sess : sess[s].inst = i => s \in C
                          /\ inst[i].dead \/ inst[i].ta \notin KeepAlive
    BY DEF Gone, SessionsOn
  <1>5. \A x \in DOMAIN sess : sess[x].by \in G => x \in C
    BY <1>3 DEF Complete, OpenedBy
  <1>6. ASSUME NEW r \in DOMAIN ctx, r \in C, ctx[r] # NoSession PROVE ctx[r] \in C
    <2>1. r \in DOMAIN sess /\ ~inst[sess[r].inst].dead
      BY <1>6 DEF ContextInv
    <2>2. ctx[r] \in held[r]
      BY <1>6, <2>1 DEF HeldByContext
    <2> QED
      BY <1>3, <1>6, <2>1, <2>2 DEF Complete
  <1>7. ASSUME NEW x \in C
        PROVE  \/ x \in S
               \/ \E r \in DOMAIN ctx : r \in C /\ ctx[r] = x
               \/ sess[x].by \in G
    <2>1. CASE \E s \in C : x \in held[s]
      <3>1. PICK s \in C : x \in held[s]
        BY <2>1
      <3>2. s \in DOMAIN sess /\ sess[x].by = sess[s].inst
        BY <1>1, <1>3, <3>1
      <3>3. CASE s \in DOMAIN ctx /\ ctx[s] = x
        BY <3>1, <3>3
      <3>4. CASE inst[sess[s].inst].ta = "key"
        <4>1. sess[s].inst \in DOMAIN inst
          BY <3>2 DEF SessionInv
        <4>2. \A q \in DOMAIN sess : sess[q].inst = sess[s].inst => q = s
          BY <3>2, <3>4 DEF InstanceInv, SingleInstance
        <4>3. sess[s].inst \in G
          BY <1>4, <3>1, <3>4, <4>1, <4>2 DEF KeepAlive
        <4> QED
          BY <3>2, <4>3
      <3> QED
        BY <1>1, <3>1, <3>2, <3>3, <3>4
    <2>2. CASE \E i \in Gone(C) : x \in OpenedBy(i)
      BY <2>2 DEF OpenedBy
    <2> QED
      BY <1>2, <2>1, <2>2, ClosingLeast
  <1> QED
    BY <1>3, <1>4, <1>5, <1>6, <1>7 DEF ClosedSet

\* A thread's session is closed by the thread only.
LEMMA OnlyThreadsClose ==
    ASSUME NInv, NEW S, NEW C, NEW G, ClosedSet(S, C, G), NEW x \in C, sess[x].by = Host
    PROVE  x \in S
  <1> USE DEF NInv
  <1>1. \A r \in DOMAIN ctx : ctx[r] # NoSession => sess[ctx[r]].by \in InstIds
    BY DEF ContextInv, TypeInv, SessRecords
  <1>2. Host \notin InstIds /\ Host \notin G /\ x # NoSession
    BY TeeSessionsAssumption DEF ClosedSet, TypeInv, Host, NoSession
  <1> QED
    BY <1>1, <1>2 DEF ClosedSet

\* When no thread closes its session, the instances that go have opened nothing, those
\* that are not shared, and are not of the RPC test TA.
LEMMA InnerGone ==
    ASSUME NInv, NEW S, NEW C, NEW G, ClosedSet(S, C, G), \A x \in S : sess[x].by # Host,
           NEW i \in G, inst[i].ta \notin SingleInstance
    PROVE  /\ \A x \in DOMAIN sess : sess[x].by # i
           /\ \A t \in SdpTargets : cached[i][t] = NoSession
           /\ stor_session[i] = NoSession
           /\ inst[i].ta # "rpc_test"
  <1> USE DEF NInv
  <1>1. \A x \in DOMAIN sess : sess[x].inst = i => x \in C /\ sess[x].by # Host
    BY OnlyThreadsClose DEF ClosedSet
  <1>2. i \in DOMAIN inst /\ i # Host /\ i \in InstIds
    BY TeeSessionsAssumption DEF ClosedSet, TypeInv, Host
  <1>3. \A x \in DOMAIN sess : sess[x].by # i
    BY <1>1, <1>2 DEF OpenerInv
  <1>4. \A t \in SdpTargets : cached[i][t] = NoSession
    BY <1>2, <1>3 DEF StaticInv
  <1>5. stor_session[i] = NoSession
    BY <1>2, <1>3 DEF StaticInv
  <1>6. inst[i].ta # "rpc_test"
    <2> SUFFICES ASSUME inst[i].ta = "rpc_test" PROVE FALSE
      OBVIOUS
    <2>1. PICK s \in DOMAIN sess : sess[s].inst = i
      BY <1>2 DEF InstanceInv, KeepAlive
    <2>2. inst[i].ta \in OpensTas(inst[sess[s].by].ta)
      BY <1>1, <2>1 DEF SessionInv
    <2>3. "rpc_test" \notin Targets /\ "rpc_test" \notin SdpTargets
      BY NestedTasAssumption DEF SimsTas, SdpTargets
    <2> QED
      BY <2>2, <2>3 DEF OpensTas
  <1> QED
    BY <1>3, <1>4, <1>5, <1>6

-----------------------------------------------------------------------------
\* A thread closes its session.
LEMMA CloseSessionStep ==
    ASSUME NInv, NEW h \in Hosts, CloseSession(h)
    PROVE  NInv'
  <1> USE DEF NInv
  <1>1. PICK x : x = hostSess[h]
    OBVIOUS
  <1>2. PICK C : C = Closing({x}, [s \in DOMAIN sess |-> Held(s)])
    OBVIOUS
  <1>3. PICK G : G = Gone(C)
    OBVIOUS
  <1>4. /\ x # NoSession /\ x \in DOMAIN sess /\ sess[x].by = Host /\ call[h].pc = "idle"
        /\ hostSess' = [hostSess EXCEPT ![h] = NoSession]
        /\ inst' = Without(inst, G) /\ sess' = Without(sess, C) /\ ctx' = Without(ctx, C)
        /\ counter' = [i \in InstIds |-> IF i \in G THEN 0 ELSE counter[i]]
        /\ lost' = [i \in InstIds |-> IF i \in G THEN 0 ELSE lost[i]]
        /\ buffers' = [i \in InstIds |-> buffers[i] /\ i \notin G]
        /\ cached' = [i \in InstIds |-> IF i \in G THEN NothingCached ELSE cached[i]]
        /\ stor_session' = [i \in InstIds |-> IF i \in G THEN NoSession ELSE stor_session[i]]
        /\ call' = call /\ overwrote' = overwrote
    BY <1>1, <1>2, <1>3 DEF CloseSession, Close, SimsForget, HostInv
  <1>5. ClosedSet({x}, C, G)
    BY <1>2, <1>3, <1>4, ClosingCloses DEF Held
  <1>6. TypeInv'
    BY <1>4 DEF TypeInv, Without, NothingCached
  <1>7. Host \notin InstIds /\ NoSession \notin DOMAIN sess
    BY TeeSessionsAssumption DEF TypeInv, Host, NoSession
  <1>8. \A g \in Hosts :
          \/ hostSess'[g] = hostSess[g] /\ hostSess[g] \notin C
          \/ hostSess'[g] = NoSession /\ hostSess[g] \in C \cup {NoSession}
    <2> TAKE g \in Hosts
    <2>1. CASE g = h
      BY <1>1, <1>4, <1>5, <2>1 DEF TypeInv, ClosedSet
    <2>2. CASE g # h
      <3>1. hostSess'[g] = hostSess[g]
        BY <1>4, <2>2 DEF TypeInv
      <3>2. hostSess[g] # NoSession => hostSess[g] \notin {x} /\ sess[hostSess[g]].by = Host
        BY <1>1, <2>2 DEF HostInv
      <3>3. hostSess[g] # NoSession => hostSess[g] \notin C
        BY <1>5, <3>2, OnlyThreadsClose
      <3> QED
        BY <3>1, <3>3
    <2> QED
      BY <2>1, <2>2
  <1>9. \A g \in Hosts :
          \/ call'[g] = call[g] /\ call[g].sess \notin {x} /\ hostSess'[g] = hostSess[g]
          \/ call'[g].pc = "idle" /\ call'[g].sess = NoSession /\ call[g].sess \in {x} \cup {NoSession}
    <2> TAKE g \in Hosts
    <2>1. CASE call[g].pc = "idle"
      BY <1>4, <2>1 DEF CallInv, CallOk
    <2>2. CASE call[g].pc # "idle"
      <3>1. hostSess'[g] = hostSess[g]
        BY <1>4, <2>2 DEF TypeInv
      <3>2. /\ sess[call[g].sess].by = InstOf(g) /\ hostSess[g] # NoSession
        BY <2>2 DEF CallInv, CallOk
      <3>3. InstOf(g) \in InstIds
        BY <3>2 DEF HostInv, TypeInv, SessRecords, InstOf
      <3> QED
        BY <1>4, <1>7, <3>1, <3>2, <3>3
    <2> QED
      BY <2>1, <2>2
  <1>10. \A i \in InstIds, t \in SdpTargets :
          cached'[i][t] = IF i \in G \/ cached[i][t] \in {x} THEN NoSession ELSE cached[i][t]
    <2> TAKE i \in InstIds, t \in SdpTargets
    <2>1. cached[i][t] \notin {x}
      BY <1>4, <1>7 DEF StaticInv
    <2> QED
      BY <1>4, <2>1 DEF NothingCached
  <1>11. \A i \in InstIds : stor_session'[i] = IF i \in G THEN NoSession ELSE stor_session[i]
    BY <1>4
  <1>12. \A i \in InstIds : buffers'[i] =>
          /\ buffers[i] /\ i \notin G
          /\ \A g \in Hosts : NeedsCopies(g, i) => call'[g] = call[g]
    BY <1>4
  <1>13. CloseEffect({x}, C, G)
    <2>1. /\ DOMAIN sess' = DOMAIN sess \ C /\ \A s \in DOMAIN sess' : sess'[s] = sess[s]
          /\ DOMAIN inst' = DOMAIN inst \ G /\ \A i \in DOMAIN inst' : inst'[i] = inst[i]
          /\ DOMAIN ctx' = DOMAIN ctx \ C /\ \A s \in DOMAIN ctx' : ctx'[s] = ctx[s]
          /\ \A i \in InstIds : lost'[i] = IF i \in G THEN 0 ELSE lost[i]
      BY <1>4 DEF Without
    <2>2. \A y \in {x} : sess[y].by = Host
      BY <1>4
    <2>3. overwrote' = overwrote
      BY <1>4
    <2> HIDE DEF NInv
    <2> QED
      BY <1>5, <1>6, <1>8, <1>9, <1>10, <1>11, <1>12, <2>1, <2>2, <2>3, Zenon DEF CloseEffect
  <1> HIDE DEF NInv
  <1> QED
    BY <1>13, CloseStep

\* A command of the RPC test TA closes its session and returns.
LEMMA RpcCloseStep ==
    ASSUME NInv, NEW h \in Hosts, RpcClose(h), UNCHANGED <<hostSess, cached, stor_session, overwrote>>
    PROVE  NInv'
  <1> USE DEF NInv
  <1>1. PICK x : x = call[h].sess
    OBVIOUS
  <1>2. PICK C : C = Closing({x}, [s \in DOMAIN sess |-> HeldByContext(s)])
    OBVIOUS
  <1>3. PICK G : G = Gone(C)
    OBVIOUS
  <1>4. PICK b : b = InstOf(h)
    OBVIOUS
  <1>5. /\ inst' = Without(inst, G) /\ sess' = Without(sess, C) /\ ctx' = Without(ctx, C)
        /\ counter' = [i \in InstIds |-> IF i \in G THEN 0 ELSE counter[i]]
        /\ lost' = [i \in InstIds |-> IF i \in G THEN 0 ELSE lost[i]]
        /\ buffers' = IF call[h].sec THEN [buffers EXCEPT ![b] = FALSE] ELSE buffers
        /\ call' = [call EXCEPT ![h] = NoCall]
        /\ hostSess' = hostSess /\ cached' = cached /\ stor_session' = stor_session
        /\ overwrote' = overwrote
    BY <1>1, <1>2, <1>3, <1>4 DEF RpcClose, Close, SimsForget, CopiesLeft
  <1>6. /\ hostSess[h] \in DOMAIN sess /\ sess[hostSess[h]].inst = b /\ hostSess[h] # NoSession
        /\ b \in DOMAIN inst /\ inst[b].ta = "rpc_test" /\ b \in InstIds
        /\ x \in DOMAIN sess /\ sess[x].by = b
    BY <1>1, <1>4 DEF RpcClose, CallInv, CallOk, HostInv, SessionInv, InstOf, TypeInv
  <1>7. Host \notin InstIds /\ NoSession \notin DOMAIN sess /\ NoSession \notin SessIds
    BY TeeSessionsAssumption DEF TypeInv, Host, NoSession
  <1>8. ClosedSet({x}, C, G)
    BY <1>2, <1>3, <1>6, ClosingCloses DEF Held
  <1>9. \A y \in {x} : sess[y].by # Host
    BY <1>6, <1>7
  <1>10. \A g \in Hosts : hostSess[g] \notin C
    <2> TAKE g \in Hosts
    <2>1. CASE hostSess[g] = NoSession
      BY <1>7, <1>8, <2>1 DEF ClosedSet
    <2>2. CASE hostSess[g] # NoSession
      BY <1>8, <1>9, <2>2, OnlyThreadsClose DEF HostInv
    <2> QED
      BY <2>1, <2>2
  <1>11. /\ NoCall \in CallRecords /\ call' \in [Hosts -> CallRecords]
         /\ call'[h].pc = "idle" /\ call'[h].sess = NoSession
         /\ \A g \in Hosts : g # h => call'[g] = call[g]
    <2>1. NoCall \in CallRecords /\ NoCall.pc = "idle" /\ NoCall.sess = NoSession
      BY DEF NoCall, CallRecords
    <2> QED
      BY <1>5, <2>1 DEF TypeInv
  <1>12. TypeInv'
    <2>1. buffers' \in [InstIds -> BOOLEAN]
      BY <1>5, <1>6 DEF TypeInv
    <2> QED
      BY <1>5, <1>11, <2>1 DEF TypeInv, Without
  <1>13. \A g \in Hosts :
          \/ call'[g] = call[g] /\ call[g].sess \notin {x} /\ hostSess'[g] = hostSess[g]
          \/ call'[g].pc = "idle" /\ call'[g].sess = NoSession /\ call[g].sess \in {x} \cup {NoSession}
    <2> TAKE g \in Hosts
    <2>1. CASE g = h
      BY <1>1, <1>11, <2>1
    <2>2. CASE g # h
      <3> SUFFICES ASSUME call[g].sess = x PROVE FALSE
        BY <1>5, <1>11, <2>2
      <3>1. hostSess[g] # NoSession /\ InstOf(g) = b
        BY <1>6, <1>7 DEF CallInv, CallOk
      <3>2. hostSess[g] \in DOMAIN sess /\ sess[hostSess[g]].inst = b
        BY <3>1 DEF HostInv, InstOf
      <3>3. hostSess[g] = hostSess[h]
        BY <1>6, <3>2 DEF InstanceInv, SingleInstance
      <3> QED
        BY <1>6, <2>2, <3>3 DEF HostInv
    <2> QED
      BY <2>1, <2>2
  <1>14. ASSUME NEW i \in InstIds, i \in G
         PROVE  /\ \A t \in SdpTargets : cached[i][t] = NoSession
                /\ stor_session[i] = NoSession
                /\ inst[i].ta # "rpc_test"
    <2>1. CASE inst[i].ta \in SingleInstance
      BY <2>1 DEF StaticInv, SingleInstance
    <2>2. CASE inst[i].ta \notin SingleInstance
      BY <1>8, <1>9, <1>14, <2>2, InnerGone
    <2> QED
      BY <2>1, <2>2
  <1>15. \A i \in InstIds, t \in SdpTargets :
          cached'[i][t] = IF i \in G \/ cached[i][t] \in {x} THEN NoSession ELSE cached[i][t]
    <2> TAKE i \in InstIds, t \in SdpTargets
    <2>1. cached[i][t] \notin {x}
      BY <1>6, <1>7 DEF StaticInv
    <2> QED
      BY <1>5, <1>14, <2>1
  <1>16. \A i \in InstIds : stor_session'[i] = IF i \in G THEN NoSession ELSE stor_session[i]
    BY <1>5, <1>14
  <1>17. ASSUME NEW i \in InstIds, buffers'[i]
         PROVE  /\ buffers[i] /\ i \notin G
                /\ \A g \in Hosts : NeedsCopies(g, i) => call'[g] = call[g]
    <2>1. buffers[i] /\ (call[h].sec => i # b)
      BY <1>5, <1>6, <1>17 DEF TypeInv
    <2>2. i \notin G
      BY <1>14, <2>1 DEF CallInv
    <2> QED
      BY <1>4, <1>11, <2>1, <2>2 DEF NeedsCopies
  <1>18. \A y \in {x} : inst[sess[y].by].ta \notin SimsTas \cup {"key"} /\ y \in HandlesOf(sess[y].by)
    <2>1. Keeps(b, x)
      BY <1>1, <1>6 DEF Keeps
    <2> QED
      BY <1>6, <1>7, <2>1, HandlesIff DEF SimsTas
  <1>19. CloseEffect({x}, C, G)
    <2>1. /\ DOMAIN sess' = DOMAIN sess \ C /\ \A s \in DOMAIN sess' : sess'[s] = sess[s]
          /\ DOMAIN inst' = DOMAIN inst \ G /\ \A i \in DOMAIN inst' : inst'[i] = inst[i]
          /\ DOMAIN ctx' = DOMAIN ctx \ C /\ \A s \in DOMAIN ctx' : ctx'[s] = ctx[s]
          /\ \A i \in InstIds : lost'[i] = IF i \in G THEN 0 ELSE lost[i]
      BY <1>5 DEF Without
    <2>2. \A g \in Hosts : hostSess'[g] = hostSess[g] /\ hostSess[g] \notin C
      BY <1>5, <1>10
    <2>3. overwrote' = overwrote
      BY <1>5
    <2> HIDE DEF NInv
    <2> QED
      BY <1>8, <1>12, <1>13, <1>15, <1>16, <1>17, <1>18, <2>1, <2>2, <2>3, Zenon DEF CloseEffect
  <1> HIDE DEF NInv
  <1> QED
    BY <1>19, CloseStep

\* What SdpDrop does, of the session x of the instance b.
SdpDrops(h, t, b, x) ==
    /\ b = sess[hostSess[h]].inst /\ Runs(hostSess[h], {"sdp_basic"})
    /\ x = cached[b][t] /\ x # NoSession
    /\ inst' = Without(inst, {sess[x].inst}) /\ sess' = Without(sess, {x})
    /\ cached' = [cached EXCEPT ![b][t] = NoSession]
    /\ UNCHANGED <<simsVars, hostSess, rpcVars, stor_session, overwrote>>

\* The command of the secure data path TA fails and closes the session: that is what
\* closing it takes, because what it was with has opened nothing.
LEMMA SdpDropStep ==
    ASSUME NInv, NEW h \in Hosts, NEW t \in SdpTargets, NEW b, NEW x, SdpDrops(h, t, b, x)
    PROVE  NInv'
  <1> USE DEF NInv
  <1>1. PICK k : k = sess[x].inst
    OBVIOUS
  <1>2. /\ inst' = Without(inst, {k}) /\ sess' = Without(sess, {x})
        /\ cached' = [cached EXCEPT ![b][t] = NoSession]
        /\ ctx' = ctx /\ counter' = counter /\ lost' = lost /\ call' = call /\ buffers' = buffers
        /\ hostSess' = hostSess /\ stor_session' = stor_session /\ overwrote' = overwrote
    BY <1>1 DEF SdpDrops, simsVars, rpcVars
  <1>3. b \in DOMAIN inst /\ b \in InstIds
    BY DEF SdpDrops, Runs, SessionInv, TypeInv
  <1>4. /\ x \in DOMAIN sess /\ sess[x].by = b /\ inst[b].ta = "sdp_basic" /\ x = cached[b][t]
        /\ k \in DOMAIN inst /\ inst[k].ta = t
    <2>1. x = cached[b][t] /\ x # NoSession
      BY DEF SdpDrops
    <2>2. /\ x \in DOMAIN sess /\ sess[x].by = b /\ inst[b].ta = "sdp_basic" /\ inst[k].ta = t
      BY <1>1, <1>3, <2>1 DEF StaticInv
    <2> QED
      BY <1>1, <2>1, <2>2 DEF SessionInv
  <1>5. Host \notin InstIds /\ NoSession \notin DOMAIN sess /\ b # Host
    BY <1>3, TeeSessionsAssumption DEF TypeInv, Host, NoSession
  <1>6. t \notin SimsTas /\ t \notin SingleInstance /\ t # "rpc_test" /\ t # "key"
    BY DEF SdpTargets, SimsTas, SingleInstance
  <1>7. \A r \in DOMAIN sess : sess[r].inst = k => r = x
    BY <1>1, <1>4, <1>6 DEF InstanceInv
  <1>8. \A r \in DOMAIN sess : sess[r].by # k
    BY <1>4, <1>5, <1>6, <1>7 DEF OpenerInv, TypeInv
  <1>9. ClosedSet({x}, {x}, {k})
    <2>1. \A i \in DOMAIN inst :
            i \in {k} <=> /\ \A s \in DOMAIN sess : sess[s].inst = i => s \in {x}
                          /\ inst[i].dead \/ inst[i].ta \notin KeepAlive
      BY <1>1, <1>4, <1>6, <1>7 DEF InstanceInv, KeepAlive, SingleInstance
    <2>2. \A r \in DOMAIN ctx : r # x
      BY <1>1, <1>4, <1>6 DEF ContextInv
    <2> QED
      BY <1>4, <1>8, <2>1, <2>2 DEF ClosedSet
  <1>10. TypeInv'
    BY <1>2, <1>3 DEF TypeInv, Without
  <1>11. \A g \in Hosts : hostSess[g] # x
    BY <1>4, <1>5 DEF HostInv
  <1>12. \A g \in Hosts : call[g].sess # x
    <2> TAKE g \in Hosts
    <2> SUFFICES ASSUME call[g].sess = x PROVE FALSE
      OBVIOUS
    <2>1. sess[x].by = InstOf(g) /\ inst[InstOf(g)].ta = "rpc_test"
      BY <1>4, <1>5 DEF CallInv, CallOk
    <2> QED
      BY <1>4, <2>1
  <1>13. \A i \in InstIds, u \in SdpTargets :
          cached'[i][u] = IF i \in {k} \/ cached[i][u] \in {x} THEN NoSession ELSE cached[i][u]
    <2> TAKE i \in InstIds, u \in SdpTargets
    <2>1. i = k => cached[i][u] = NoSession
      BY <1>8 DEF StaticInv
    <2>2. cached[i][u] = x => i = b /\ u = t
      BY <1>1, <1>4, <1>5 DEF StaticInv
    <2>3. cached'[i][u] = IF i = b /\ u = t THEN NoSession ELSE cached[i][u]
      BY <1>2, <1>3 DEF TypeInv
    <2> QED
      BY <1>4, <2>1, <2>2, <2>3
  <1>14. \A i \in InstIds : stor_session'[i] = IF i \in {k} THEN NoSession ELSE stor_session[i]
    BY <1>2, <1>8 DEF StaticInv
  <1>15. \A i \in InstIds : lost'[i] = IF i \in {k} THEN 0 ELSE lost[i]
    BY <1>2, <1>4, <1>6 DEF LostInv
  <1>16. \A i \in InstIds : buffers'[i] => buffers[i] /\ i \notin {k}
    BY <1>2, <1>4, <1>6 DEF CallInv
  <1>17. \A y \in {x} : inst[sess[y].by].ta \notin SimsTas \cup {"key"} /\ y \in HandlesOf(sess[y].by)
    <2>1. Keeps(b, x)
      BY <1>4 DEF Keeps
    <2> QED
      BY <1>4, <1>5, <2>1, HandlesIff DEF SimsTas
  <1>18. CloseEffect({x}, {x}, {k})
    <2>1. /\ DOMAIN sess' = DOMAIN sess \ {x} /\ \A s \in DOMAIN sess' : sess'[s] = sess[s]
          /\ DOMAIN inst' = DOMAIN inst \ {k} /\ \A i \in DOMAIN inst' : inst'[i] = inst[i]
      BY <1>2 DEF Without
    <2>2. DOMAIN ctx' = DOMAIN ctx \ {x} /\ \A s \in DOMAIN ctx' : ctx'[s] = ctx[s]
      BY <1>1, <1>2, <1>4, <1>6 DEF ContextInv
    <2>3. \A g \in Hosts : hostSess'[g] = hostSess[g] /\ hostSess[g] \notin {x}
      BY <1>2, <1>11
    <2>4. \A g \in Hosts : call'[g] = call[g] /\ call[g].sess \notin {x}
      BY <1>2, <1>12
    <2>5. overwrote' = overwrote
      BY <1>2
    <2>6. \A i \in InstIds : buffers'[i] =>
            /\ buffers[i] /\ i \notin {k}
            /\ \A g \in Hosts : NeedsCopies(g, i) => call'[g] = call[g]
      BY <1>16, <2>4
    <2>7. \A g \in Hosts : call'[g] = call[g] /\ call[g].sess \notin {x} /\ hostSess'[g] = hostSess[g]
      BY <2>3, <2>4
    <2> HIDE DEF NInv
    <2> QED
      BY <1>9, <1>10, <1>13, <1>14, <1>15, <1>17, <2>1, <2>2, <2>3, <2>5, <2>6, <2>7, Zenon
         DEF CloseEffect
  <1> HIDE DEF NInv
  <1> QED
    BY <1>18, CloseStep

-----------------------------------------------------------------------------
\* At first there is nothing.
LEMMA NestedInit == Init => NInv
  <1> SUFFICES ASSUME Init PROVE NInv
    OBVIOUS
  <1>1. /\ DOMAIN inst = {} /\ DOMAIN sess = {} /\ DOMAIN ctx = {}
        /\ inst = << >> /\ sess = << >> /\ ctx = << >>
        /\ counter = [i \in InstIds |-> 0] /\ lost = [i \in InstIds |-> 0]
        /\ hostSess = [h \in Hosts |-> NoSession] /\ call = [h \in Hosts |-> NoCall]
        /\ buffers = [i \in InstIds |-> FALSE] /\ cached = [i \in InstIds |-> NothingCached]
        /\ stor_session = [i \in InstIds |-> NoSession] /\ overwrote = FALSE
    BY DEF Init, TeeInit, SimsInit, RpcInit, SdpInit
  <1>2. NoCall \in CallRecords /\ NoCall.pc = "idle" /\ NoCall.sess = NoSession
    BY DEF NoCall, CallRecords
  <1>3. TypeInv
    <2>1. << >> = [x \in {} |-> 0]
      OBVIOUS
    <2>2. \A S : [x \in {} |-> 0] \in [{} -> S]
      OBVIOUS
    <2>3. /\ inst \in [DOMAIN inst -> InstRecords] /\ sess \in [DOMAIN sess -> SessRecords]
          /\ ctx \in [DOMAIN ctx -> SessIds \cup {NoSession}]
      BY <1>1, <2>1, <2>2
    <2>4. /\ counter \in [InstIds -> Nat] /\ lost \in [InstIds -> Nat]
          /\ hostSess \in [Hosts -> SessIds \cup {NoSession}] /\ call \in [Hosts -> CallRecords]
          /\ buffers \in [InstIds -> BOOLEAN] /\ overwrote \in BOOLEAN
          /\ cached \in [InstIds -> [SdpTargets -> SessIds \cup {NoSession}]]
          /\ stor_session \in [InstIds -> SessIds \cup {NoSession}]
      BY <1>1, <1>2 DEF NothingCached
    <2> QED
      BY <1>1, <2>3, <2>4 DEF TypeInv
  <1>4. SessionInv /\ HostInv /\ InstanceInv /\ OpenerInv /\ ContextInv
    BY <1>1 DEF SessionInv, HostInv, InstanceInv, OpenerInv, ContextInv
  <1>5. StaticInv
    BY <1>1 DEF StaticInv, NothingCached
  <1>6. CallInv
    BY <1>1, <1>2 DEF CallInv, CallOk
  <1>7. LostInv
    BY <1>1 DEF LostInv
  <1> QED
    BY <1>3, <1>4, <1>5, <1>6, <1>7 DEF NInv

\* A step that changes nothing keeps the invariant.
LEMMA NestedStutter ==
    ASSUME NInv, UNCHANGED vars
    PROVE  NInv'
  <1> USE DEF NInv
  <1>1. /\ inst' = inst /\ sess' = sess /\ counter' = counter /\ ctx' = ctx /\ lost' = lost
        /\ call' = call /\ buffers' = buffers /\ hostSess' = hostSess /\ cached' = cached
        /\ stor_session' = stor_session /\ overwrote' = overwrote
    BY DEF vars, teeVars, simsVars, rpcVars
  <1>2. TypeInv' /\ SessionInv' /\ HostInv' /\ InstanceInv'
    BY <1>1 DEF TypeInv, SessionInv, HostInv, InstanceInv, OpensTas
  <1>3. OpenerInv' /\ ContextInv' /\ StaticInv'
    BY <1>1 DEF OpenerInv, ContextInv, StaticInv
  <1>4. CallInv'
    BY <1>1 DEF CallInv, CallOk, InstOf
  <1>5. \A i : LostOn(i)' = LostOn(i)
    BY <1>1 DEF LostOn, OpenedBy, HandlesOf, SessionsOn
  <1>6. LostInv'
    BY <1>1, <1>5 DEF LostInv
  <1> QED
    BY <1>2, <1>3, <1>4, <1>6

\* The commands of sims keep the invariant.
LEMMA SimsCommandStep ==
    ASSUME NInv, NEW h \in Hosts, SimsCommand(h)
    PROVE  NInv'
  <1>1. /\ overwrote' = (overwrote \/ \E i \in InstIds : lost'[i] > lost[i])
        /\ UNCHANGED <<hostSess, rpcVars, cached, stor_session>>
    BY DEF SimsCommand
  <1>2. CASE \E ta \in Targets : sims_open_ta_session(hostSess[h], ta)
    <2>1. PICK ta \in Targets : sims_open_ta_session(hostSess[h], ta)
      BY <1>2
    <2>2. PICK s : s = hostSess[h]
      OBVIOUS
    <2>3. PICK d \in BOOLEAN : ~d
      OBVIOUS
    <2>4. IF d THEN PanicThere(s, ta) ELSE sims_open_ta_session(s, ta)
      BY <2>1, <2>2, <2>3
    <2>5. NestEffect(s, ta, NewHandle, TargetOf(ta), sess[s].inst, d)
      BY <1>1, <2>2, <2>4, NestFacts
    <2> QED
      BY <2>5, NestStep
  <1>3. CASE PanicHere(hostSess[h])
    BY <1>1, <1>3, PanicHereStep
  <1>4. CASE \E ta \in Targets : PanicThere(hostSess[h], ta)
    <2>1. PICK ta \in Targets : PanicThere(hostSess[h], ta)
      BY <1>4
    <2>2. PICK s : s = hostSess[h]
      OBVIOUS
    <2>3. PICK d \in BOOLEAN : d
      OBVIOUS
    <2>4. IF d THEN PanicThere(s, ta) ELSE sims_open_ta_session(s, ta)
      BY <2>1, <2>2, <2>3
    <2>5. NestEffect(s, ta, NewHandle, TargetOf(ta), sess[s].inst, d)
      BY <1>1, <2>2, <2>4, NestFacts
    <2> QED
      BY <2>5, NestStep
  <1> QED
    BY <1>2, <1>3, <1>4 DEF SimsCommand

\* The steps of a command of the RPC test TA keep the invariant.
LEMMA RpcStepsKeep ==
    ASSUME NInv, NEW h \in Hosts, RpcGoesOn(h)
    PROVE  NInv'
  <1>1. UNCHANGED <<hostSess, cached, stor_session, overwrote>>
    BY DEF RpcGoesOn
  <1>2. CASE RpcCopy(h)
    <2>1. call[h].pc = "copy" /\ UNCHANGED simsVars
      BY <1>2 DEF RpcCopy
    <2>2. CASE /\ buffers' = [buffers EXCEPT ![InstOf(h)] = TRUE]
               /\ call' = [call EXCEPT ![h].pc = "invoke"]
               /\ UNCHANGED teeVars
      <3>1. /\ call' = [call EXCEPT ![h].pc = IF call[h].pc = "copy" THEN "invoke" ELSE "close"]
            /\ buffers' = IF call[h].pc = "copy" THEN [buffers EXCEPT ![InstOf(h)] = TRUE] ELSE buffers
            /\ call[h].pc \in {"copy", "invoke"}
        BY <2>1, <2>2
      <3>2. UNCHANGED <<teeVars, simsVars, hostSess, cached, stor_session, overwrote>>
        BY <1>1, <2>1, <2>2
      <3> QED
        BY <3>1, <3>2, RpcGoesOnStep
    <2>3. CASE /\ Kill(InstOf(h)) /\ UNCHANGED buffers
               /\ call' = [call EXCEPT ![h] = NoCall]
      <3>1. UNCHANGED <<simsVars, hostSess, cached, stor_session, overwrote>>
        BY <1>1, <2>1
      <3> QED
        BY <2>1, <2>3, <3>1, RpcPanicStep
    <2> QED
      BY <1>2, <2>2, <2>3 DEF RpcCopy
  <1>3. CASE RpcInvoke(h)
    <2>1. /\ call[h].pc = "invoke" /\ call' = [call EXCEPT ![h].pc = "close"]
          /\ UNCHANGED <<teeVars, simsVars, buffers>>
      BY <1>3 DEF RpcInvoke
    <2>2. /\ call' = [call EXCEPT ![h].pc = IF call[h].pc = "copy" THEN "invoke" ELSE "close"]
          /\ buffers' = IF call[h].pc = "copy" THEN [buffers EXCEPT ![InstOf(h)] = TRUE] ELSE buffers
          /\ call[h].pc \in {"copy", "invoke"}
      BY <2>1
    <2>3. UNCHANGED <<teeVars, simsVars, hostSess, cached, stor_session, overwrote>>
      BY <1>1, <2>1
    <2> QED
      BY <2>2, <2>3, RpcGoesOnStep
  <1>4. CASE RpcClose(h)
    BY <1>1, <1>4, RpcCloseStep
  <1> QED
    BY <1>2, <1>3, <1>4 DEF RpcGoesOn, RpcStep

\* The commands of the secure data path TA keep the invariant.
LEMMA SdpCommandStep ==
    ASSUME NInv, NEW h \in Hosts, SdpCommand(h)
    PROVE  NInv'
  <1>1. PICK t \in SdpTargets : cmd_invoke(hostSess[h], t)
    BY DEF SdpCommand
  <1>2. PICK b : b = sess[hostSess[h]].inst
    OBVIOUS
  <1>3. PICK x : x = cached[b][t]
    OBVIOUS
  <1>4. /\ Runs(hostSess[h], {"sdp_basic"})
        /\ SdpCall(b, t) \/ SdpDrop(b, t)
        /\ UNCHANGED <<simsVars, hostSess, rpcVars, stor_session, overwrote>>
    BY <1>1, <1>2 DEF SdpCommand, cmd_invoke
  <1>5. CASE SdpCall(b, t) /\ cached[b][t] # NoSession
    <2>1. UNCHANGED vars
      BY <1>4, <1>5 DEF SdpCall, vars
    <2> QED
      BY <2>1, NestedStutter
  <1>6. CASE SdpCall(b, t) /\ cached[b][t] = NoSession
    <2>1. SdpOpens(h, t, b)
      BY <1>1, <1>2, <1>4, <1>6 DEF SdpCall, SdpOpens, cmd_invoke
    <2> QED
      BY <2>1, SdpOpenStep
  <1>7. CASE SdpDrop(b, t)
    <2>1. SdpDrops(h, t, b, x)
      BY <1>1, <1>2, <1>3, <1>4, <1>7 DEF SdpDrop, SdpDrops, Close, cmd_invoke
    <2> QED
      BY <2>1, SdpDropStep
  <1> QED
    BY <1>4, <1>5, <1>6, <1>7

\* Every step keeps the invariant.
LEMMA NestedStep ==
    ASSUME NInv, [Next]_vars
    PROVE  NInv'
  <1>1. CASE UNCHANGED vars
    BY <1>1, NestedStutter
  <1>2. CASE Next
    <2>1. PICK h \in Hosts :
            \/ \E ta \in Uses[h] : OpenSession(h, ta)
            \/ OpenKeySession(h)
            \/ CloseSession(h)
            \/ SimsCommand(h)
            \/ RpcCommand(h)
            \/ RpcGoesOn(h)
            \/ SdpCommand(h)
      BY <1>2 DEF Next
    <2>2. CASE \E ta \in Uses[h] : OpenSession(h, ta)
      BY <2>2, OpenSessionStep
    <2>3. CASE OpenKeySession(h)
      BY <2>3, KeyFacts, OpenKeySessionStep
    <2>4. CASE CloseSession(h)
      BY <2>4, CloseSessionStep
    <2>5. CASE SimsCommand(h)
      BY <2>5, SimsCommandStep
    <2>6. CASE RpcCommand(h)
      BY <2>6, RpcOpenStep DEF RpcCommand
    <2>7. CASE RpcGoesOn(h)
      BY <2>7, RpcStepsKeep
    <2>8. CASE SdpCommand(h)
      BY <2>8, SdpCommandStep
    <2> QED
      BY <2>1, <2>2, <2>3, <2>4, <2>5, <2>6, <2>7, <2>8
  <1> QED
    BY <1>1, <1>2

\* What threads, sessions, instances and the variables of the TAs are to each other holds
\* whatever threads open, close and make panic, in any number.
THEOREM NestedInvariant == Spec => []NInv
  <1>1. Init => NInv
    BY NestedInit
  <1>2. NInv /\ [Next]_vars => NInv'
    BY NestedStep
  <1> QED
    BY <1>1, <1>2, PTL DEF Spec

-----------------------------------------------------------------------------
\* A live instance keeps handles of its open sessions only.
LEMMA HandlesAreOpen ==
    ASSUME NInv, NEW i \in DOMAIN inst, ~inst[i].dead
    PROVE  HandlesOf(i) \subseteq OpenedBy(i)
  <1> USE DEF NInv
  <1> SUFFICES ASSUME NEW x, x # NoSession, Keeps(i, x) PROVE x \in OpenedBy(i)
    BY HandlesIff
  <1>0. i \in InstIds
    BY DEF TypeInv
  <1>1. CASE \E s \in DOMAIN ctx : s \in DOMAIN sess /\ sess[s].inst = i /\ ctx[s] = x
    BY <1>1 DEF ContextInv, OpenedBy
  <1>2. CASE \E t \in SdpTargets : cached[i][t] = x
    BY <1>0, <1>2 DEF StaticInv, OpenedBy
  <1>3. CASE stor_session[i] = x
    BY <1>0, <1>3 DEF StaticInv, OpenedBy
  <1>4. CASE \E h \in Hosts : hostSess[h] \in DOMAIN sess /\ sess[hostSess[h]].inst = i /\ call[h].sess = x
    BY <1>4 DEF CallInv, CallOk, InstOf, OpenedBy
  <1> QED
    BY <1>1, <1>2, <1>3, <1>4 DEF Keeps

\* What the invariant says of the nested sessions of a live instance.
LEMMA AccountedFromInvariant == NInv => NestedSessionsAccounted
  <1> SUFFICES ASSUME NInv, NEW i \in DOMAIN inst, Alive(i)
               PROVE  /\ HandlesOf(i) \subseteq OpenedBy(i)
                      /\ Cardinality(OpenedBy(i)) = Cardinality(HandlesOf(i)) + lost[i]
                      /\ buffers[i] => \E h \in Hosts : /\ hostSess[h] \in SessionsOn(i)
                                                        /\ call[h].sec /\ call[h].pc \in {"invoke", "close"}
    BY DEF NestedSessionsAccounted
  <1>1. ~inst[i].dead /\ HandlesOf(i) \subseteq OpenedBy(i)
    BY HandlesAreOpen DEF Alive
  <1>2. Cardinality(OpenedBy(i)) = Cardinality(HandlesOf(i)) + lost[i]
    <2>1. IsFiniteSet(OpenedBy(i))
      <3>1. OpenedBy(i) \subseteq SessIds
        BY DEF OpenedBy, NInv, TypeInv
      <3> QED
        BY <3>1, FS_Subset, TeeSessionsAssumption
    <2>2. IsFiniteSet(HandlesOf(i)) /\ Cardinality(HandlesOf(i)) \in Nat /\ Cardinality(OpenedBy(i)) \in Nat
      BY <1>1, <2>1, FS_Subset, FS_CardinalityType
    <2>3. /\ IsFiniteSet(OpenedBy(i) \ HandlesOf(i))
          /\ Cardinality(OpenedBy(i) \ HandlesOf(i))
                = Cardinality(OpenedBy(i)) - Cardinality(OpenedBy(i) \cap HandlesOf(i))
      BY <2>1, FS_Difference
    <2>4. OpenedBy(i) \cap HandlesOf(i) = HandlesOf(i)
      BY <1>1
    <2>5. Cardinality(OpenedBy(i) \ HandlesOf(i)) = lost[i]
      BY <1>1 DEF NInv, LostInv, LostOn
    <2> QED
      BY <2>2, <2>3, <2>4, <2>5
  <1>3. ASSUME buffers[i]
        PROVE  \E h \in Hosts : /\ hostSess[h] \in SessionsOn(i)
                                /\ call[h].sec /\ call[h].pc \in {"invoke", "close"}
    BY <1>1, <1>3 DEF NInv, TypeInv, CallInv, HostInv, SessionsOn, InstOf
  <1> QED
    BY <1>1, <1>2, <1>3

\* In every behaviour the handles of nested sessions that the code of a live instance
\* keeps name its open sessions, it has no others but the overwritten ones, and copies of
\* parameters exist only while a command needs them.
THEOREM NestedAccounted == Spec => []NestedSessionsAccounted
  BY NestedInvariant, AccountedFromInvariant, PTL

-----------------------------------------------------------------------------
\* When no client has a session and no handle was overwritten, who opened a session that
\* is left is dead, and is a single instance.
LEMMA LeftByTheDead ==
    ASSUME NInv, \A h \in Hosts : hostSess[h] = NoSession, ~overwrote, NEW s \in DOMAIN sess
    PROVE  /\ sess[s].by \in DOMAIN inst /\ inst[sess[s].by].dead
           /\ inst[sess[s].by].ta \in SingleInstance
           /\ sess[s].by # sess[s].inst
           /\ inst[sess[s].inst].ta \in SimsTas
  <1> USE DEF NInv
  <1>1. \A r \in DOMAIN sess : r # NoSession /\ sess[r].by # Host
    BY TeeSessionsAssumption DEF TypeInv, HostInv, NoSession
  <1>2. PICK j : j = sess[s].by
    OBVIOUS
  <1>3. j \in DOMAIN inst /\ j # sess[s].inst /\ inst[sess[s].inst].ta \in OpensTas(inst[j].ta) /\ j \in InstIds
    BY <1>1, <1>2 DEF SessionInv, TypeInv
  <1>4. inst[j].ta \in SingleInstance
    BY <1>1, <1>2 DEF OpenerInv
  <1>5. inst[sess[s].inst].ta \in SimsTas
    BY <1>3, <1>4, NestedTasAssumption DEF OpensTas, SingleInstance, SimsTas
  <1>6. inst[j].dead
    <2> SUFFICES ASSUME ~inst[j].dead PROVE FALSE
      OBVIOUS
    <2>1. lost[j] = 0
      BY <1>3 DEF LostInv
    <2>2. IsFiniteSet(LostOn(j))
      <3>1. LostOn(j) \subseteq SessIds
        BY DEF LostOn, OpenedBy, TypeInv
      <3> QED
        BY <3>1, FS_Subset, TeeSessionsAssumption
    <2>3. LostOn(j) = {}
      BY <1>3, <2>1, <2>2, FS_EmptySet DEF LostInv
    <2>4. Keeps(j, s)
      BY <1>2, <2>3, HandlesIff DEF LostOn, OpenedBy
    <2>5. ~\E r \in DOMAIN ctx : r \in DOMAIN sess /\ sess[r].inst = j /\ ctx[r] = s
      BY <1>1 DEF ContextInv
    <2>6. \A t \in SdpTargets : cached[j][t] # s
      BY <1>1, <1>3, <1>4 DEF StaticInv, SingleInstance
    <2>7. stor_session[j] # s
      BY <1>1, <1>3, <1>4 DEF StaticInv, SingleInstance
    <2>8. \A h \in Hosts : hostSess[h] \notin DOMAIN sess
      BY <1>1
    <2> QED
      BY <2>4, <2>5, <2>6, <2>7, <2>8 DEF Keeps
  <1> QED
    BY <1>2, <1>3, <1>4, <1>5, <1>6

\* What the invariant says of the states in which no client has a session: the opener of
\* a session of a single instance that is left is the other single instance, and has a
\* session of the first one in turn.
LEMMA ReleasedFromInvariant == NInv => AllReleased
  <1> SUFFICES ASSUME NInv, \A h \in Hosts : hostSess[h] = NoSession, ~overwrote, NEW i \in DOMAIN inst
               PROVE  \/ Alive(i) /\ inst[i].ta = "sims_keepalive" /\ SessionsOn(i) = {}
                      \/ /\ SessionsOn(i) # {}
                         /\ \A s \in SessionsOn(i) : /\ sess[s].by \in DOMAIN inst /\ ~Alive(sess[s].by)
                                                     /\ inst[sess[s].by].ta \in SingleInstance
                         /\ Alive(i) => inst[i].ta = "miss" /\ OpenedBy(i) = {}
    BY DEF AllReleased
  <1>1. CASE SessionsOn(i) = {}
    BY <1>1 DEF NInv, InstanceInv, SessionsOn, Alive, KeepAlive
  <1>2. CASE SessionsOn(i) # {}
    <2>1. \A s \in SessionsOn(i) : /\ sess[s].by \in DOMAIN inst /\ ~Alive(sess[s].by)
                                   /\ inst[sess[s].by].ta \in SingleInstance
      BY LeftByTheDead DEF SessionsOn, Alive
    <2>2. PICK s \in DOMAIN sess : sess[s].inst = i
      BY <1>2 DEF SessionsOn
    <2>3. PICK j \in DOMAIN inst : j = sess[s].by /\ inst[j].dead /\ inst[j].ta \in SingleInstance /\ j # i
      BY <2>2, LeftByTheDead
    <2>4. ASSUME Alive(i) PROVE inst[i].ta \notin SingleInstance
      <3> SUFFICES ASSUME inst[i].ta \in SingleInstance PROVE FALSE
        OBVIOUS
      <3>1. PICK r \in DOMAIN sess : sess[r].inst = j
        BY <2>3 DEF NInv, InstanceInv
      <3>2. PICK k \in DOMAIN inst : k = sess[r].by /\ inst[k].dead /\ inst[k].ta \in SingleInstance /\ k # j
        BY <3>1, LeftByTheDead
      <3>3. \A a, b \in DOMAIN inst : inst[a].ta = inst[b].ta /\ inst[a].ta \in SingleInstance => a = b
        BY DEF NInv, InstanceInv
      <3>4. k = i
        BY <2>3, <3>2, <3>3 DEF SingleInstance
      <3> QED
        BY <2>4, <3>2, <3>4 DEF Alive
    <2>5. ASSUME Alive(i) PROVE inst[i].ta = "miss"
      BY <2>2, <2>4, <2>5, LeftByTheDead DEF SimsTas, SingleInstance
    <2>6. ASSUME Alive(i) PROVE OpenedBy(i) = {}
      BY <2>4, <2>6, LeftByTheDead DEF OpenedBy
    <2> QED
      BY <1>2, <2>1, <2>5, <2>6
  <1> QED
    BY <1>1, <1>2

\* In every behaviour nothing is left without clients but the instance that is kept alive,
\* and what two single instances that both panicked had opened.
THEOREM NestedAllReleased == Spec => []AllReleased
  BY NestedInvariant, ReleasedFromInvariant, PTL

-----------------------------------------------------------------------------
\* The live instance i of the TA that is kept alive stays and goes on counting.
GoesOn(i) == i \in DOMAIN inst' /\ (inst'[i].dead \/ counter'[i] >= counter[i])

\* The instances once a session is opened (InstWith).
LEMMA InstWithTarget ==
    ASSUME TypeInv, NEW ta \in TAs, NEW callers, CanOpen(ta, callers)
    PROVE  DOMAIN InstWith(ta) = DOMAIN inst \cup {TargetOf(ta)}
  <1>1. CASE Shared(ta)
    <2>1. TargetOf(ta) \in DOMAIN inst
      BY <1>1, NewFacts
    <2> QED
      BY <1>1, <2>1 DEF InstWith
  <1>2. CASE ~Shared(ta)
    BY <1>2 DEF InstWith, With
  <1> QED
    BY <1>1, <1>2

\* Opening a session counts it on its instance and leaves the other counters alone.
LEMMA OpenCounts ==
    ASSUME TypeInv, NEW ta \in TAs, NEW callers \in SUBSET DOMAIN inst, CanOpen(ta, callers),
           inst' = InstWith(ta), counter' = CounterWith(ta), NEW i \in DOMAIN inst
    PROVE  GoesOn(i)
  <1>1. DOMAIN inst' = DOMAIN inst \cup {TargetOf(ta)}
    BY InstWithTarget
  <1>2. \A j \in InstIds : counter[j] \in Nat /\ counter'[j] >= counter[j]
    BY DEF CounterWith, TypeInv
  <1> QED
    BY <1>1, <1>2 DEF GoesOn, TypeInv

\* Closing sessions leaves the instance that is kept alive, and its counter.
LEMMA CloseCounts ==
    ASSUME TypeInv, NEW C, NEW G, G = Gone(C), Close(C, G), SimsForget(C, G),
           NEW i \in DOMAIN inst, inst[i].ta = "sims_keepalive", ~inst[i].dead
    PROVE  GoesOn(i)
  <1>1. i \notin G
    BY DEF Gone, KeepAlive
  <1>2. i \in DOMAIN inst'
    BY <1>1 DEF Close, Without
  <1>3. i \in InstIds /\ counter[i] \in Nat /\ counter'[i] = counter[i]
    BY <1>1 DEF TypeInv, SimsForget
  <1> QED
    BY <1>2, <1>3 DEF GoesOn

\* Every step leaves the instance that is kept alive, and its counter does not go down
\* unless the step makes it panic.
LEMMA KeepAliveStep ==
    ASSUME NInv, Next, NEW i \in DOMAIN inst, inst[i].ta = "sims_keepalive", Alive(i)
    PROVE  GoesOn(i)
  <1>1. TypeInv /\ i \in InstIds /\ counter[i] \in Nat /\ ~inst[i].dead
    BY DEF NInv, TypeInv, Alive
  <1>2. ASSUME inst' = inst, counter' = counter PROVE GoesOn(i)
    BY <1>1, <1>2 DEF GoesOn
  <1>3. PICK h \in Hosts :
            \/ \E ta \in Uses[h] : OpenSession(h, ta)
            \/ OpenKeySession(h)
            \/ CloseSession(h)
            \/ SimsCommand(h)
            \/ RpcCommand(h)
            \/ RpcGoesOn(h)
            \/ SdpCommand(h)
    BY DEF Next
  <1>4. CASE \E ta \in Uses[h] : OpenSession(h, ta)
    <2>1. PICK ta \in Uses[h] : OpenSession(h, ta)
      BY <1>4
    <2>2. ta \in TAs
      BY NestedTasAssumption DEF TAs
    <2>3. CanOpen(ta, {}) /\ inst' = InstWith(ta) /\ counter' = CounterWith(ta)
      BY <2>1 DEF OpenSession
    <2> QED
      BY <1>1, <2>2, <2>3, OpenCounts
  <1>5. CASE OpenKeySession(h)
    <2>1. PICK k, j, m, n : KeyEffect(h, k, j, m, n)
      BY <1>5, KeyFacts
    <2>2. i \in DOMAIN inst' /\ counter' = counter
      BY <2>1 DEF KeyEffect, simsVars
    <2> QED
      BY <1>1, <2>2 DEF GoesOn
  <1>6. CASE CloseSession(h)
    <2>1. PICK C : Close(C, Gone(C)) /\ SimsForget(C, Gone(C))
      BY <1>6 DEF CloseSession
    <2> QED
      BY <1>1, <2>1, CloseCounts
  <1>7. CASE SimsCommand(h)
    <2>1. PICK s : s = hostSess[h]
      OBVIOUS
    <2>2. CASE PanicHere(s)
      <3>1. /\ inst' = [inst EXCEPT ![sess[s].inst].dead = TRUE]
            /\ counter' = [counter EXCEPT ![sess[s].inst] = 0]
        BY <2>2 DEF PanicHere, Kill, DeadMemory
      <3>2. i \in DOMAIN inst'
        BY <3>1
      <3>3. CASE i = sess[s].inst
        <4>1. inst'[i].dead
          BY <1>1, <3>1, <3>3 DEF TypeInv, InstRecords
        <4> QED
          BY <3>2, <4>1 DEF GoesOn
      <3>4. CASE i # sess[s].inst
        BY <1>1, <3>1, <3>2, <3>4 DEF GoesOn, TypeInv
      <3> QED
        BY <3>3, <3>4
    <2>3. ASSUME NEW ta \in Targets, CanNest(s, ta)
          PROVE  /\ ta \in TAs /\ {sess[s].inst} \in SUBSET DOMAIN inst
                 /\ CanOpen(ta, {sess[s].inst})
      BY <2>3, NestedTasAssumption DEF CanNest, Runs, SimsTas, TAs, NInv, SessionInv
    <2>4. CASE \E ta \in Targets : sims_open_ta_session(s, ta)
      <3>1. PICK ta \in Targets : /\ CanNest(s, ta) /\ inst' = InstWith(ta)
                                  /\ counter' = CounterWith(ta)
        BY <2>4 DEF sims_open_ta_session
      <3> QED
        BY <1>1, <2>3, <3>1, OpenCounts
    <2>5. CASE \E ta \in Targets : PanicThere(s, ta)
      <3>1. PICK ta \in Targets : PanicThere(s, ta)
        BY <2>5
      <3>2. PICK j : j = TargetOf(ta)
        OBVIOUS
      <3>3. PICK I : I = InstWith(ta)
        OBVIOUS
      <3>4. /\ CanNest(s, ta) /\ inst' = [I EXCEPT ![j].dead = TRUE]
            /\ counter' = [CounterWith(ta) EXCEPT ![j] = 0]
        BY <3>1, <3>2, <3>3 DEF PanicThere, DeadMemory
      <3>5. /\ DOMAIN I = DOMAIN inst \cup {j} /\ I[j] = [ta |-> ta, dead |-> FALSE]
            /\ I \in [DOMAIN I -> InstRecords]
        BY <1>1, <2>3, <3>2, <3>3, <3>4, InstWithFacts
      <3>6. i \in DOMAIN inst'
        BY <3>4, <3>5
      <3>7. CASE i = j
        <4>1. inst'[i].dead
          BY <3>4, <3>5, <3>7
        <4> QED
          BY <3>6, <4>1 DEF GoesOn
      <3>8. CASE i # j
        <4>1. CounterWith(ta)[i] >= counter[i] /\ CounterWith(ta) \in [InstIds -> Nat]
          <5>1. CounterWith(ta) = counter \/ CounterWith(ta) = [counter EXCEPT ![j] = @ + 1]
            BY <3>2 DEF CounterWith
          <5>2. counter \in [InstIds -> Nat]
            BY <1>1 DEF TypeInv
          <5> QED
            BY <1>1, <3>8, <5>1, <5>2
        <4>2. counter'[i] = CounterWith(ta)[i]
          BY <1>1, <3>4, <3>8, <4>1
        <4> QED
          BY <3>6, <4>1, <4>2 DEF GoesOn
      <3> QED
        BY <3>7, <3>8
    <2> QED
      BY <1>7, <2>1, <2>2, <2>4, <2>5 DEF SimsCommand
  <1>8. CASE RpcCommand(h)
    <2>1. PICK to \in {"crypt", "sims"}, sec \in BOOLEAN : RpcOpen(h, to, sec)
      BY <1>8 DEF RpcCommand
    <2>2. /\ to \in TAs /\ {InstOf(h)} \in SUBSET DOMAIN inst
          /\ CanOpen(to, {InstOf(h)}) /\ inst' = InstWith(to) /\ counter' = CounterWith(to)
      BY <2>1 DEF RpcOpen, TAs, Runs, InstOf, NInv, SessionInv
    <2> QED
      BY <1>1, <2>2, OpenCounts
  <1>9. CASE RpcGoesOn(h)
    <2>1. CASE RpcCopy(h)
      <3>1. counter' = counter /\ DOMAIN inst' = DOMAIN inst
        BY <2>1 DEF RpcCopy, Kill, simsVars, teeVars
      <3> QED
        BY <1>1, <3>1 DEF GoesOn
    <2>2. CASE RpcInvoke(h)
      BY <1>2, <2>2 DEF RpcInvoke, simsVars, teeVars
    <2>3. CASE RpcClose(h)
      <3>1. PICK C : Close(C, Gone(C)) /\ SimsForget(C, Gone(C))
        BY <2>3 DEF RpcClose
      <3> QED
        BY <1>1, <3>1, CloseCounts
    <2> QED
      BY <1>9, <2>1, <2>2, <2>3 DEF RpcGoesOn, RpcStep
  <1>10. CASE SdpCommand(h)
    <2>1. PICK t \in SdpTargets : cmd_invoke(hostSess[h], t)
      BY <1>10 DEF SdpCommand
    <2>2. PICK b : b = sess[hostSess[h]].inst
      OBVIOUS
    <2>3. counter' = counter /\ b \in InstIds /\ (SdpCall(b, t) \/ SdpDrop(b, t))
      BY <1>1, <2>1, <2>2 DEF cmd_invoke, simsVars, Runs, TypeInv, SessRecords
    <2>4. CASE SdpCall(b, t) /\ cached[b][t] # NoSession
      BY <1>2, <2>3, <2>4 DEF SdpCall, teeVars
    <2>5. CASE SdpCall(b, t) /\ cached[b][t] = NoSession
      <3>1. /\ CanOpen(t, {b}) /\ inst' = InstWith(t) /\ t \in TAs
        BY <2>5 DEF SdpCall, SdpTargets, TAs
      <3>2. i \in DOMAIN inst'
        BY <1>1, <3>1, InstWithTarget
      <3> QED
        BY <1>1, <2>3, <3>2 DEF GoesOn
    <2>6. CASE SdpDrop(b, t)
      <3>1. PICK x : x = cached[b][t]
        OBVIOUS
      <3>2. x # NoSession /\ inst' = Without(inst, {sess[x].inst})
        BY <2>6, <3>1 DEF SdpDrop, Close
      <3>3. inst[sess[x].inst].ta = t
        BY <2>3, <3>1, <3>2 DEF NInv, StaticInv
      <3>4. i # sess[x].inst
        BY <3>3 DEF SdpTargets
      <3> QED
        BY <1>1, <2>3, <3>2, <3>4 DEF GoesOn, Without
    <2> QED
      BY <2>3, <2>4, <2>5, <2>6
  <1> QED
    BY <1>3, <1>4, <1>5, <1>6, <1>7, <1>8, <1>9, <1>10

\* In every behaviour sims_keepalive goes on counting, with clients and without, as long as
\* nobody makes it panic.
THEOREM NestedKeepAlive == Spec => KeepAliveCounts
  <1> DEFINE A == \A i \in DOMAIN inst :
                    inst[i].ta = "sims_keepalive" /\ Alive(i) =>
                        i \in DOMAIN inst' /\ (inst'[i].dead \/ counter'[i] >= counter[i])
  <1>1. NInv /\ [Next]_vars => [A]_vars
    <2> SUFFICES ASSUME NInv, Next PROVE A
      OBVIOUS
    <2> QED
      BY KeepAliveStep DEF GoesOn
  <1> QED
    BY <1>1, NestedInvariant, PTL DEF Spec, KeepAliveCounts
=============================================================================
