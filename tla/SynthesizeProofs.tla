-------------------------- MODULE SynthesizeProofs --------------------------
(***************************************************************************)
(* A result is applied as the job it was made for, for any numbers of      *)
(* calls, jobs, sources and pages and whatever a client submits.           *)
(***************************************************************************)
EXTENDS SynthesizeProperties, FiniteSetTheorems, SequenceTheorems, TLAPS

Listed(s) == s \in Seq(ToSet(s))

(***************************************************************************)
(* What makes ResultMeetsItsJob inductive: the numbers taken so far are    *)
(* below the counter, wherever their jobs still are, in the map, with the  *)
(* client or in a call under way; so the next one is new.                  *)
(***************************************************************************)
IdsMeanJobs == \A i, j \in Live : i.id = j.id => i = j

IdsAreTaken == \A j \in Live : j.id \in Nat /\ j.id < counter

CallOK(c) ==
    /\ call[c].at \in {"idle", "next", "lookup", "apply", "save", "remove"}
    /\ call[c].at = "next" => Listed(call[c].batch)
    /\ call[c].at \in {"lookup", "apply", "save", "remove"} =>
           Listed(call[c].left) /\ call[c].left # <<>>
    /\ call[c].at \in {"apply", "save", "remove"} => call[c].job = Result(c)
    /\ call[c].at = "save" => call[c].manifest \subseteq answered

JobInv ==
    /\ Listed(jobs) /\ old \in 0..Len(jobs)
    /\ counter \in Nat
    /\ IsFiniteSet(handed)
    /\ DOMAIN call = Call /\ call = [c \in Call |-> call[c]]
    /\ \A c \in Call : CallOK(c)
    /\ IdsMeanJobs /\ IdsAreTaken
    /\ marked \subseteq answered

-----------------------------------------------------------------------------
LEMMA SubSeqListed ==
    ASSUME NEW s, Listed(s), NEW m \in Nat \ {0}, NEW n \in 0..Len(s)
    PROVE  Listed(SubSeq(s, m, n)) /\ ToSet(SubSeq(s, m, n)) \subseteq ToSet(s)
<1> DEFINE t == SubSeq(s, m, n)
<1>1. t \in Seq(ToSet(s)) /\ ToSet(t) \subseteq ToSet(s)
  BY DEF Listed, ToSet
<1>2. t \in Seq(ToSet(t))
  <2> HIDE DEF t
  <2> QED  BY <1>1 DEF ToSet
<1> QED  BY <1>1, <1>2 DEF Listed

LEMMA ConcatListed ==
    ASSUME NEW s, NEW t, Listed(s), Listed(t)
    PROVE  /\ Listed(s \o t) /\ ToSet(s \o t) = ToSet(s) \cup ToSet(t)
           /\ Len(s \o t) = Len(s) + Len(t)
<1> DEFINE u == s \o t
           S == ToSet(s) \cup ToSet(t)
<1>1. s \in Seq(S) /\ t \in Seq(S)
  BY DEF Listed, ToSet
<1>2. /\ u \in Seq(S) /\ Len(u) = Len(s) + Len(t)
      /\ \A i \in 1..Len(s) + Len(t) : u[i] = IF i <= Len(s) THEN s[i] ELSE t[i - Len(s)]
  <2> HIDE DEF S
  <2> QED  BY <1>1, ConcatProperties
<1>3. Len(s) \in Nat /\ Len(t) \in Nat /\ DOMAIN s = 1..Len(s) /\ DOMAIN t = 1..Len(t)
  BY DEF Listed
<1>4. ToSet(u) = S
  <2> HIDE DEF u
  <2>1. DOMAIN u = 1..Len(s) + Len(t)
    BY <1>2
  <2>2. \A i \in DOMAIN s : u[i] = s[i] /\ i \in DOMAIN u
    BY <1>2, <1>3, <2>1
  <2>3. \A i \in DOMAIN t : u[i + Len(s)] = t[i] /\ i + Len(s) \in DOMAIN u
    BY <1>2, <1>3, <2>1
  <2>4. ToSet(u) \subseteq S
    BY <1>2 DEF ToSet
  <2> QED  BY <2>2, <2>3, <2>4 DEF ToSet
<1>5. u \in Seq(ToSet(u))
  <2> HIDE DEF u, S
  <2> QED  BY <1>2, <1>4
<1> QED  BY <1>2, <1>4, <1>5 DEF Listed

LEMMA TailListed ==
    ASSUME NEW s, Listed(s), s # <<>>
    PROVE  /\ Listed(Tail(s)) /\ ToSet(Tail(s)) \subseteq ToSet(s)
           /\ Head(s) \in ToSet(s)
           /\ Len(s) # 1 => Tail(s) # <<>>
<1>1. /\ Head(s) \in ToSet(s) /\ Tail(s) \in Seq(ToSet(s)) /\ Len(Tail(s)) = Len(s) - 1
      /\ Len(s) \in Nat /\ s \in Seq(ToSet(s))
  BY HeadTailProperties DEF Listed
<1> DEFINE t == Tail(s)
<1>2. t \in Seq(ToSet(s)) /\ (Len(s) # 1 => Len(t) # 0)
  BY <1>1
<1> HIDE DEF t
<1>3. Len(s) # 1 => t # <<>>
  BY <1>2
<1>4. t \in Seq(ToSet(t)) /\ ToSet(t) \subseteq ToSet(s)
  BY <1>2 DEF ToSet
<1> QED  BY <1>1, <1>3, <1>4 DEF t, Listed

LEMMA RemoveListed ==
    ASSUME NEW s, Listed(s), NEW k \in 1..Len(s)
    PROVE  /\ Listed(RemoveAt(s, k)) /\ ToSet(RemoveAt(s, k)) \subseteq ToSet(s)
           /\ Len(RemoveAt(s, k)) = Len(s) - 1
<1>1. Len(s) \in Nat
  BY DEF Listed
<1>2. /\ Listed(SubSeq(s, 1, k - 1)) /\ ToSet(SubSeq(s, 1, k - 1)) \subseteq ToSet(s)
      /\ Listed(SubSeq(s, k + 1, Len(s))) /\ ToSet(SubSeq(s, k + 1, Len(s))) \subseteq ToSet(s)
  BY <1>1, SubSeqListed
<1>3. Len(SubSeq(s, 1, k - 1)) = k - 1 /\ Len(SubSeq(s, k + 1, Len(s))) = Len(s) - k
  BY <1>1 DEF Listed
<1>4. Len(s) - 1 = (k - 1) + (Len(s) - k)
  BY <1>1
<1>5. RemoveAt(s, k) = SubSeq(s, 1, k - 1) \o SubSeq(s, k + 1, Len(s))
  BY DEF RemoveAt
<1> DEFINE l == SubSeq(s, 1, k - 1)
           r == SubSeq(s, k + 1, Len(s))
<1> HIDE DEF l, r
<1>6. /\ Listed(l) /\ Listed(r) /\ ToSet(l) \subseteq ToSet(s) /\ ToSet(r) \subseteq ToSet(s)
      /\ Len(l) + Len(r) = Len(s) - 1 /\ RemoveAt(s, k) = l \o r
  BY <1>2, <1>3, <1>4, <1>5 DEF l, r
<1> QED  BY <1>6, ConcatListed

\* Every member of a finite set once, in some order.
LEMMA SetToSeqLists ==
    ASSUME NEW S, IsFiniteSet(S)
    PROVE  /\ SetToSeq(S) \in [1..Cardinality(S) -> S] /\ IsInjective(SetToSeq(S))
           /\ Cardinality(S) \in Nat /\ Len(SetToSeq(S)) = Cardinality(S)
           /\ Listed(SetToSeq(S)) /\ ToSet(SetToSeq(S)) \subseteq S
<1>1. Cardinality(S) \in Nat
  BY FS_CardinalityType
<1>2. \E f \in [1..Cardinality(S) -> S] : IsInjective(f)
  BY FS_CardinalityType DEF ExistsBijection, Bijection, Injection
<1>3. SetToSeq(S) \in [1..Cardinality(S) -> S] /\ IsInjective(SetToSeq(S))
  BY <1>2 DEF SetToSeq
<1> HIDE DEF SetToSeq
<1> QED  BY <1>1, <1>3 DEF Listed, ToSet

LEMMA KeptListed ==
    ASSUME JobAssumption, Listed(jobs), old \in 0..Len(jobs)
    PROVE  Listed(Kept) /\ ToSet(Kept) \subseteq ToSet(jobs)
<1> DEFINE dropped == Max({old, Len(jobs) - Cap})
<1>1. Len(jobs) \in Nat /\ Cap \in Nat
  BY DEF Listed, JobAssumption
<1>2. dropped \in Nat
  <2> DEFINE T == {old, Len(jobs) - Cap}
  <2>1. old \in Nat /\ Len(jobs) - Cap \in Int
    BY <1>1
  <2>2. \E x \in T : \A y \in T : x >= y
    BY <2>1
  <2>3. Max(T) \in T /\ \A y \in T : Max(T) >= y
    BY ONLY <2>2 DEF Max
  <2> QED  BY <2>1, <2>3
<1>3. Kept = SubSeq(jobs, dropped + 1, Len(jobs))
  BY DEF Kept
<1> HIDE DEF dropped
<1>4. dropped + 1 \in Nat \ {0} /\ Len(jobs) \in 0..Len(jobs)
  BY <1>1, <1>2
<1> QED  BY <1>3, <1>4, SubSeqListed

-----------------------------------------------------------------------------
\* Fewer jobs, or the same, confuse no ids.
LEMMA FewerLive ==
    ASSUME IdsMeanJobs, IdsAreTaken, Live' \subseteq Live, counter' = counter
    PROVE  IdsMeanJobs' /\ IdsAreTaken'
BY DEF IdsMeanJobs, IdsAreTaken

LEMMA InitJobs == Init => JobInv
<1> SUFFICES ASSUME Init PROVE JobInv
  OBVIOUS
<1>1. ToSet(jobs) = {} /\ Listed(jobs) /\ old \in 0..Len(jobs)
  BY DEF Init, ToSet, Listed
<1>2. \A c \in Call : call[c].at = "idle" /\ HeldBy(c) = {}
  BY DEF Init, Idle, HeldBy
<1>3. Live = {}
  BY <1>1, <1>2 DEF Live, Init
<1>4. IsFiniteSet(handed)
  BY FS_EmptySet DEF Init
<1>5. \A c \in Call : CallOK(c)
  BY <1>2 DEF CallOK
<1> QED  BY <1>1, <1>3, <1>4, <1>5 DEF Init, JobInv, IdsMeanJobs, IdsAreTaken

-----------------------------------------------------------------------------
\* A call that goes on: what it now holds, and the calls that stay.
LEMMA CallGoesOn ==
    ASSUME JobInv, answered \subseteq answered',
           NEW c \in Call, NEW r, call' = [call EXCEPT ![c] = r]
    PROVE  /\ DOMAIN call' = Call /\ call' = [d \in Call |-> call'[d]]
           /\ call'[c] = r
           /\ \A d \in Call \ {c} : CallOK(d)' /\ HeldBy(d)' = HeldBy(d)
<1>1. call' = [d \in Call |-> IF d = c THEN r ELSE call[d]]
  BY DEF JobInv
<1>2. \A d \in Call \ {c} : call'[d] = call[d] /\ CallOK(d)
  BY <1>1 DEF JobInv
<1> QED  BY <1>1, <1>2 DEF HeldBy, CallOK, Result

LEMMA AgeKeeps == JobInv /\ Age => JobInv'
<1> SUFFICES ASSUME JobInv, Age PROVE JobInv'
  OBVIOUS
<1>1. Live' = Live /\ old' \in 0..Len(jobs) /\ \A c \in Call : CallOK(c)'
  BY DEF JobInv, Age, Live, HeldBy, vault, CallOK, Result, Listed
<1> QED  BY <1>1, FewerLive DEF JobInv, Age, vault, Listed

\* No number is taken yet; and the counter starts over only if none is in use.
LEMMA NextBatchKeeps ==
    ASSUME JobInv, NEW c \in Call, NextBatch(c)
    PROVE  JobInv'
<1> DEFINE r == [at |-> "next", phase |-> Phase, todo |-> SetToSortSeq(Targets, <),
                 batch |-> <<>>, older |-> ToSet(jobs)]
<1>1. call' = [call EXCEPT ![c] = r] /\ UNCHANGED <<jobs, old, handed, marked, answered>>
  BY DEF NextBatch, map, vault
<1>2. r.at = "next" /\ r.batch = <<>>
  OBVIOUS
<1> HIDE DEF r
<1>3. /\ DOMAIN call' = Call /\ call' = [d \in Call |-> call'[d]]
      /\ call'[c] = r
      /\ \A d \in Call \ {c} : CallOK(d)' /\ HeldBy(d)' = HeldBy(d)
  BY <1>1, CallGoesOn
<1>4. HeldBy(c)' = {} /\ CallOK(c)'
  <2>1. call'[c].at = "next" /\ call'[c].batch = <<>>
    BY <1>2, <1>3
  <2>2. Listed(<<>>) /\ ToSet(<<>>) = {}
    BY DEF Listed, ToSet
  <2> QED  BY <2>1, <2>2 DEF HeldBy, CallOK
<1>5. Live' \subseteq Live
  BY <1>1, <1>3, <1>4 DEF Live
<1>6. counter' \in Nat /\ (counter' = counter \/ Live = {})
  BY DEF NextBatch, JobInv
<1>7. IdsMeanJobs' /\ IdsAreTaken'
  BY <1>5, <1>6 DEF JobInv, IdsMeanJobs, IdsAreTaken
<1> QED  BY <1>1, <1>3, <1>4, <1>6, <1>7 DEF JobInv, Listed

\* The number that is taken is that of no other job, and the counter passes it.
LEMMA MintKeeps ==
    ASSUME JobInv, NEW c \in Call, Mint(c)
    PROVE  JobInv'
<1> DEFINE new == [id |-> counter, kind |-> call[c].phase, of |-> Head(call[c].todo)]
           batch == Append(call[c].batch, new)
           r == [at |-> "next", phase |-> call[c].phase, todo |-> Tail(call[c].todo),
                 older |-> call[c].older, batch |-> batch]
<1>1. /\ call[c].at = "next" /\ counter' = counter + 1 /\ call' = [call EXCEPT ![c] = r]
      /\ UNCHANGED <<jobs, old, handed, marked, answered>>
  BY DEF Mint, Numbered, map, vault
<1>2. new.id = counter
  OBVIOUS
<1>3. Listed(call[c].batch) /\ HeldBy(c) = ToSet(call[c].batch)
  BY <1>1 DEF JobInv, CallOK, HeldBy
<1> HIDE DEF new
<1>4. Listed(batch) /\ ToSet(batch) \subseteq ToSet(call[c].batch) \cup {new}
  <2> DEFINE S == ToSet(call[c].batch) \cup {new}
  <2>1. call[c].batch \in Seq(S) /\ new \in S
    BY <1>3 DEF Listed, ToSet
  <2> HIDE DEF S
  <2>2. batch \in Seq(S)
    BY <2>1
  <2> HIDE DEF batch
  <2> QED  BY <2>2 DEF Listed, ToSet, S
<1> HIDE DEF batch
<1>5. r.at = "next" /\ r.batch = batch
  OBVIOUS
<1> HIDE DEF r
<1>6. /\ DOMAIN call' = Call /\ call' = [d \in Call |-> call'[d]]
      /\ call'[c] = r
      /\ \A d \in Call \ {c} : CallOK(d)' /\ HeldBy(d)' = HeldBy(d)
  BY <1>1, CallGoesOn
<1>7. HeldBy(c)' = ToSet(batch) /\ CallOK(c)'
  BY <1>4, <1>5, <1>6 DEF HeldBy, CallOK
<1>8. Live' \subseteq Live \cup {new}
  BY <1>1, <1>3, <1>4, <1>6, <1>7 DEF Live
<1>9. IdsMeanJobs' /\ IdsAreTaken'
  <2>1. counter \in Nat /\ \A j \in Live : j.id \in Nat /\ j.id < counter /\ j.id # new.id
    BY <1>2 DEF JobInv, IdsAreTaken
  <2> QED  BY <1>1, <1>2, <1>8, <2>1 DEF JobInv, IdsMeanJobs, IdsAreTaken
<1> QED  BY <1>1, <1>6, <1>7, <1>9 DEF JobInv, Listed

LEMMA InsertKeeps ==
    ASSUME JobInv, NEW c \in Call, Insert(c)
    PROVE  JobInv'
<1> DEFINE batch == call[c].batch
<1>1. Listed(batch) /\ HeldBy(c) = ToSet(batch)
  BY DEF JobInv, CallOK, Insert, HeldBy
<1>2. PICK n \in 0..Len(Kept) : jobs' = SubSeq(Kept, 1, n) \o batch \o SubSeq(Kept, n + 1, Len(Kept))
  BY DEF Insert
<1>3. /\ call' = [call EXCEPT ![c] = Idle] /\ old' = 0 /\ handed' = handed \cup ToSet(batch)
      /\ UNCHANGED <<counter, marked, answered>>
  BY DEF Insert, vault
<1> HIDE DEF batch
<1>4. Listed(jobs') /\ ToSet(jobs') \subseteq ToSet(jobs) \cup ToSet(batch)
  <2> DEFINE l == SubSeq(Kept, 1, n)
             r == SubSeq(Kept, n + 1, Len(Kept))
  <2>1. Listed(Kept) /\ ToSet(Kept) \subseteq ToSet(jobs) /\ Len(Kept) \in Nat
    BY JobAssumption, KeptListed DEF JobInv, Listed
  <2>2. n \in 0..Len(Kept) /\ n + 1 \in Nat \ {0} /\ Len(Kept) \in 0..Len(Kept)
    BY <2>1
  <2>3. Listed(l) /\ Listed(r) /\ ToSet(l) \subseteq ToSet(jobs) /\ ToSet(r) \subseteq ToSet(jobs)
    BY <2>1, <2>2, SubSeqListed
  <2>4. jobs' = l \o batch \o r
    BY <1>2
  <2> HIDE DEF l, r
  <2>5. Listed(l \o batch) /\ ToSet(l \o batch) = ToSet(l) \cup ToSet(batch)
    BY <1>1, <2>3, ConcatListed
  <2> QED  BY <2>3, <2>4, <2>5, ConcatListed
<1>5. IsFiniteSet(ToSet(batch))
  <2>1. DOMAIN batch = 1..Len(batch) /\ Len(batch) \in Nat
    BY <1>1 DEF Listed
  <2>2. IsFiniteSet(1..Len(batch))
    BY <2>1, FS_Interval
  <2>3. batch \in [1..Len(batch) -> ToSet(batch)]
    BY <1>1, <2>1 DEF Listed, ToSet
  <2>4. batch \in Surjection(1..Len(batch), ToSet(batch))
    BY <2>1, <2>3 DEF Surjection, ToSet
  <2> QED  BY <2>2, <2>4, FS_Surjection
<1>6. /\ DOMAIN call' = Call /\ call' = [d \in Call |-> call'[d]]
      /\ call'[c] = Idle
      /\ \A d \in Call \ {c} : CallOK(d)' /\ HeldBy(d)' = HeldBy(d)
  BY <1>3, CallGoesOn
<1>7. call'[c].at = "idle" /\ HeldBy(c)' = {}
  BY <1>6 DEF Idle, HeldBy
<1>8. Live' \subseteq Live
  BY <1>1, <1>3, <1>4, <1>6, <1>7 DEF Live
<1>9. \A d \in Call : CallOK(d)'
  BY <1>6, <1>7 DEF CallOK
<1>10. IsFiniteSet(handed')
  BY <1>3, <1>5, FS_Union DEF JobInv
<1>11. old' \in 0..Len(jobs')
  BY <1>3, <1>4 DEF Listed
<1> QED  BY <1>3, <1>4, <1>6, <1>8, <1>9, <1>10, <1>11, FewerLive DEF JobInv

LEMMA SubmitKeeps ==
    ASSUME JobInv, NEW c \in Call, NEW results \in SUBSET handed, Submit(c, results)
    PROVE  JobInv'
<1> DEFINE left == SetToSeq(results)
           r == [at |-> "lookup", left |-> left]
<1>1. IsFiniteSet(results) /\ results # {}
  BY FS_Subset DEF JobInv, Submit
<1>2. Listed(left) /\ ToSet(left) \subseteq handed /\ Len(left) = Cardinality(results)
  BY <1>1, SetToSeqLists
<1>3. left # <<>>
  <2>1. Cardinality(results) # 0
    BY <1>1, FS_EmptySet
  <2> HIDE DEF left
  <2> QED  BY <1>2, <2>1
<1>4. call' = [call EXCEPT ![c] = r] /\ UNCHANGED <<counter, jobs, old, handed, marked, answered>>
  BY DEF Submit, map, vault
<1> HIDE DEF left
<1>5. /\ DOMAIN call' = Call /\ call' = [d \in Call |-> call'[d]]
      /\ call'[c] = r
      /\ \A d \in Call \ {c} : CallOK(d)' /\ HeldBy(d)' = HeldBy(d)
  <2> HIDE DEF r
  <2> QED  BY <1>4, CallGoesOn
<1>6. call'[c].at = "lookup" /\ call'[c].left = left
  BY <1>5
<1> HIDE DEF r
<1>7. HeldBy(c)' = ToSet(left)
  BY <1>6 DEF HeldBy
<1>8. Live' \subseteq Live
  BY <1>2, <1>4, <1>5, <1>7 DEF Live
<1>9. \A d \in Call : CallOK(d)'
  BY <1>2, <1>3, <1>5, <1>6 DEF CallOK
<1> QED  BY <1>4, <1>5, <1>8, <1>9, FewerLive DEF JobInv

\* The call is done with its first result.
LEMMA DoneGoesOn ==
    ASSUME JobInv, NEW c \in Call, Listed(call[c].left), call[c].left # <<>>,
           answered \subseteq answered',
           call[c].at \in {"lookup", "apply", "save", "remove"}, Done(c)
    PROVE  /\ DOMAIN call' = Call /\ call' = [d \in Call |-> call'[d]]
           /\ \A d \in Call : CallOK(d)' /\ HeldBy(d)' \subseteq HeldBy(d)
<1> DEFINE left == call[c].left
           r == IF Len(left) = 1 THEN Idle ELSE [at |-> "lookup", left |-> Tail(left)]
<1>1. /\ Listed(Tail(left)) /\ ToSet(Tail(left)) \subseteq ToSet(left)
      /\ Len(left) # 1 => Tail(left) # <<>>
  BY TailListed
<1>2. call' = [call EXCEPT ![c] = r]
  BY DEF Done
<1>3. /\ DOMAIN call' = Call /\ call' = [d \in Call |-> call'[d]]
      /\ call'[c] = r
      /\ \A d \in Call \ {c} : CallOK(d)' /\ HeldBy(d)' = HeldBy(d)
  <2> HIDE DEF r
  <2> QED  BY <1>2, CallGoesOn
<1>4. HeldBy(c) = ToSet(left)
  BY DEF HeldBy
<1> HIDE DEF left
<1>5. CASE Len(left) = 1
  <2>1. call'[c].at = "idle"
    BY <1>3, <1>5 DEF Idle
  <2>2. HeldBy(c)' = {}
    BY <2>1 DEF HeldBy
  <2>3. CallOK(c)'
    BY <2>1 DEF CallOK
  <2> HIDE DEF r
  <2> QED  BY <1>3, <2>2, <2>3
<1>6. CASE Len(left) # 1
  <2>1. call'[c].at = "lookup" /\ call'[c].left = Tail(left)
    BY <1>3, <1>6
  <2>2. HeldBy(c)' = ToSet(Tail(left))
    BY <2>1 DEF HeldBy
  <2>3. CallOK(c)'
    BY <1>1, <1>6, <2>1 DEF CallOK, left
  <2> HIDE DEF r
  <2> QED  BY <1>1, <1>3, <1>4, <2>2, <2>3
<1> QED  BY <1>5, <1>6

\* The call stays with its first result, and its job.
LEMMA StaysWithResult ==
    ASSUME JobInv, NEW c \in Call, Listed(call[c].left), call[c].left # <<>>,
           answered \subseteq answered',
           call[c].at \in {"lookup", "apply", "save", "remove"},
           NEW r, call' = [call EXCEPT ![c] = r], r.at \in {"apply", "save", "remove"},
           r.left = call[c].left, r.job = Result(c), r.at = "save" => r.manifest \subseteq answered'
    PROVE  /\ DOMAIN call' = Call /\ call' = [d \in Call |-> call'[d]]
           /\ \A d \in Call : CallOK(d)' /\ HeldBy(d)' = HeldBy(d)
<1>1. /\ DOMAIN call' = Call /\ call' = [d \in Call |-> call'[d]]
      /\ call'[c] = r
      /\ \A d \in Call \ {c} : CallOK(d)' /\ HeldBy(d)' = HeldBy(d)
  BY CallGoesOn
<1>2. HeldBy(c)' = HeldBy(c)
  BY <1>1 DEF HeldBy
<1>3. CallOK(c)'
  BY <1>1 DEF CallOK, Result
<1> QED  BY <1>1, <1>2, <1>3

LEMMA ResultIsLive ==
    ASSUME JobInv, NEW c \in Call, call[c].at \in {"lookup", "apply", "save", "remove"}
    PROVE  /\ Listed(call[c].left) /\ call[c].left # <<>>
           /\ Result(c) \in Live
<1>1. Listed(call[c].left) /\ call[c].left # <<>>
  BY DEF JobInv, CallOK
<1>2. HeldBy(c) = ToSet(call[c].left)
  BY DEF HeldBy
<1> QED  BY <1>1, <1>2, TailListed DEF Live, Result

LEMMA LookupKeeps ==
    ASSUME JobInv, NEW c \in Call, Lookup(c)
    PROVE  JobInv'
<1>1. /\ call[c].at = "lookup" /\ jobs' = Kept /\ old' = 0
      /\ UNCHANGED <<counter, marked, answered>>
  BY DEF Lookup, Evict, vault
<1>2. Listed(call[c].left) /\ call[c].left # <<>> /\ Result(c) \in Live
  BY <1>1, ResultIsLive
<1>3. Listed(jobs') /\ ToSet(jobs') \subseteq ToSet(jobs)
  BY <1>1, JobAssumption, KeptListed DEF JobInv
<1>4. old' \in 0..Len(jobs')
  BY <1>1, <1>3 DEF Listed
<1>5. ASSUME NEW j \in ToSet(Kept), NEW ops \in AnswersTo(Result(c)), j.id = Result(c).id,
             call' = [call EXCEPT ![c] = [at |-> "apply", left |-> @.left, job |-> j, ops |-> ops]],
             UNCHANGED handed
      PROVE  JobInv'
  <2>1. j \in Live
    BY <1>1, <1>3, <1>5 DEF Live
  <2>2. j = Result(c)
    BY <1>2, <1>5, <2>1 DEF JobInv, IdsMeanJobs
  <2> DEFINE r == [at |-> "apply", left |-> call[c].left, job |-> j, ops |-> ops]
  <2>3. /\ r.at \in {"apply", "save", "remove"} /\ r.left = call[c].left /\ r.job = Result(c)
        /\ r.at = "save" => r.manifest \subseteq answered'
        /\ call' = [call EXCEPT ![c] = r] /\ answered \subseteq answered'
    BY <1>1, <1>5, <2>2
  <2> HIDE DEF r
  <2>4. /\ DOMAIN call' = Call /\ call' = [d \in Call |-> call'[d]]
        /\ \A d \in Call : CallOK(d)' /\ HeldBy(d)' = HeldBy(d)
    BY <1>1, <1>2, <2>3, StaysWithResult
  <2>5. Live' \subseteq Live
    BY <1>3, <1>5, <2>4 DEF Live
  <2> QED  BY <1>1, <1>3, <1>4, <1>5, <2>4, <2>5, FewerLive DEF JobInv
<1>6. CASE /\ \A j \in ToSet(Kept) : j.id # Result(c).id
           /\ Done(c)
           /\ handed' = handed \ {Result(c)}
  <2>1. /\ DOMAIN call' = Call /\ call' = [d \in Call |-> call'[d]]
        /\ \A d \in Call : CallOK(d)' /\ HeldBy(d)' \subseteq HeldBy(d)
    BY <1>1, <1>2, <1>6, DoneGoesOn
  <2>2. Live' \subseteq Live
    BY <1>3, <1>6, <2>1 DEF Live
  <2>3. IsFiniteSet(handed')
    BY <1>6, FS_Subset DEF JobInv
  <2> QED  BY <1>1, <1>3, <1>4, <2>1, <2>2, <2>3, FewerLive DEF JobInv
<1> QED  BY <1>5, <1>6 DEF Lookup

\* Applying and marking keep the jobs as they are.
LEMMA ApplyKeeps ==
    ASSUME JobInv, NEW c \in Call,
           ApplyOperation(c) \/ LoadManifest(c) \/ SaveManifest(c) \/ ApplyFails(c)
    PROVE  JobInv'
<1>1. call[c].at \in {"apply", "save"} /\ UNCHANGED <<counter, jobs, old, handed>>
  BY DEF ApplyOperation, LoadManifest, SaveManifest, ApplyFails, map
<1>2. /\ Listed(call[c].left) /\ call[c].left # <<>> /\ call[c].job = Result(c)
      /\ call[c].at \in {"lookup", "apply", "save", "remove"} /\ marked \subseteq answered
  BY <1>1, ResultIsLive DEF JobInv, CallOK
<1>3. ASSUME NEW r, call' = [call EXCEPT ![c] = r], r.at \in {"apply", "save", "remove"},
             r.left = call[c].left, r.job = Result(c), r.at = "save" => r.manifest \subseteq answered',
             answered \subseteq answered', marked' \subseteq answered'
      PROVE  JobInv'
  <2>1. /\ DOMAIN call' = Call /\ call' = [d \in Call |-> call'[d]]
        /\ \A d \in Call : CallOK(d)' /\ HeldBy(d)' = HeldBy(d)
    BY <1>2, <1>3, StaysWithResult
  <2>2. Live' \subseteq Live
    BY <1>1, <2>1 DEF Live
  <2> QED  BY <1>1, <1>3, <2>1, <2>2, FewerLive DEF JobInv, Listed
<1>4. CASE ApplyOperation(c)
  <2> DEFINE r == [at |-> "apply", left |-> call[c].left, job |-> call[c].job, ops |-> Tail(call[c].ops)]
  <2>1. /\ call' = [call EXCEPT ![c] = r] /\ r.at \in {"apply", "save", "remove"}
        /\ r.left = call[c].left /\ r.job = Result(c) /\ (r.at = "save" => r.manifest \subseteq answered')
        /\ answered \subseteq answered' /\ marked' \subseteq answered'
    BY <1>2, <1>4 DEF ApplyOperation
  <2> HIDE DEF r
  <2> QED  BY <1>3, <2>1
<1>5. CASE LoadManifest(c)
  <2> DEFINE s == [at |-> "save", left |-> call[c].left, job |-> call[c].job,
                   manifest |-> marked \cup SourceOf(call[c].job)]
             t == [at |-> "remove", left |-> call[c].left, job |-> call[c].job]
             r == IF call[c].job.kind = "compile" THEN s ELSE t
  <2>1. /\ call' = [call EXCEPT ![c] = r] /\ marked' = marked
        /\ answered' = answered \cup SourceOf(call[c].job)
    BY <1>2, <1>5 DEF LoadManifest
  <2>2. /\ answered \subseteq answered' /\ marked' \subseteq answered'
        /\ marked \cup SourceOf(call[c].job) \subseteq answered'
    BY <1>2, <2>1
  <2>3. /\ r.at \in {"apply", "save", "remove"} /\ r.left = call[c].left /\ r.job = Result(c)
        /\ r.at = "save" => r.manifest \subseteq answered'
    BY <1>2, <2>2
  <2> HIDE DEF r
  <2> QED  BY <1>3, <2>1, <2>2, <2>3
<1>6. CASE SaveManifest(c)
  <2> DEFINE r == [at |-> "remove", left |-> call[c].left, job |-> call[c].job]
  <2>1. /\ call' = [call EXCEPT ![c] = r] /\ r.at \in {"apply", "save", "remove"}
        /\ r.left = call[c].left /\ r.job = Result(c) /\ (r.at = "save" => r.manifest \subseteq answered')
        /\ answered \subseteq answered' /\ answered' = answered
    BY <1>2, <1>6 DEF SaveManifest
  <2>2. marked' \subseteq answered'
    BY <1>6, <2>1 DEF JobInv, CallOK, SaveManifest
  <2> HIDE DEF r
  <2> QED  BY <1>3, <2>1, <2>2
<1>7. CASE ApplyFails(c)
  <2>1. Done(c) /\ UNCHANGED <<marked, answered>> /\ answered \subseteq answered'
    BY <1>7 DEF ApplyFails, vault
  <2>2. /\ DOMAIN call' = Call /\ call' = [d \in Call |-> call'[d]]
        /\ \A d \in Call : CallOK(d)' /\ HeldBy(d)' \subseteq HeldBy(d)
    BY <1>2, <2>1, DoneGoesOn
  <2>3. Live' \subseteq Live
    BY <1>1, <2>2 DEF Live
  <2> QED  BY <1>1, <2>1, <2>2, <2>3, FewerLive DEF JobInv, Listed
<1> QED  BY <1>4, <1>5, <1>6, <1>7

LEMMA SettleKeeps ==
    ASSUME JobInv, NEW c \in Call, Settle(c)
    PROVE  JobInv'
<1>1. /\ call[c].at = "remove" /\ Done(c) /\ handed' = handed \ {Result(c)}
      /\ UNCHANGED <<counter, marked, answered>>
  BY DEF Settle, vault
<1>2. Listed(call[c].left) /\ call[c].left # <<>>
  BY <1>1, ResultIsLive
<1>3. /\ DOMAIN call' = Call /\ call' = [d \in Call |-> call'[d]]
      /\ \A d \in Call : CallOK(d)' /\ HeldBy(d)' \subseteq HeldBy(d)
  BY <1>1, <1>2, DoneGoesOn
<1>4. Listed(jobs') /\ ToSet(jobs') \subseteq ToSet(jobs) /\ old' \in 0..Len(jobs')
  <2>1. CASE \E k \in 1..Len(jobs) : /\ jobs' = RemoveAt(jobs, k)
                                     /\ old' = IF k <= old THEN old - 1 ELSE old
    <3>1. PICK k \in 1..Len(jobs) : /\ jobs' = RemoveAt(jobs, k)
                                    /\ old' = IF k <= old THEN old - 1 ELSE old
      BY <2>1
    <3>2. Listed(jobs') /\ ToSet(jobs') \subseteq ToSet(jobs) /\ Len(jobs') = Len(jobs) - 1
      BY <3>1, RemoveListed DEF JobInv
    <3>3. old \in 0..Len(jobs) /\ Len(jobs) \in Nat
      BY DEF JobInv, Listed
    <3>4. old' \in 0..Len(jobs) - 1
      BY <3>1, <3>3
    <3> QED  BY <3>2, <3>4
  <2>2. CASE UNCHANGED map
    BY <2>2 DEF JobInv, map, Listed
  <2> QED  BY <2>1, <2>2 DEF Settle
<1>5. Live' \subseteq Live
  BY <1>1, <1>3, <1>4 DEF Live
<1>6. IsFiniteSet(handed')
  BY <1>1, FS_Subset DEF JobInv
<1> QED  BY <1>1, <1>3, <1>4, <1>5, <1>6, FewerLive DEF JobInv

LEMMA StepKeeps == JobInv /\ [Next]_vars => JobInv'
<1> SUFFICES ASSUME JobInv, [Next]_vars PROVE JobInv'
  OBVIOUS
<1>1. CASE Age
  BY <1>1, AgeKeeps
<1>2. ASSUME NEW c \in Call, NextBatch(c) PROVE JobInv'
  BY <1>2, NextBatchKeeps
<1>3. ASSUME NEW c \in Call, NEW results \in SUBSET handed, Submit(c, results) PROVE JobInv'
  BY <1>3, SubmitKeeps
<1>4. ASSUME NEW c \in Call, Server(c) PROVE JobInv'
  BY <1>4, MintKeeps, InsertKeeps, LookupKeeps, ApplyKeeps, SettleKeeps DEF Server
<1>5. CASE UNCHANGED vars
  <2>1. UNCHANGED <<counter, jobs, old, call, handed, marked, answered>>
    BY <1>5 DEF vars, map, vault
  <2>2. Live' = Live /\ \A c \in Call : CallOK(c)'
    BY <2>1 DEF JobInv, Live, HeldBy, CallOK, Result, Listed
  <2> QED  BY <2>1, <2>2, FewerLive DEF JobInv, Listed
<1> QED  BY <1>1, <1>2, <1>3, <1>4, <1>5 DEF Next

LEMMA InvMeets == JobInv => ResultMeetsItsJob
BY DEF JobInv, CallOK, IdsMeanJobs, ResultMeetsItsJob

(***************************************************************************)
(* However many calls of a session take numbers at once, whatever expires, *)
(* is crowded out, submitted twice or fails (next_batch,                   *)
(* synthesize_submit): jobs somebody still has differ in their numbers, so *)
(* a result is applied as the job it was made for, and only sources for    *)
(* which one was applied whole are marked.  It follows from the counter:   *)
(* every number given out is below it.                                     *)
(***************************************************************************)
THEOREM ResultsMeetTheirJobs == Spec => []ResultMeetsItsJob
<1>1. Spec => []JobInv
  BY InitJobs, StepKeeps, PTL DEF Spec
<1> QED  BY <1>1, InvMeets, PTL
=============================================================================
