------------------------------ MODULE RulesProofs ------------------------------
(* Lemmas about module Rules: what WithEntry does to keys and what         *)
(* WithEntries makes of any number of entries, by induction on it.         *)
EXTENDS Rules, WellFoundedInduction, SequenceTheorems, TLAPS

-----------------------------------------------------------------------------
(* Induction on natural numbers, for a set of them.                        *)

LEMMA LeastExists ==
    ASSUME NEW S \in SUBSET Nat, S # {}
    PROVE  \E n \in S : \A m \in S : n <= m
<1>1. PICK n \in S : \A m \in S : ~(<<m, n>> \in OpToRel(<, Nat))
  BY NatLessThanWellFounded, WFMin
<1>2. \A m \in S : ~ (m < n)
  BY <1>1 DEF OpToRel
<1> QED BY <1>2

LEMMA InductionUpTo ==
    ASSUME NEW len \in Nat, NEW S \in SUBSET Nat, 0 \in S, \A n \in S : n < len => n + 1 \in S
    PROVE  0 .. len \subseteq S
<1> SUFFICES ASSUME (0 .. len) \ S # {} PROVE FALSE
  OBVIOUS
<1> DEFINE rest == (0 .. len) \ S
<1>0. rest \in SUBSET Nat /\ rest # {}
  OBVIOUS
<1>1. PICK n \in rest : \A m \in rest : n <= m
  <2> HIDE DEF rest
  <2> QED BY <1>0, LeastExists
<1>2. n # 0 /\ n - 1 \in 0 .. len /\ n - 1 \notin (0 .. len) \ S
  BY <1>1
<1> QED BY <1>1, <1>2

-----------------------------------------------------------------------------
(* One entry.                                                              *)

(* No two keys are the same, and none is without targets.                  *)
Distinct(ks) == \A i, j \in DOMAIN ks : SameKey(ks[i], ks[j]) => i = j
NonEmpty(ks) == \A i \in DOMAIN ks : ks[i].targets # {}

KeySet(L, K, T) == [level : L, kinds : K, targets : SUBSET T]

IsFirst(slots, i) == \A j \in 1 .. (i - 1) : slots[j].name # slots[i].name

(* The targets an entry gives a record to.                                 *)
Here(entry, slots) == {FirstNamed(slots, name) : name \in entry.targets \cap NamesOf(slots)}

(* FirstNamed finds a slot, the first of the name.                         *)
LEMMA FirstNamedIs ==
    ASSUME NEW slots, IsASequence(slots), NEW name \in NamesOf(slots)
    PROVE  \E i \in DOMAIN slots :
               slots[i].name = name /\ IsFirst(slots, i) /\ FirstNamed(slots, name) = slots[i].target
<1> DEFINE named == {i \in DOMAIN slots : slots[i].name = name}
           First(i) == slots[i].name = name /\ \A j \in 1 .. (i - 1) : slots[j].name # name
<1>1. PICK n \in named : \A m \in named : n <= m
  <2>1. named \in SUBSET Nat /\ named # {}
    BY DEF NamesOf, IsASequence
  <2> HIDE DEF named
  <2> QED BY <2>1, LeastExists
<1>2. n \in DOMAIN slots /\ First(n)
  BY <1>1 DEF IsASequence
<1>3. PICK i \in DOMAIN slots : i = CHOOSE k \in DOMAIN slots : First(k)
  BY <1>2
<1>4. First(i)
  BY <1>2, <1>3
<1>5. FirstNamed(slots, name) = slots[i].target
  BY <1>3 DEF FirstNamed
<1> QED BY <1>4, <1>5 DEF IsFirst

LEMMA LastReplaced ==
    ASSUME NEW S, NEW s \in Seq(S), NEW x \in S, NEW y \in S
    PROVE  [Append(s, x) EXCEPT ![Len(s) + 1] = y] = Append(s, y)
<1> DEFINE t == Append(s, x)
           u == [t EXCEPT ![Len(s) + 1] = y]
<1>1. /\ t \in Seq(S) /\ Len(t) = Len(s) + 1 /\ Len(s) \in Nat
      /\ \A i \in 1 .. Len(s) : t[i] = s[i]
  BY AppendProperties
<1>2. /\ u \in Seq(S) /\ Len(u) = Len(s) + 1
      /\ \A i \in 1 .. (Len(s) + 1) : u[i] = IF i = Len(s) + 1 THEN y ELSE t[i]
  <2> HIDE DEF t
  <2> QED BY <1>1, ExceptSeq
<1>3. /\ Append(s, y) \in Seq(S) /\ Len(Append(s, y)) = Len(s) + 1
      /\ \A i \in 1 .. Len(s) : Append(s, y)[i] = s[i]
      /\ Append(s, y)[Len(s) + 1] = y
  BY AppendProperties
<1> HIDE DEF t, u
<1>4. \A i \in 1 .. Len(u) : u[i] = Append(s, y)[i]
  BY <1>1, <1>2, <1>3
<1>5. u = Append(s, y)
  BY <1>2, <1>3, <1>4, SeqEqual
<1> QED BY <1>5 DEF u, t

LEMMA TargetsAdded ==
    ASSUME NEW L, NEW K, NEW T, NEW key \in KeySet(L, K, T), NEW here
    PROVE  [key EXCEPT !.targets = key.targets \cup here] =
               [level |-> key.level, kinds |-> key.kinds, targets |-> key.targets \cup here]
BY DEF KeySet

(* WithEntry adds the targets to the key, or makes one if there are any.   *)
LEMMA WithEntryIs ==
    ASSUME NEW L, NEW K, NEW T, NEW ks \in Seq(KeySet(L, K, T)), NonEmpty(ks),
           NEW slots, NEW entry, entry.level \in L, entry.kinds \in K, Here(entry, slots) \subseteq T
    PROVE  \/ \E i \in DOMAIN ks :
                  /\ SameKey(ks[i], entry)
                  /\ WithEntry(ks, entry, slots) =
                         [ks EXCEPT ![i] = [level |-> ks[i].level, kinds |-> ks[i].kinds,
                                            targets |-> ks[i].targets \cup Here(entry, slots)]]
           \/ /\ \A i \in DOMAIN ks : ~SameKey(ks[i], entry)
              /\ WithEntry(ks, entry, slots) =
                     IF Here(entry, slots) = {} THEN ks
                     ELSE Append(ks, [level |-> entry.level, kinds |-> entry.kinds,
                                      targets |-> Here(entry, slots)])
<1> DEFINE found == {i \in DOMAIN ks : SameKey(ks[i], entry)}
           here == Here(entry, slots)
           new == [level |-> entry.level, kinds |-> entry.kinds, targets |-> {}]
           all == IF found # {} THEN ks ELSE Append(ks, new)
           at == IF found # {} THEN CHOOSE i \in found : \A j \in found : i <= j ELSE Len(all)
           added == [all EXCEPT ![at].targets = @ \cup here]
<1>0. WithEntry(ks, entry, slots) = IF added[at].targets = {} THEN RemoveAt(added, at) ELSE added
  BY DEF WithEntry, Here
<1>1. CASE found # {}
  <2>1. at \in found
    <3>1. found \in SUBSET Nat
      OBVIOUS
    <3>2. PICK n \in found : \A m \in found : n <= m
      <4> HIDE DEF found
      <4> QED BY <1>1, <3>1, LeastExists
    <3> HIDE DEF found
    <3> QED BY <1>1, <3>2
  <2> DEFINE key == [level |-> ks[at].level, kinds |-> ks[at].kinds, targets |-> ks[at].targets \cup here]
  <2>2. at \in DOMAIN ks /\ added = [ks EXCEPT ![at] = key]
    <3>1. added = [ks EXCEPT ![at] = [ks[at] EXCEPT !.targets = ks[at].targets \cup here]]
      BY <1>1
    <3> HIDE DEF at, here
    <3>2. at \in DOMAIN ks /\ ks[at] \in KeySet(L, K, T)
      BY <2>1
    <3>3. [ks[at] EXCEPT !.targets = ks[at].targets \cup here] = key
      BY <3>2, TargetsAdded
    <3> HIDE DEF added, key
    <3> QED BY <3>1, <3>2, <3>3
  <2>3. added[at].targets = ks[at].targets \cup here
    <3>1. added[at] = key
      <4> HIDE DEF at, here, key, added
      <4> QED BY <2>2
    <3> HIDE DEF at, here, added
    <3> QED BY <3>1
  <2>4. added[at].targets # {}
    BY <2>1, <2>3 DEF NonEmpty
  <2> HIDE DEF at, added, here
  <2> QED BY <1>0, <2>1, <2>2, <2>4 DEF here
<1>2. CASE found = {}
  <2>1. all = Append(ks, new) /\ at = Len(ks) + 1
    BY <1>2
  <2>2. /\ Append(ks, new) \in Seq(KeySet(L, K, T)) /\ Len(ks) \in Nat
        /\ Append(ks, new)[Len(ks) + 1] = new
    BY DEF KeySet
  <2>3. added = Append(ks, [level |-> entry.level, kinds |-> entry.kinds, targets |-> here])
    <3> HIDE DEF here, all, at
    <3> DEFINE key == [level |-> entry.level, kinds |-> entry.kinds, targets |-> here]
    <3>0. all[at] = new
      <4> HIDE DEF new
      <4> QED BY <2>1, <2>2
    <3>1. added = [all EXCEPT ![at] = [all[at] EXCEPT !.targets = all[at].targets \cup here]]
      OBVIOUS
    <3>2. [all[at] EXCEPT !.targets = all[at].targets \cup here] = key
      BY <3>0
    <3>3. key \in KeySet(L, K, T)
      BY DEF KeySet, here
    <3>4. [Append(ks, new) EXCEPT ![Len(ks) + 1] = key] = Append(ks, key)
      <4>1. new \in KeySet(L, K, T)
        BY DEF KeySet
      <4> HIDE DEF new, key
      <4> QED BY <4>1, <3>3, LastReplaced
    <3> HIDE DEF new, added, key
    <3> QED BY <2>1, <3>1, <3>2, <3>4 DEF key
  <2>4. added[at].targets = here
    <3> HIDE DEF here, added, all, at
    <3> QED BY <2>1, <2>3
  <2>5. CASE here = {}
    <3>1. RemoveAt(added, at) = ks
      <4> HIDE DEF here, added, all, at, found
      <4>1. RemoveAt(added, at) = SubSeq(added, 1, Len(ks)) \o SubSeq(added, Len(ks) + 2, Len(ks) + 1)
        BY <2>1, <2>3 DEF RemoveAt
      <4>2. SubSeq(added, 1, Len(ks)) = ks
        BY <2>3
      <4>3. SubSeq(added, Len(ks) + 2, Len(ks) + 1) = <<>>
        BY <2>3
      <4> QED BY <4>1, <4>2, <4>3
    <3> HIDE DEF here, added, all, at
    <3> QED BY <1>0, <1>2, <2>4, <2>5, <3>1 DEF here
  <2>6. CASE here # {}
    <3> HIDE DEF added, all, at
    <3> QED BY <1>0, <1>2, <2>3, <2>4, <2>6
  <2> QED BY <2>5, <2>6
<1> QED BY <1>1, <1>2

LEMMA WithEntryNew ==
    ASSUME NEW L, NEW K, NEW T, NEW ks \in Seq(KeySet(L, K, T)), NonEmpty(ks),
           NEW slots, NEW entry, entry.level \in L, entry.kinds \in K, Here(entry, slots) \subseteq T,
           \A i \in DOMAIN ks : ~SameKey(ks[i], entry), Here(entry, slots) # {}
    PROVE  WithEntry(ks, entry, slots) =
               Append(ks, [level |-> entry.level, kinds |-> entry.kinds, targets |-> Here(entry, slots)])
BY WithEntryIs, SMTT(30)

(* What an entry leaves of the keys, and adds to them.                     *)
Gives(ks, level, kinds, t) == \E i \in DOMAIN ks : ks[i].level = level /\ ks[i].kinds = kinds /\ t \in ks[i].targets

LEMMA WithEntryKeeps ==
    ASSUME NEW L, NEW K, NEW T, NEW ks \in Seq(KeySet(L, K, T)), Distinct(ks), NonEmpty(ks),
           NEW slots, NEW entry, entry.level \in L, entry.kinds \in K, Here(entry, slots) \subseteq T
    PROVE  LET new == WithEntry(ks, entry, slots)
           IN  /\ new \in Seq(KeySet(L, K, T)) /\ Distinct(new) /\ NonEmpty(new)
               /\ \A level, kinds, t :
                      Gives(new, level, kinds, t) <=>
                          \/ Gives(ks, level, kinds, t)
                          \/ level = entry.level /\ kinds = entry.kinds /\ t \in Here(entry, slots)
<1> DEFINE new == WithEntry(ks, entry, slots)
           here == Here(entry, slots)
           Goal == /\ new \in Seq(KeySet(L, K, T)) /\ Distinct(new) /\ NonEmpty(new)
                   /\ \A level, kinds, t :
                          Gives(new, level, kinds, t) <=>
                              \/ Gives(ks, level, kinds, t)
                              \/ level = entry.level /\ kinds = entry.kinds /\ t \in here
<1>1. ASSUME NEW i \in DOMAIN ks, SameKey(ks[i], entry),
             new = [ks EXCEPT ![i] = [level |-> ks[i].level, kinds |-> ks[i].kinds,
                                      targets |-> ks[i].targets \cup here]]
      PROVE  Goal
  <2>0. here \subseteq T
    OBVIOUS
  <2> HIDE DEF new, here
  <2>1. ks[i] \in KeySet(L, K, T) /\ i \in 1 .. Len(ks)
    OBVIOUS
  <2> DEFINE key == [level |-> ks[i].level, kinds |-> ks[i].kinds, targets |-> ks[i].targets \cup here]
  <2>2. key \in KeySet(L, K, T)
    BY <2>0, <2>1 DEF KeySet
  <2>4. new = [ks EXCEPT ![i] = key]
    BY <1>1
  <2>5. /\ new \in Seq(KeySet(L, K, T)) /\ Len(new) = Len(ks)
        /\ \A j \in 1 .. Len(ks) : new[j] = IF j = i THEN key ELSE ks[j]
    <3> HIDE DEF key
    <3> QED BY <2>1, <2>2, <2>4, ExceptSeq
  <2>6. DOMAIN new = DOMAIN ks /\ \A j \in DOMAIN ks : new[j] = IF j = i THEN key ELSE ks[j]
    <3> HIDE DEF key
    <3> QED BY <2>5
  <2>k. key.level = ks[i].level /\ key.kinds = ks[i].kinds /\ key.targets = ks[i].targets \cup here
    OBVIOUS
  <2> HIDE DEF key
  <2>7. \A j \in DOMAIN ks : /\ new[j].level = ks[j].level /\ new[j].kinds = ks[j].kinds
                             /\ new[j].targets = IF j = i THEN ks[i].targets \cup here ELSE ks[j].targets
    BY <2>6, <2>k
  <2>8. Distinct(new)
    <3> SUFFICES ASSUME NEW j \in DOMAIN ks, NEW k \in DOMAIN ks, SameKey(new[j], new[k]) PROVE j = k
      BY <2>6 DEF Distinct
    <3>1. SameKey(ks[j], ks[k])
      BY <2>7 DEF SameKey
    <3> QED BY <3>1 DEF Distinct
  <2>9. NonEmpty(new)
    BY <2>6, <2>7 DEF NonEmpty
  <2>10. ASSUME NEW level, NEW kinds, NEW t
         PROVE  Gives(new, level, kinds, t) <=>
                    \/ Gives(ks, level, kinds, t)
                    \/ level = entry.level /\ kinds = entry.kinds /\ t \in here
    <3>1. Gives(new, level, kinds, t) <=>
              \E j \in DOMAIN ks : /\ ks[j].level = level /\ ks[j].kinds = kinds
                                   /\ t \in ks[j].targets \/ (j = i /\ t \in here)
      BY <2>6, <2>7 DEF Gives
    <3> QED BY <3>1, <1>1 DEF Gives, SameKey
  <2> QED BY <2>5, <2>8, <2>9, <2>10
<1>2. ASSUME \A i \in DOMAIN ks : ~SameKey(ks[i], entry), here = {}, new = ks
      PROVE  Goal
  <2> HIDE DEF new, here
  <2> QED BY <1>2
<1>3. ASSUME \A i \in DOMAIN ks : ~SameKey(ks[i], entry), here # {},
             new = Append(ks, [level |-> entry.level, kinds |-> entry.kinds, targets |-> here])
      PROVE  Goal
  <2>0. here \subseteq T
    OBVIOUS
  <2> HIDE DEF new, here
  <2> DEFINE key == [level |-> entry.level, kinds |-> entry.kinds, targets |-> here]
             n == Len(ks) + 1
  <2>1. key \in KeySet(L, K, T)
    BY <2>0 DEF KeySet
  <2>2. /\ new \in Seq(KeySet(L, K, T)) /\ Len(new) = n /\ Len(ks) \in Nat
        /\ \A j \in 1 .. Len(ks) : new[j] = ks[j]
        /\ new[n] = key
    <3> HIDE DEF key
    <3> QED BY <2>1, <1>3, AppendProperties DEF key
  <2>3. /\ DOMAIN new = 1 .. n /\ DOMAIN ks = 1 .. Len(ks)
        /\ \A j \in DOMAIN new : j \in DOMAIN ks \/ j = n
        /\ n \in DOMAIN new /\ n \notin DOMAIN ks /\ DOMAIN ks \subseteq DOMAIN new
    BY <2>2
  <2>4. \A j \in DOMAIN ks : new[j] = ks[j]
    BY <2>2
  <2>5. new[n].level = entry.level /\ new[n].kinds = entry.kinds /\ new[n].targets = here
    BY <2>2
  <2> HIDE DEF key, n
  <2>6. \A j \in DOMAIN ks : ~SameKey(new[j], new[n]) /\ ~SameKey(new[n], new[j])
    BY <1>3, <2>4, <2>5 DEF SameKey
  <2>7. Distinct(new)
    BY <2>3, <2>4, <2>6 DEF Distinct
  <2>8. NonEmpty(new)
    BY <1>3, <2>3, <2>4, <2>5 DEF NonEmpty
  <2>9. ASSUME NEW level, NEW kinds, NEW t
        PROVE  Gives(new, level, kinds, t) <=>
                   \/ Gives(ks, level, kinds, t)
                   \/ level = entry.level /\ kinds = entry.kinds /\ t \in here
    BY <2>3, <2>4, <2>5 DEF Gives
  <2> QED BY <2>2, <2>7, <2>8, <2>9
<1>4. \/ \E i \in DOMAIN ks :
             /\ SameKey(ks[i], entry)
             /\ new = [ks EXCEPT ![i] = [level |-> ks[i].level, kinds |-> ks[i].kinds,
                                         targets |-> ks[i].targets \cup here]]
      \/ /\ \A i \in DOMAIN ks : ~SameKey(ks[i], entry)
         /\ new = IF here = {} THEN ks
                  ELSE Append(ks, [level |-> entry.level, kinds |-> entry.kinds, targets |-> here])
  <2> HIDE DEF Goal
  <2> QED BY WithEntryIs, SMTT(30)
<1> HIDE DEF new, here, Goal
<1>5. Goal
  BY <1>1, <1>2, <1>3, <1>4
<1> QED BY <1>5 DEF new, here, Goal

-----------------------------------------------------------------------------
(* All entries.                                                            *)

StepsOf(after, ks, entries, slots) ==
    /\ after[0] = ks
    /\ \A n \in 0 .. Len(entries) : n + 1 \in 0 .. Len(entries) =>
           after[n + 1] = WithEntry(after[n], entries[n + 1], slots)
    /\ WithEntries(ks, entries, slots) = after[Len(entries)]

(* The recursive function of WithEntries is one: each value is that after  *)
(* one entry more.                                                         *)
LEMMA WithEntriesSteps ==
    ASSUME NEW ks, NEW entries, IsASequence(entries), NEW slots
    PROVE  \E after : StepsOf(after, ks, entries, slots)
<1> DEFINE Steps(f, n) == f = [m \in 0 .. n |-> IF m = 0 THEN ks ELSE WithEntry(f[m - 1], entries[m], slots)]
           defined == {n \in Nat : \E f : Steps(f, n)}
           len == Len(entries)
<1>0. len \in Nat
  BY DEF IsASequence
<1>1. 0 \in defined
  <2>1. Steps([m \in 0 .. 0 |-> ks], 0)
    OBVIOUS
  <2> QED BY <2>1
<1>2. ASSUME NEW n \in defined PROVE n + 1 \in defined
  <2>1. PICK f : Steps(f, n)
    OBVIOUS
  <2> DEFINE g == [m \in 0 .. (n + 1) |-> IF m = n + 1 THEN WithEntry(f[n], entries[n + 1], slots) ELSE f[m]]
  <2>2. n \in Nat
    OBVIOUS
  <2>3. ASSUME NEW m \in 0 .. (n + 1)
        PROVE  g[m] = IF m = 0 THEN ks ELSE WithEntry(g[m - 1], entries[m], slots)
    <3>1. CASE m = n + 1
      BY <2>2, <3>1
    <3>2. CASE m = 0
      BY <2>1, <2>2, <3>2
    <3>3. CASE m # 0 /\ m # n + 1
      <4>1. m \in 0 .. n /\ m - 1 \in 0 .. n /\ m - 1 # n + 1 /\ m - 1 \in 0 .. (n + 1)
        BY <2>2, <3>3
      <4>2. f[m] = WithEntry(f[m - 1], entries[m], slots)
        BY <2>1, <3>3, <4>1
      <4>3. g[m] = f[m] /\ g[m - 1] = f[m - 1]
        BY <3>3, <4>1
      <4> QED BY <3>3, <4>2, <4>3
    <3> QED BY <3>1, <3>2, <3>3
  <2>4. Steps(g, n + 1) /\ n + 1 \in Nat
    BY <2>2, <2>3
  <2> HIDE DEF g, Steps
  <2> QED BY <2>4, Zenon
<1>3. len \in defined
  <2>1. defined \in SUBSET Nat /\ len \in 0 .. len
    BY <1>0
  <2> HIDE DEF defined, len
  <2> QED BY <1>0, <1>1, <1>2, <2>1, InductionUpTo
<1> DEFINE after == CHOOSE f : Steps(f, len)
<1>4. Steps(after, len)
  BY <1>3
<1>5. WithEntries(ks, entries, slots) = after[len]
  BY DEF WithEntries
<1>6. after[0] = ks
  <2> HIDE DEF after
  <2> QED BY <1>0, <1>4
<1>7. \A n \in 0 .. len : n + 1 \in 0 .. len => after[n + 1] = WithEntry(after[n], entries[n + 1], slots)
  <2> HIDE DEF after
  <2>1. ASSUME NEW n \in 0 .. len, n + 1 \in 0 .. len
        PROVE  after[n + 1] = WithEntry(after[n], entries[n + 1], slots)
    <3>1. n + 1 # 0 /\ (n + 1) - 1 = n
      BY <1>0
    <3> QED BY <1>4, <2>1, <3>1
  <2> QED BY <2>1
<1> HIDE DEF after
<1> QED BY <1>5, <1>6, <1>7 DEF StepsOf

(* Any number of entries: keys stay distinct and keep their targets, and   *)
(* give what they gave and what the entries give.                          *)
THEOREM WithEntriesAre ==
    ASSUME NEW L, NEW K, NEW T, NEW ks \in Seq(KeySet(L, K, T)), Distinct(ks), NonEmpty(ks),
           NEW slots, NEW entries, IsASequence(entries),
           \A n \in DOMAIN entries :
               /\ entries[n].level \in L /\ entries[n].kinds \in K
               /\ Here(entries[n], slots) \subseteq T
    PROVE  LET new == WithEntries(ks, entries, slots)
           IN  /\ new \in Seq(KeySet(L, K, T)) /\ Distinct(new) /\ NonEmpty(new)
               /\ \A level, kinds, t :
                      Gives(new, level, kinds, t) <=>
                          \/ Gives(ks, level, kinds, t)
                          \/ \E n \in DOMAIN entries :
                                 /\ level = entries[n].level /\ kinds = entries[n].kinds
                                 /\ t \in Here(entries[n], slots)
<1> DEFINE len == Len(entries)
           Good(new, n) ==
               /\ new \in Seq(KeySet(L, K, T)) /\ Distinct(new) /\ NonEmpty(new)
               /\ \A level, kinds, t :
                      Gives(new, level, kinds, t) <=>
                          \/ Gives(ks, level, kinds, t)
                          \/ \E m \in 1 .. n :
                                 /\ level = entries[m].level /\ kinds = entries[m].kinds
                                 /\ t \in Here(entries[m], slots)
<1>0. len \in Nat /\ Len(entries) = len /\ DOMAIN entries = 1 .. len
  BY DEF IsASequence
<1>s. PICK after : StepsOf(after, ks, entries, slots)
  BY WithEntriesSteps
<1>1. /\ after[0] = ks
      /\ \A n \in 0 .. len : n + 1 \in 0 .. len => after[n + 1] = WithEntry(after[n], entries[n + 1], slots)
      /\ WithEntries(ks, entries, slots) = after[len]
  BY <1>0, <1>s DEF StepsOf
<1> DEFINE good == {n \in 0 .. len : Good(after[n], n)}
<1> HIDE DEF len
<1>2. 0 \in good
  <2>1. \A m : m \notin 1 .. 0
    OBVIOUS
  <2> QED BY <1>0, <1>1, <2>1
<1>3. ASSUME NEW n \in good, n < len PROVE n + 1 \in good
  <2>1. n \in 0 .. len /\ n + 1 \in 0 .. len /\ n + 1 \in 1 .. len /\ Good(after[n], n)
    BY <1>0, <1>3
  <2>2. after[n + 1] = WithEntry(after[n], entries[n + 1], slots)
    BY <1>0, <1>1, <2>1
  <2> DEFINE old == after[n]
             entry == entries[n + 1]
             new == WithEntry(old, entry, slots)
  <2>3. entry.level \in L /\ entry.kinds \in K /\ Here(entry, slots) \subseteq T
    BY <1>0, <2>1
  <2>4. /\ new \in Seq(KeySet(L, K, T)) /\ Distinct(new) /\ NonEmpty(new)
        /\ \A level, kinds, t :
               Gives(new, level, kinds, t) <=>
                   \/ Gives(old, level, kinds, t)
                   \/ level = entry.level /\ kinds = entry.kinds /\ t \in Here(entry, slots)
    <3>1. old \in Seq(KeySet(L, K, T)) /\ Distinct(old) /\ NonEmpty(old)
      BY <2>1
    <3> HIDE DEF old, entry
    <3> QED BY <2>3, <3>1, WithEntryKeeps
  <2>5. \A m : m \in 1 .. (n + 1) <=> m \in 1 .. n \/ m = n + 1
    BY <1>0, <2>1
  <2>6. Good(new, n + 1)
    <3>1. ASSUME NEW level, NEW kinds, NEW t
          PROVE  Gives(new, level, kinds, t) <=>
                     \/ Gives(ks, level, kinds, t)
                     \/ \E m \in 1 .. (n + 1) :
                            /\ level = entries[m].level /\ kinds = entries[m].kinds
                            /\ t \in Here(entries[m], slots)
      <4>1. Gives(old, level, kinds, t) <=>
                     \/ Gives(ks, level, kinds, t)
                     \/ \E m \in 1 .. n :
                            /\ level = entries[m].level /\ kinds = entries[m].kinds
                            /\ t \in Here(entries[m], slots)
        BY <2>1
      <4> HIDE DEF new, old
      <4> QED BY <2>4, <2>5, <4>1
    <3> HIDE DEF new
    <3> QED BY <2>4, <3>1
  <2>7. Good(after[n + 1], n + 1)
    BY <2>2, <2>6
  <2> HIDE DEF Good, new, old, entry
  <2> QED BY <2>1, <2>7
<1>4. len \in good
  <2>1. good \in SUBSET Nat /\ len \in 0 .. len
    BY <1>0
  <2> HIDE DEF good
  <2> QED BY <1>0, <1>2, <1>3, <2>1, InductionUpTo
<1>5. Good(WithEntries(ks, entries, slots), len)
  <2> HIDE DEF Good
  <2> QED BY <1>0, <1>1, <1>4
<1> QED BY <1>0, <1>5

(* One entry for each key, with its level, its kinds and its targets.      *)
EntriesFor(ks, entries, slots) ==
    /\ IsASequence(entries) /\ Len(entries) = Len(ks)
    /\ \A n \in DOMAIN entries :
           SameKey(ks[n], entries[n]) /\ Here(entries[n], slots) = ks[n].targets

(* Entries that give to the targets of distinct keys make those keys.      *)
THEOREM WithEntriesOf ==
    ASSUME NEW L, NEW K, NEW T, NEW ks \in Seq(KeySet(L, K, T)), Distinct(ks), NonEmpty(ks),
           NEW slots, NEW entries, EntriesFor(ks, entries, slots)
    PROVE  WithEntries(<<>>, entries, slots) = ks
<1> DEFINE len == Len(ks)
           Prefix(n) == SubSeq(ks, 1, n)
<1>0. len \in Nat /\ Len(entries) = len /\ DOMAIN entries = 1 .. len /\ DOMAIN ks = 1 .. len
  BY DEF IsASequence, EntriesFor
<1>s. PICK after : StepsOf(after, <<>>, entries, slots)
  BY WithEntriesSteps DEF EntriesFor
<1>1. /\ after[0] = <<>>
      /\ \A n \in 0 .. len : n + 1 \in 0 .. len => after[n + 1] = WithEntry(after[n], entries[n + 1], slots)
      /\ WithEntries(<<>>, entries, slots) = after[len]
  BY <1>0, <1>s DEF StepsOf
<1> HIDE DEF len
<1>p. ASSUME NEW n \in 0 .. len
      PROVE  /\ Prefix(n) \in Seq(KeySet(L, K, T)) /\ Len(Prefix(n)) = n
             /\ \A i \in 1 .. n : Prefix(n)[i] = ks[i]
  <2>1. \A i \in 1 .. n : ks[i] \in KeySet(L, K, T) /\ 1 + i - 1 = i
    BY <1>0 DEF len
  <2> QED BY <1>0, <2>1, SubSeqProperties
<1> DEFINE good == {n \in 0 .. len : after[n] = Prefix(n)}
<1>2. 0 \in good
  <2>1. Prefix(0) = <<>>
    BY SubSeqEmpty
  <2> HIDE DEF Prefix
  <2> QED BY <1>0, <1>1, <2>1
<1>3. ASSUME NEW n \in good, n < len PROVE n + 1 \in good
  <2>1. n \in 0 .. len /\ n + 1 \in 0 .. len /\ n + 1 \in 1 .. len /\ after[n] = Prefix(n)
    BY <1>0, <1>3
  <2> DEFINE old == Prefix(n)
             entry == entries[n + 1]
             key == ks[n + 1]
  <2>2. /\ old \in Seq(KeySet(L, K, T)) /\ Len(old) = n /\ DOMAIN old = 1 .. n
        /\ \A i \in 1 .. n : old[i] = ks[i]
    BY <1>p, <2>1
  <2>3. key \in KeySet(L, K, T) /\ SameKey(key, entry) /\ Here(entry, slots) = key.targets /\ key.targets # {}
    BY <1>0, <2>1 DEF NonEmpty, len, EntriesFor
  <2>4. \A i \in DOMAIN old : ~SameKey(old[i], entry)
    <3> SUFFICES ASSUME NEW i \in 1 .. n, SameKey(ks[i], entry) PROVE FALSE
      BY <2>2
    <3>1. i \in DOMAIN ks /\ n + 1 \in DOMAIN ks /\ i # n + 1
      BY <1>0, <2>1
    <3>2. SameKey(ks[i], ks[n + 1])
      BY <2>3 DEF SameKey
    <3> QED BY <3>1, <3>2 DEF Distinct
  <2>5. NonEmpty(old)
    <3>1. 1 .. n \subseteq DOMAIN ks
      BY <1>0, <2>1
    <3> HIDE DEF old
    <3> QED BY <2>2, <3>1 DEF NonEmpty
  <2>6. entry.level \in L /\ entry.kinds \in K /\ Here(entry, slots) \subseteq T
    <3> HIDE DEF key, entry
    <3> QED BY <2>3 DEF SameKey, KeySet
  <2>7. WithEntry(old, entry, slots) =
            Append(old, [level |-> entry.level, kinds |-> entry.kinds, targets |-> Here(entry, slots)])
    <3>1. old \in Seq(KeySet(L, K, T)) /\ Here(entry, slots) # {}
      BY <2>2, <2>3
    <3> HIDE DEF old, key, entry
    <3> QED BY <2>4, <2>5, <2>6, <3>1, WithEntryNew
  <2>8. [level |-> entry.level, kinds |-> entry.kinds, targets |-> Here(entry, slots)] = key
    <3> HIDE DEF key, entry
    <3> QED BY <2>3 DEF SameKey, KeySet
  <2>9. Append(old, key) = Prefix(n + 1)
    <3>1. /\ Append(old, key) \in Seq(KeySet(L, K, T)) /\ Len(Append(old, key)) = n + 1
          /\ \A i \in 1 .. n : Append(old, key)[i] = old[i]
          /\ Append(old, key)[n + 1] = key
      <4> HIDE DEF old, key
      <4>1. old \in Seq(KeySet(L, K, T)) /\ key \in KeySet(L, K, T) /\ Len(old) = n
        BY <2>2, <2>3
      <4>2. Append(old, key) \in Seq(KeySet(L, K, T)) /\ Len(Append(old, key)) = n + 1
        BY <4>1, AppendProperties
      <4>3. \A i \in 1 .. n : Append(old, key)[i] = old[i]
        BY <4>1, AppendProperties
      <4>4. Append(old, key)[n + 1] = key
        BY <4>1, AppendProperties
      <4> QED BY <4>2, <4>3, <4>4
    <3>2. /\ Prefix(n + 1) \in Seq(KeySet(L, K, T)) /\ Len(Prefix(n + 1)) = n + 1
          /\ \A i \in 1 .. (n + 1) : Prefix(n + 1)[i] = ks[i]
      BY <1>p, <2>1
    <3>3. \A i \in 1 .. (n + 1) : Append(old, key)[i] = Prefix(n + 1)[i]
      <4> HIDE DEF old, Prefix
      <4> QED BY <1>0, <2>1, <2>2, <3>1, <3>2
    <3> HIDE DEF old, key, Prefix
    <3> QED BY <3>1, <3>2, <3>3, SeqEqual
  <2>10. after[n + 1] = Prefix(n + 1)
    BY <1>0, <1>1, <2>1, <2>7, <2>8, <2>9
  <2> HIDE DEF Prefix
  <2> QED BY <2>1, <2>10
<1>4. len \in good
  <2>1. good \in SUBSET Nat /\ len \in 0 .. len
    BY <1>0
  <2> HIDE DEF good
  <2> QED BY <1>0, <1>2, <1>3, <2>1, InductionUpTo
<1>5. Prefix(len) = ks
  BY SubSeqFull DEF len
<1> QED BY <1>0, <1>1, <1>4, <1>5

=============================================================================
