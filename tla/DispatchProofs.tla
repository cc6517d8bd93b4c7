--------------------------- MODULE DispatchProofs ---------------------------
(* Theorems about module Dispatch, for any configurations, levels and      *)
(* kinds, and any number of operations.                                    *)
EXTENDS Dispatch, RulesProofs

(* The fallback target is there once a configuration that asks for it has  *)
(* been started, and Write_log reports what it did with it.                *)
FallbackInv ==
    /\ configured \in [use_fallback : BOOLEAN, started : BOOLEAN]
    /\ configured.use_fallback => use_fallback
    /\ configured.use_fallback /\ configured.started => fallback
    /\ FailedFallsBack

LEMMA FallbackInit == Init => FallbackInv
BY DEF Init, FallbackInv, FailedFallsBack, NoRecord

LEMMA FallbackNext == FallbackInv /\ [Next]_vars => FallbackInv'
<1> SUFFICES ASSUME FallbackInv, [Next]_vars PROVE FallbackInv'
  OBVIOUS
<1>o. ASSUME last' = NoRecord PROVE FailedFallsBack'
  BY <1>o DEF FailedFallsBack, NoRecord
<1>1. CASE Configure
  <2>1. PICK config \in Configs :
            /\ configured' = [use_fallback |-> config.use_fallback, started |-> FALSE]
            /\ use_fallback' = config.use_fallback
            /\ last' = NoRecord
    BY <1>1 DEF Configure, Operation
  <2>2. config.use_fallback \in BOOLEAN
    BY ConfigsAssumption
  <2>3. FailedFallsBack'
    BY <2>1, <1>o
  <2> QED BY <2>1, <2>2, <2>3 DEF FallbackInv
<1>2. CASE Add_target
  <2>1. UNCHANGED <<use_fallback, fallback, configured>> /\ last' = NoRecord
    BY <1>2 DEF Add_target, Operation
  <2>2. FailedFallsBack'
    BY <2>1, <1>o
  <2> QED BY <2>1, <2>2 DEF FallbackInv
<1>3. CASE Start
  <2>1. PICK throwing \in SUBSET MayFail(targets) :
            /\ fallback' = (fallback \/ use_fallback \/ throwing # {})
            /\ use_fallback' = (use_fallback \/ throwing # {})
            /\ configured' = [configured EXCEPT !.started = TRUE]
            /\ last' = NoRecord
    BY <1>3 DEF Start, Operation, FallbackAfter
  <2>2. /\ configured' \in [use_fallback : BOOLEAN, started : BOOLEAN]
        /\ configured'.use_fallback = configured.use_fallback
    BY <2>1 DEF FallbackInv
  <2>3. FailedFallsBack'
    BY <2>1, <1>o
  <2>4. configured.use_fallback => use_fallback
    BY DEF FallbackInv
  <2> QED BY <2>1, <2>2, <2>3, <2>4 DEF FallbackInv
<1>4. CASE Reconfigure
  <2>a. PICK config \in Configs :
            \E throwing \in SUBSET MayFail(Configured(<<>>, <<>>, config).targets) :
                /\ fallback' = ((fallback /\ config.use_fallback) \/ config.use_fallback \/ throwing # {})
                /\ use_fallback' = (config.use_fallback \/ throwing # {})
                /\ configured' = [use_fallback |-> config.use_fallback, started |-> TRUE]
                /\ last' = NoRecord
    BY <1>4 DEF Reconfigure, Operation, FallbackAfter
  <2>1. PICK throwing \in SUBSET MayFail(Configured(<<>>, <<>>, config).targets) :
            /\ fallback' = ((fallback /\ config.use_fallback) \/ config.use_fallback \/ throwing # {})
            /\ use_fallback' = (config.use_fallback \/ throwing # {})
            /\ configured' = [use_fallback |-> config.use_fallback, started |-> TRUE]
            /\ last' = NoRecord
    BY <2>a
  <2>2. config.use_fallback \in BOOLEAN
    BY ConfigsAssumption
  <2>3. FailedFallsBack'
    BY <2>1, <1>o
  <2> QED BY <2>1, <2>2, <2>3 DEF FallbackInv
<1>5. CASE Write_log
  <2>1. last'.fell = IF fallback THEN last'.failing ELSE {}
    BY <1>5 DEF Write_log
  <2>2. UNCHANGED <<use_fallback, fallback, configured>>
    BY <1>5 DEF Write_log, registry
  <2>3. FailedFallsBack'
    BY <2>1, <2>2 DEF FallbackInv, FailedFallsBack
  <2> QED BY <2>2, <2>3 DEF FallbackInv
<1>6. CASE UNCHANGED vars
  BY <1>6 DEF vars, registry, FallbackInv, FailedFallsBack
<1> QED BY <1>1, <1>2, <1>3, <1>4, <1>5, <1>6 DEF Next

(* A configuration with the fallback, once started, loses nothing that a   *)
(* target fails to write.                                                  *)
THEOREM NothingIsLost == Spec => []FailedFallsBack
<1>1. FallbackInv => FailedFallsBack
  BY DEF FallbackInv
<1> QED BY <1>1, FallbackInit, FallbackNext, PTL DEF Spec

-----------------------------------------------------------------------------
(* Slots, keys and configurations, of any registry.                        *)

NamesOfAdded == {target.name : target \in AddedTargets}
AllNames == (UNION {NamesOf(config.targets) : config \in Configs}) \cup NamesOfAdded

SlotSet == [name : AllNames, type : Types, target : Nat, maintained : BOOLEAN]

(* Targets are numbered in the order in which they were made.              *)
SlotsOK(slots, count) ==
    /\ slots \in Seq(SlotSet) /\ count \in Nat
    /\ \A i \in DOMAIN slots : slots[i].target \in 1 .. count
    /\ \A i, j \in DOMAIN slots : slots[i].target = slots[j].target => i = j

(* A target of a key is that of a slot.                                    *)
KeysOK(ks, slots) ==
    /\ ks \in Seq(KeySet(Levels, SUBSET Kinds, Nat))
    /\ Distinct(ks) /\ NonEmpty(ks)
    /\ \A k \in DOMAIN ks : \A t \in ks[k].targets : \E i \in DOMAIN slots : slots[i].target = t

ConfigOK(config) ==
    /\ IsASequence(config.targets) /\ IsASequence(config.dispatch)
    /\ \A i \in DOMAIN config.targets :
           config.targets[i].type \in Types /\ config.targets[i].name \in AllNames
    /\ \A i \in DOMAIN config.dispatch :
           config.dispatch[i].level \in Levels /\ config.dispatch[i].kinds \in SUBSET Kinds

(* The rules that keys stand for.                                          *)
Linked(ks, slots, level, kinds, name) ==
    \E t : /\ Gives(ks, level, kinds, t)
           /\ \E i \in DOMAIN slots : slots[i].target = t /\ slots[i].name = name

Ruled(config, slots, level, kinds, name) ==
    \E n \in DOMAIN config.dispatch :
        /\ config.dispatch[n].level = level /\ config.dispatch[n].kinds = kinds
        /\ name \in config.dispatch[n].targets \cap NamesOf(slots)

LEMMA ConfigsOK == \A config \in Configs : ConfigOK(config) /\ config.use_fallback \in BOOLEAN
BY ConfigsAssumption DEF ConfigOK, AllNames, NamesOf

(* Made by Configure and not yet set up.                                   *)
Fresh(slot) == slot.maintained = FALSE /\ slot.type # "unknown"

(* Slots stay, and those behind them are fresh and have the next targets.  *)
Extended(new, slots, number) ==
    /\ \A i \in DOMAIN slots : i \in DOMAIN new /\ new[i] = slots[i]
    /\ \A i \in DOMAIN new : i \notin DOMAIN slots =>
           new[i].target = number + (i - Len(slots)) /\ Fresh(new[i])

OneMade(new, slots, number, config) ==
    /\ new \in Seq(SlotSet) /\ Len(new) \in {Len(slots), Len(slots) + 1}
    /\ \A i \in 1 .. Len(slots) : new[i] = slots[i]
    /\ Len(new) = Len(slots) + 1 =>
           new[Len(slots) + 1].target = number /\ Fresh(new[Len(slots) + 1])
    /\ NamesOf(new) = NamesOf(slots) \cup (IF config.type = "unknown" THEN {} ELSE {config.name})

LEMMA WithTargetIs ==
    ASSUME NEW slots \in Seq(SlotSet), NEW number \in Nat, NEW config,
           config.type \in Types, config.name \in AllNames
    PROVE  OneMade(WithTarget(slots, number, config), slots, number, config)
<1> DEFINE slot == [name |-> config.name, type |-> config.type, target |-> number, maintained |-> FALSE]
           new == Append(slots, slot)
<1>1. CASE config.type = "unknown"
  <2>1. WithTarget(slots, number, config) = slots
    BY <1>1 DEF WithTarget
  <2> QED BY <1>1, <2>1 DEF OneMade
<1>2. CASE config.type # "unknown"
  <2>1. WithTarget(slots, number, config) = new
    BY <1>2 DEF WithTarget
  <2>2. slot \in SlotSet
    BY <1>2 DEF SlotSet, Types
  <2>3. slot.target = number /\ Fresh(slot) /\ slot.name = config.name
    BY <1>2 DEF Fresh
  <2> HIDE DEF slot
  <2>4. /\ new \in Seq(SlotSet) /\ Len(new) = Len(slots) + 1 /\ Len(slots) \in Nat
        /\ \A i \in 1 .. Len(slots) : new[i] = slots[i]
        /\ new[Len(slots) + 1] = slot
    BY <2>2, AppendProperties
  <2> HIDE DEF new
  <2>5. DOMAIN new = DOMAIN slots \cup {Len(slots) + 1} /\ DOMAIN slots = 1 .. Len(slots)
    BY <2>4
  <2>6. NamesOf(new) = NamesOf(slots) \cup {config.name}
    BY <2>3, <2>4, <2>5 DEF NamesOf
  <2> QED BY <1>2, <2>1, <2>3, <2>4, <2>6 DEF OneMade
<1> QED BY <1>1, <1>2

MadeFrom(after, slots, count, configs) ==
    /\ after[0] = slots
    /\ \A i \in 0 .. Len(configs) : i + 1 \in 0 .. Len(configs) =>
           after[i + 1] = WithTarget(after[i], count + 1 + (Len(after[i]) - Len(slots)), configs[i + 1])
    /\ WithTargets(slots, count, configs) = after[Len(configs)]

(* The recursive function of WithTargets is one.                           *)
LEMMA WithTargetsSteps ==
    ASSUME NEW slots, NEW count, NEW configs, IsASequence(configs)
    PROVE  \E after : MadeFrom(after, slots, count, configs)
<1> DEFINE Succ(f, i) == WithTarget(f[i - 1], count + 1 + (Len(f[i - 1]) - Len(slots)), configs[i])
           Steps(f, n) == f = [i \in 0 .. n |-> IF i = 0 THEN slots ELSE Succ(f, i)]
           defined == {n \in Nat : \E f : Steps(f, n)}
           len == Len(configs)
<1>0. len \in Nat
  BY DEF IsASequence
<1>1. 0 \in defined
  <2>1. Steps([i \in 0 .. 0 |-> slots], 0)
    OBVIOUS
  <2> QED BY <2>1
<1>2. ASSUME NEW n \in defined PROVE n + 1 \in defined
  <2>1. PICK f : Steps(f, n)
    OBVIOUS
  <2> DEFINE g == [i \in 0 .. (n + 1) |-> IF i = n + 1 THEN Succ(f, n + 1) ELSE f[i]]
  <2>2. n \in Nat
    OBVIOUS
  <2>3. ASSUME NEW i \in 0 .. (n + 1)
        PROVE  g[i] = IF i = 0 THEN slots ELSE Succ(g, i)
    <3>1. CASE i = n + 1
      <4>1. g[i] = Succ(f, n + 1) /\ i - 1 \in 0 .. (n + 1) /\ g[i - 1] = f[i - 1]
        BY <2>2, <3>1
      <4> QED BY <2>2, <3>1, <4>1
    <3>2. CASE i = 0
      BY <2>1, <2>2, <3>2
    <3>3. CASE i # 0 /\ i # n + 1
      <4>1. i \in 0 .. n /\ i - 1 \in 0 .. n /\ i - 1 # n + 1 /\ i - 1 \in 0 .. (n + 1)
        BY <2>2, <3>3
      <4>2. f[i] = Succ(f, i)
        BY <2>1, <3>3, <4>1
      <4>3. g[i] = f[i] /\ g[i - 1] = f[i - 1]
        BY <3>3, <4>1
      <4> QED BY <3>3, <4>2, <4>3
    <3> QED BY <3>1, <3>2, <3>3
  <2>4. Steps(g, n + 1) /\ n + 1 \in Nat
    BY <2>2, <2>3
  <2> HIDE DEF g, Steps
  <2> QED BY <2>4, Zenon
<1>3. len \in defined
  <2>1. defined \in SUBSET Nat /\ len \in 0 .. len
    BY <1>0
  <2> HIDE DEF defined, len
  <2> QED BY <1>0, <1>1, <1>2, <2>1, InductionUpTo
<1> DEFINE after == CHOOSE f : Steps(f, len)
<1>4. Steps(after, len)
  BY <1>3
<1>5. WithTargets(slots, count, configs) = after[len]
  BY DEF WithTargets
<1>6. after[0] = slots
  <2> HIDE DEF after
  <2> QED BY <1>0, <1>4
<1>7. ASSUME NEW i \in 0 .. len, i + 1 \in 0 .. len
      PROVE  after[i + 1] = WithTarget(after[i], count + 1 + (Len(after[i]) - Len(slots)), configs[i + 1])
  <2> HIDE DEF after
  <2>1. i + 1 # 0 /\ (i + 1) - 1 = i
    BY <1>0
  <2> QED BY <1>4, <1>7, <2>1
<1> HIDE DEF after
<1> QED BY <1>5, <1>6, <1>7 DEF MadeFrom

(* WithTargets keeps the slots, numbers the new ones on, and has their     *)
(* names.                                                                  *)
LEMMA WithTargetsAre ==
    ASSUME NEW slots, NEW count, SlotsOK(slots, count), NEW configs, IsASequence(configs),
           \A i \in DOMAIN configs : configs[i].type \in Types /\ configs[i].name \in AllNames
    PROVE  LET new == WithTargets(slots, count, configs)
           IN  /\ SlotsOK(new, count + (Len(new) - Len(slots)))
               /\ Len(new) \in Nat /\ Len(slots) <= Len(new)
               /\ Extended(new, slots, count)
               /\ NamesOf(new) = NamesOf(slots) \cup
                      {configs[i].name : i \in {j \in DOMAIN configs : configs[j].type # "unknown"}}
<1> DEFINE len == Len(configs)
           old == Len(slots)
           Good(new, n) ==
               /\ new \in Seq(SlotSet) /\ old <= Len(new)
               /\ \A i \in 1 .. old : new[i] = slots[i]
               /\ \A i \in (old + 1) .. Len(new) :
                      new[i].target = count + (i - old) /\ Fresh(new[i])
               /\ NamesOf(new) = NamesOf(slots) \cup
                      {configs[i].name : i \in {j \in 1 .. n : configs[j].type # "unknown"}}
<1>0. len \in Nat /\ DOMAIN configs = 1 .. len /\ old \in Nat /\ count \in Nat /\ slots \in Seq(SlotSet)
      /\ DOMAIN slots = 1 .. old
  BY DEF IsASequence, SlotsOK
<1>s. PICK after : MadeFrom(after, slots, count, configs)
  BY WithTargetsSteps
<1>1. /\ after[0] = slots
      /\ \A i \in 0 .. len : i + 1 \in 0 .. len =>
             after[i + 1] = WithTarget(after[i], count + 1 + (Len(after[i]) - old), configs[i + 1])
      /\ WithTargets(slots, count, configs) = after[len]
  BY <1>s DEF MadeFrom
<1> HIDE DEF len, old
<1> DEFINE good == {n \in 0 .. len : Good(after[n], n)}
<1>2. 0 \in good
  <2>1. {configs[i].name : i \in {j \in 1 .. 0 : configs[j].type # "unknown"}} = {}
    OBVIOUS
  <2>2. Good(slots, 0)
    BY <1>0, <2>1 DEF old
  <2> HIDE DEF Good
  <2> QED BY <1>0, <1>1, <2>2
<1>3. ASSUME NEW n \in good, n < len PROVE n + 1 \in good
  <2>1. n \in 0 .. len /\ n + 1 \in 0 .. len /\ n + 1 \in 1 .. len /\ Good(after[n], n)
    BY <1>0, <1>3
  <2> DEFINE now == after[n]
             config == configs[n + 1]
             number == count + 1 + (Len(now) - old)
             new == WithTarget(now, number, config)
  <2>2. after[n + 1] = new
    BY <1>1, <2>1
  <2>3. config.type \in Types /\ config.name \in AllNames
    BY <1>0, <2>1
  <2>4. now \in Seq(SlotSet) /\ Len(now) \in Nat /\ old <= Len(now) /\ number \in Nat
    <3>1. now \in Seq(SlotSet) /\ old <= Len(now)
      BY <2>1
    <3> HIDE DEF now
    <3>2. Len(now) \in Nat /\ Len(now) - old \in Nat
      BY <1>0, <3>1
    <3> QED BY <1>0, <3>1, <3>2
  <2>5. /\ new \in Seq(SlotSet) /\ Len(new) \in {Len(now), Len(now) + 1}
        /\ \A i \in 1 .. Len(now) : new[i] = now[i]
        /\ Len(new) = Len(now) + 1 =>
               new[Len(now) + 1].target = number /\ Fresh(new[Len(now) + 1])
        /\ NamesOf(new) = NamesOf(now) \cup (IF config.type = "unknown" THEN {} ELSE {config.name})
    <3> HIDE DEF now, config, number
    <3>1. OneMade(new, now, number, config)
      BY <2>3, <2>4, WithTargetIs
    <3> HIDE DEF new
    <3> QED BY <3>1 DEF OneMade
  <2>6. Good(new, n + 1)
    <3>1. \A i \in 1 .. old : new[i] = slots[i]
      <4> SUFFICES ASSUME NEW i \in 1 .. old PROVE new[i] = slots[i]
        OBVIOUS
      <4>1. i \in 1 .. Len(now)
        <5> HIDE DEF now
        <5> QED BY <1>0, <2>4
      <4>2. now[i] = slots[i]
        BY <2>1
      <4> HIDE DEF new, now
      <4> QED BY <2>5, <4>1, <4>2
    <3>2. \A i \in (old + 1) .. Len(new) : new[i].target = count + (i - old) /\ Fresh(new[i])
      <4> SUFFICES ASSUME NEW i \in (old + 1) .. Len(new)
                   PROVE  new[i].target = count + (i - old) /\ Fresh(new[i])
        OBVIOUS
      <4>1. CASE i <= Len(now)
        <5>1. i \in 1 .. Len(now) /\ i \in (old + 1) .. Len(now)
          BY <1>0, <2>4, <4>1
        <5>2. new[i] = now[i]
          BY <2>5, <5>1
        <5> HIDE DEF new
        <5> QED BY <2>1, <5>1, <5>2
      <4>2. CASE i = Len(now) + 1
        <5>1. Len(new) = Len(now) + 1
          <6> HIDE DEF new, now
          <6> QED BY <1>0, <2>4, <2>5, <4>2
        <5>2. number = count + (i - old)
          <6> HIDE DEF new, now
          <6> QED BY <1>0, <2>4, <4>2
        <5> HIDE DEF new, number, now
        <5> QED BY <2>5, <4>2, <5>1, <5>2
      <4>3. i <= Len(now) \/ i = Len(now) + 1
        <5> HIDE DEF new, now
        <5> QED BY <1>0, <2>4, <2>5
      <4> QED BY <4>1, <4>2, <4>3
    <3>3. NamesOf(new) = NamesOf(slots) \cup
              {configs[i].name : i \in {j \in 1 .. (n + 1) : configs[j].type # "unknown"}}
      <4>1. \A j : j \in 1 .. (n + 1) <=> j \in 1 .. n \/ j = n + 1
        BY <1>0, <2>1
      <4>2. NamesOf(now) = NamesOf(slots) \cup
              {configs[i].name : i \in {j \in 1 .. n : configs[j].type # "unknown"}}
        BY <2>1
      <4>3. {configs[i].name : i \in {j \in 1 .. (n + 1) : configs[j].type # "unknown"}} =
                {configs[i].name : i \in {j \in 1 .. n : configs[j].type # "unknown"}}
                \cup (IF config.type = "unknown" THEN {} ELSE {config.name})
        BY <4>1
      <4> HIDE DEF now, config, new
      <4> QED BY <2>5, <4>2, <4>3
    <3>4. new \in Seq(SlotSet) /\ old <= Len(new)
      <4> HIDE DEF new, now
      <4> QED BY <1>0, <2>4, <2>5
    <3> HIDE DEF new
    <3> QED BY <3>1, <3>2, <3>3, <3>4
  <2> HIDE DEF Good, new
  <2> QED BY <2>1, <2>2, <2>6
<1>4. len \in good
  <2>1. good \in SUBSET Nat /\ len \in 0 .. len
    BY <1>0
  <2> HIDE DEF good
  <2> QED BY <1>0, <1>2, <1>3, <2>1, InductionUpTo
<1> DEFINE new == WithTargets(slots, count, configs)
<1>5. Good(new, len)
  <2> HIDE DEF Good
  <2> QED BY <1>1, <1>4
<1> HIDE DEF new
<1>6. /\ new \in Seq(SlotSet) /\ Len(new) \in Nat /\ old <= Len(new) /\ DOMAIN new = 1 .. Len(new)
      /\ count + (Len(new) - old) \in Nat
  BY <1>0, <1>5
<1>7. \A i \in DOMAIN slots : i \in DOMAIN new /\ new[i] = slots[i]
  BY <1>0, <1>5, <1>6
<1>8. \A i \in DOMAIN new : i \notin DOMAIN slots =>
          new[i].target = count + (i - old) /\ Fresh(new[i])
  BY <1>0, <1>5, <1>6
<1>9. \A i \in DOMAIN new : new[i].target \in 1 .. (count + (Len(new) - old))
  <2> SUFFICES ASSUME NEW i \in DOMAIN new PROVE new[i].target \in 1 .. (count + (Len(new) - old))
    OBVIOUS
  <2>1. CASE i \in DOMAIN slots
    <3>1. new[i].target \in 1 .. count
      BY <1>7, <2>1 DEF SlotsOK
    <3> QED BY <1>0, <1>6, <3>1
  <2>2. CASE i \notin DOMAIN slots
    <3>1. new[i].target = count + (i - old) /\ i \in Nat /\ i > old /\ i <= Len(new)
      BY <1>0, <1>6, <1>8, <2>2
    <3> QED BY <1>0, <1>6, <3>1
  <2> QED BY <2>1, <2>2
<1>10. ASSUME NEW i \in DOMAIN new, NEW j \in DOMAIN new, new[i].target = new[j].target PROVE i = j
  <2>1. ASSUME NEW k \in DOMAIN new
        PROVE  \/ k \in DOMAIN slots /\ new[k].target = slots[k].target /\ slots[k].target \in 1 .. count
               \/ k \notin DOMAIN slots /\ new[k].target = count + (k - old) /\ k \in Nat /\ k > old
    <3>1. CASE k \in DOMAIN slots
      BY <1>7, <3>1 DEF SlotsOK
    <3>2. CASE k \notin DOMAIN slots
      BY <1>0, <1>6, <1>8, <3>2
    <3> QED BY <3>1, <3>2
  <2>2. CASE i \in DOMAIN slots /\ j \in DOMAIN slots
    BY <1>7, <1>10, <2>2 DEF SlotsOK
  <2>3. CASE ~(i \in DOMAIN slots /\ j \in DOMAIN slots)
    BY <1>0, <1>10, <2>1, <2>3
  <2> QED BY <2>2, <2>3
<1>11. SlotsOK(new, count + (Len(new) - old))
  BY <1>6, <1>9, <1>10 DEF SlotsOK
<1>12. Extended(new, slots, count)
  BY <1>7, <1>8 DEF Extended, old
<1> QED BY <1>0, <1>5, <1>6, <1>11, <1>12 DEF new, old

(* The targets of an entry's names are those of slots with these names.    *)
LEMMA HereNames ==
    ASSUME NEW slots, NEW count, SlotsOK(slots, count), NEW entry
    PROVE  /\ \A t \in Here(entry, slots) : t \in Nat /\ \E i \in DOMAIN slots : slots[i].target = t
           /\ \A name :
                  (\E t \in Here(entry, slots) :
                       \E i \in DOMAIN slots : slots[i].target = t /\ slots[i].name = name)
                  <=> name \in entry.targets \cap NamesOf(slots)
<1> DEFINE here == Here(entry, slots)
           names == entry.targets \cap NamesOf(slots)
<1>0. IsASequence(slots) /\ \A i \in DOMAIN slots : slots[i].target \in Nat
  BY DEF SlotsOK, IsASequence
<1>1. ASSUME NEW name \in names
      PROVE  \E i \in DOMAIN slots : slots[i].name = name /\ FirstNamed(slots, name) = slots[i].target
  BY <1>0, FirstNamedIs
<1>2. ASSUME NEW t \in here
      PROVE  \E name \in names : t = FirstNamed(slots, name)
  BY DEF Here
<1>3. ASSUME NEW name \in names PROVE FirstNamed(slots, name) \in here
  BY DEF Here
<1>4. \A i, j \in DOMAIN slots : slots[i].target = slots[j].target => i = j
  BY DEF SlotsOK
<1> HIDE DEF here, names
<1>5. ASSUME NEW t \in here PROVE t \in Nat /\ \E i \in DOMAIN slots : slots[i].target = t
  <2>1. PICK name \in names : t = FirstNamed(slots, name)
    BY <1>2
  <2> QED BY <1>0, <1>1, <2>1
<1>6. ASSUME NEW name, NEW t \in here, NEW i \in DOMAIN slots, slots[i].target = t, slots[i].name = name
      PROVE  name \in names
  <2>1. PICK n \in names : t = FirstNamed(slots, n)
    BY <1>2
  <2>2. PICK j \in DOMAIN slots : slots[j].name = n /\ t = slots[j].target
    BY <1>1, <2>1
  <2> QED BY <1>4, <1>6, <2>2
<1>7. ASSUME NEW name \in names
      PROVE  \E t \in here : \E i \in DOMAIN slots : slots[i].target = t /\ slots[i].name = name
  BY <1>1, <1>3
<1> QED BY <1>5, <1>6, <1>7 DEF here, names

(* What Configure makes of slots and keys, and of the rules they stand for.*)
ConfiguredOK(new, slots, ks, config) ==
    /\ SlotsOK(new.targets, new.made) /\ made <= new.made
    /\ Extended(new.targets, slots, made)
    /\ KeysOK(new.keys, new.targets)
    /\ \A level, kinds, name :
           Linked(new.keys, new.targets, level, kinds, name) <=>
               Linked(ks, slots, level, kinds, name) \/ Ruled(config, new.targets, level, kinds, name)
    /\ NamesOf(new.targets) = NamesOf(slots) \cup
           {config.targets[i].name : i \in {j \in DOMAIN config.targets : config.targets[j].type # "unknown"}}

(* Slots that are added are none of those that keys link to.               *)
LEMMA LinksKept ==
    ASSUME NEW slots, NEW new, NEW ks, NEW count, KeysOK(ks, slots), SlotsOK(new, count),
           \A i \in DOMAIN slots : i \in DOMAIN new /\ new[i].target = slots[i].target
                                                   /\ new[i].name = slots[i].name
    PROVE  /\ \A level, kinds, name : Linked(ks, new, level, kinds, name) <=> Linked(ks, slots, level, kinds, name)
           /\ KeysOK(ks, new)
<1>1. \A level, kinds, t : Gives(ks, level, kinds, t) => \E i \in DOMAIN slots : slots[i].target = t
  BY DEF Gives, KeysOK
<1>2. \A i, j \in DOMAIN new : new[i].target = new[j].target => i = j
  BY DEF SlotsOK
<1>3. ASSUME NEW level, NEW kinds, NEW name
      PROVE  Linked(ks, new, level, kinds, name) <=> Linked(ks, slots, level, kinds, name)
  <2>1. ASSUME Linked(ks, slots, level, kinds, name) PROVE Linked(ks, new, level, kinds, name)
    BY <2>1 DEF Linked
  <2>2. ASSUME Linked(ks, new, level, kinds, name) PROVE Linked(ks, slots, level, kinds, name)
    <3>1. PICK t : /\ Gives(ks, level, kinds, t)
                   /\ \E i \in DOMAIN new : new[i].target = t /\ new[i].name = name
      BY <2>2 DEF Linked
    <3>2. PICK i \in DOMAIN new : new[i].target = t /\ new[i].name = name
      BY <3>1
    <3>3. PICK j \in DOMAIN slots : slots[j].target = t
      BY <1>1, <3>1
    <3>4. j = i
      BY <1>2, <3>2, <3>3
    <3>5. slots[j].target = t /\ slots[j].name = name
      BY <3>2, <3>3, <3>4
    <3> QED BY <3>1, <3>5 DEF Linked
  <2> QED BY <2>1, <2>2
<1>4. KeysOK(ks, new)
  <2>1. \A k \in DOMAIN ks : \A t \in ks[k].targets : \E i \in DOMAIN slots : slots[i].target = t
    BY DEF KeysOK
  <2>2. \A k \in DOMAIN ks : \A t \in ks[k].targets : \E i \in DOMAIN new : new[i].target = t
    BY <2>1
  <2> QED BY <2>2 DEF KeysOK
<1> QED BY <1>3, <1>4

LEMMA ConfiguredIs ==
    ASSUME NEW slots, NEW ks, SlotsOK(slots, made), KeysOK(ks, slots), NEW config, ConfigOK(config)
    PROVE  ConfiguredOK(Configured(slots, ks, config), slots, ks, config)
<1> DEFINE new == WithTargets(slots, made, config.targets)
           newKeys == WithEntries(ks, config.dispatch, new)
           count == made + (Len(new) - Len(slots))
<1>1. /\ SlotsOK(new, count) /\ Len(new) \in Nat /\ Len(slots) <= Len(new)
      /\ Extended(new, slots, made)
      /\ NamesOf(new) = NamesOf(slots) \cup
             {config.targets[i].name : i \in {j \in DOMAIN config.targets : config.targets[j].type # "unknown"}}
  BY WithTargetsAre DEF ConfigOK
<1> HIDE DEF new
<1>2. made \in Nat /\ Len(slots) \in Nat /\ made <= count
  BY <1>1 DEF SlotsOK
<1> HIDE DEF count
<1>3. /\ \A level, kinds, name : Linked(ks, new, level, kinds, name) <=> Linked(ks, slots, level, kinds, name)
      /\ KeysOK(ks, new)
  BY <1>1, LinksKept DEF Extended
<1>4. \A n \in DOMAIN config.dispatch :
          /\ config.dispatch[n].level \in Levels /\ config.dispatch[n].kinds \in SUBSET Kinds
          /\ Here(config.dispatch[n], new) \subseteq Nat
  BY <1>1, HereNames DEF ConfigOK
<1>5. /\ newKeys \in Seq(KeySet(Levels, SUBSET Kinds, Nat)) /\ Distinct(newKeys) /\ NonEmpty(newKeys)
      /\ \A level, kinds, t :
             Gives(newKeys, level, kinds, t) <=>
                 \/ Gives(ks, level, kinds, t)
                 \/ \E n \in DOMAIN config.dispatch :
                        /\ level = config.dispatch[n].level /\ kinds = config.dispatch[n].kinds
                        /\ t \in Here(config.dispatch[n], new)
  <2>1. ks \in Seq(KeySet(Levels, SUBSET Kinds, Nat)) /\ Distinct(ks) /\ NonEmpty(ks)
    BY DEF KeysOK
  <2>2. IsASequence(config.dispatch)
    BY DEF ConfigOK
  <2> DEFINE entries == config.dispatch
  <2>3. /\ IsASequence(entries)
        /\ \A n \in DOMAIN entries : /\ entries[n].level \in Levels /\ entries[n].kinds \in SUBSET Kinds
                                     /\ Here(entries[n], new) \subseteq Nat
    BY <1>4, <2>2
  <2> HIDE DEF entries
  <2>4. LET nk == WithEntries(ks, entries, new)
        IN  /\ nk \in Seq(KeySet(Levels, SUBSET Kinds, Nat)) /\ Distinct(nk) /\ NonEmpty(nk)
            /\ \A level, kinds, t :
                   Gives(nk, level, kinds, t) <=>
                       \/ Gives(ks, level, kinds, t)
                       \/ \E n \in DOMAIN entries :
                              /\ level = entries[n].level /\ kinds = entries[n].kinds
                              /\ t \in Here(entries[n], new)
    BY <2>1, <2>3, WithEntriesAre, SMTT(60)
  <2> QED BY <2>4 DEF entries
<1> HIDE DEF newKeys
<1>6. KeysOK(newKeys, new)
  <2>1. ASSUME NEW k \in DOMAIN newKeys, NEW t \in newKeys[k].targets
        PROVE  \E i \in DOMAIN new : new[i].target = t
    <3>1. Gives(newKeys, newKeys[k].level, newKeys[k].kinds, t)
      BY DEF Gives
    <3>2. CASE Gives(ks, newKeys[k].level, newKeys[k].kinds, t)
      BY <1>3, <3>2 DEF Gives, KeysOK
    <3>3. CASE \E n \in DOMAIN config.dispatch : t \in Here(config.dispatch[n], new)
      BY <1>1, <3>3, HereNames
    <3> QED BY <1>5, <3>1, <3>2, <3>3
  <2> QED BY <1>5, <2>1 DEF KeysOK
<1>7. ASSUME NEW level, NEW kinds, NEW name
      PROVE  Linked(newKeys, new, level, kinds, name) <=>
                 Linked(ks, slots, level, kinds, name) \/ Ruled(config, new, level, kinds, name)
  <2> DEFINE Named(t) == \E i \in DOMAIN new : new[i].target = t /\ new[i].name = name
  <2>1. \A n \in DOMAIN config.dispatch :
            (\E t \in Here(config.dispatch[n], new) : Named(t))
            <=> name \in config.dispatch[n].targets \cap NamesOf(new)
    BY <1>1, HereNames
  <2>2. Linked(newKeys, new, level, kinds, name) <=> \E t : Gives(newKeys, level, kinds, t) /\ Named(t)
    BY DEF Linked
  <2>3. Linked(ks, slots, level, kinds, name) <=> \E t : Gives(ks, level, kinds, t) /\ Named(t)
    BY <1>3 DEF Linked
  <2> HIDE DEF Named
  <2>4. Linked(newKeys, new, level, kinds, name) <=>
            \/ Linked(ks, slots, level, kinds, name)
            \/ \E n \in DOMAIN config.dispatch :
                   /\ level = config.dispatch[n].level /\ kinds = config.dispatch[n].kinds
                   /\ \E t \in Here(config.dispatch[n], new) : Named(t)
    BY <1>5, <2>2, <2>3
  <2> QED BY <2>1, <2>4 DEF Ruled
<1>8. /\ Configured(slots, ks, config).targets = new
      /\ Configured(slots, ks, config).keys = newKeys
      /\ Configured(slots, ks, config).made = count
  BY DEF Configured, new, newKeys, count
<1> QED BY <1>1, <1>2, <1>6, <1>7, <1>8 DEF ConfiguredOK

RuleSet == [level : Levels, kinds : SUBSET Kinds, name : AllNames]

LEMMA RulesAre ==
    ASSUME NEW slots, NEW count, SlotsOK(slots, count), NEW config, ConfigOK(config)
    PROVE  /\ Rules(config, slots) \subseteq RuleSet
           /\ \A level, kinds, name :
                  [level |-> level, kinds |-> kinds, name |-> name] \in Rules(config, slots)
                  <=> Ruled(config, slots, level, kinds, name)
<1>1. NamesOf(slots) \subseteq AllNames
  <2>1. \A i \in DOMAIN slots : slots[i] \in SlotSet
    BY DEF SlotsOK
  <2>2. \A i \in DOMAIN slots : slots[i].name \in AllNames
    BY <2>1 DEF SlotSet
  <2> QED BY <2>2 DEF NamesOf
<1>2. \A r : r \in Rules(config, slots) <=>
          \E n \in DOMAIN config.dispatch : \E name \in config.dispatch[n].targets \cap NamesOf(slots) :
              r = [level |-> config.dispatch[n].level, kinds |-> config.dispatch[n].kinds, name |-> name]
  BY DEF Rules
<1>3. ASSUME NEW n \in DOMAIN config.dispatch
      PROVE  config.dispatch[n].level \in Levels /\ config.dispatch[n].kinds \in SUBSET Kinds
  BY DEF ConfigOK
<1>4. Rules(config, slots) \subseteq RuleSet
  BY <1>1, <1>2, <1>3 DEF RuleSet
<1>5. ASSUME NEW level, NEW kinds, NEW name
      PROVE  [level |-> level, kinds |-> kinds, name |-> name] \in Rules(config, slots)
             <=> Ruled(config, slots, level, kinds, name)
  BY <1>2 DEF Ruled
<1> QED BY <1>4, <1>5

(* Initialize changes no more of the slots than maintained.                *)
LEMMA MaintainedIs ==
    ASSUME NEW slots, NEW count, SlotsOK(slots, count), NEW throwing
    PROVE  LET new == Maintained(slots, throwing)
           IN  /\ SlotsOK(new, count) /\ DOMAIN new = DOMAIN slots
               /\ \A i \in DOMAIN slots :
                      /\ new[i].target = slots[i].target /\ new[i].name = slots[i].name
                      /\ new[i].type = slots[i].type
                      /\ new[i].maintained => slots[i].maintained \/ i \notin throwing
<1> DEFINE new == Maintained(slots, throwing)
<1>1. DOMAIN slots = 1 .. Len(slots) /\ Len(slots) \in Nat /\ \A i \in DOMAIN slots : slots[i] \in SlotSet
  BY DEF SlotsOK
<1>2. /\ DOMAIN new = DOMAIN slots
      /\ \A i \in DOMAIN slots : new[i] = IF i \in throwing THEN slots[i] ELSE [slots[i] EXCEPT !.maintained = TRUE]
  BY DEF Maintained
<1>3. ASSUME NEW slot \in SlotSet
      PROVE  /\ [slot EXCEPT !.maintained = TRUE] \in SlotSet
             /\ [slot EXCEPT !.maintained = TRUE].target = slot.target
             /\ [slot EXCEPT !.maintained = TRUE].name = slot.name
             /\ [slot EXCEPT !.maintained = TRUE].type = slot.type
  BY DEF SlotSet
<1>4. new = [i \in 1 .. Len(slots) |-> new[i]]
  BY <1>1 DEF Maintained
<1> HIDE DEF new
<1>5. ASSUME NEW i \in DOMAIN slots
      PROVE  /\ new[i] \in SlotSet /\ new[i].target = slots[i].target /\ new[i].name = slots[i].name
             /\ new[i].type = slots[i].type
             /\ new[i].maintained => slots[i].maintained \/ i \notin throwing
  BY <1>1, <1>2, <1>3
<1>6. new \in Seq(SlotSet)
  BY <1>1, <1>4, <1>5
<1>7. SlotsOK(new, count)
  BY <1>2, <1>5, <1>6 DEF SlotsOK
<1> QED BY <1>2, <1>5, <1>7 DEF new

-----------------------------------------------------------------------------
(* The registry: slots and keys are well-formed, and the keys stand for    *)
(* the rules that were promised.                                           *)
RegistryInv ==
    /\ use_fallback \in BOOLEAN /\ fallback \in BOOLEAN /\ ops \in Nat
    /\ SlotsOK(targets, made) /\ KeysOK(keys, targets)
    /\ \A i \in DOMAIN targets : targets[i].maintained => targets[i].target \in initialized
    /\ \A i \in DOMAIN targets : targets[i].type = "unknown" => targets[i].target \in added
    /\ promised \subseteq RuleSet
    /\ \A level, kinds, name :
           [level |-> level, kinds |-> kinds, name |-> name] \in promised
           <=> Linked(keys, targets, level, kinds, name)

LEMMA NoSlots ==
    ASSUME NEW count \in Nat
    PROVE  /\ SlotsOK(<<>>, count) /\ KeysOK(<<>>, <<>>)
           /\ \A level, kinds, name : ~Linked(<<>>, <<>>, level, kinds, name)
BY DEF SlotsOK, KeysOK, Distinct, NonEmpty, Linked, Gives

LEMMA RegistryInit == Init => RegistryInv
<1> SUFFICES ASSUME Init PROVE RegistryInv
  OBVIOUS
<1>1. made \in Nat /\ made = 0 /\ targets = <<>> /\ keys = <<>> /\ promised = {} /\ ops = 0
      /\ use_fallback = TRUE /\ fallback = FALSE
  BY DEF Init
<1>2. /\ SlotsOK(targets, made) /\ KeysOK(keys, targets)
      /\ \A level, kinds, name : ~Linked(keys, targets, level, kinds, name)
  BY <1>1, NoSlots
<1>3. DOMAIN targets = {}
  BY <1>1
<1> QED BY <1>1, <1>2, <1>3 DEF RegistryInv

LEMMA RegistryNext == RegistryInv /\ [Next]_vars => RegistryInv'
<1> SUFFICES ASSUME RegistryInv, [Next]_vars PROVE RegistryInv'
  OBVIOUS
<1>0. /\ use_fallback \in BOOLEAN /\ fallback \in BOOLEAN /\ ops \in Nat
      /\ SlotsOK(targets, made) /\ KeysOK(keys, targets)
      /\ \A i \in DOMAIN targets : targets[i].maintained => targets[i].target \in initialized
      /\ \A i \in DOMAIN targets : targets[i].type = "unknown" => targets[i].target \in added
      /\ promised \subseteq RuleSet
      /\ \A level, kinds, name :
             [level |-> level, kinds |-> kinds, name |-> name] \in promised
             <=> Linked(keys, targets, level, kinds, name)
  BY DEF RegistryInv
<1>o. Operation => ops' \in Nat
  BY <1>0 DEF Operation
<1>1. CASE Configure
  <2>1. PICK config \in Configs :
            LET new == Configured(targets, keys, config)
            IN  /\ Operation
                /\ targets' = new.targets /\ keys' = new.keys /\ made' = new.made
                /\ use_fallback' = config.use_fallback
                /\ promised' = promised \cup Rules(config, new.targets)
                /\ UNCHANGED <<fallback, added, initialized>>
    BY <1>1 DEF Configure
  <2> DEFINE new == Configured(targets, keys, config)
  <2>2. ConfigOK(config) /\ config.use_fallback \in BOOLEAN
    BY ConfigsOK
  <2>3. ConfiguredOK(new, targets, keys, config)
    BY <1>0, <2>2, ConfiguredIs
  <2>4. /\ targets' = new.targets /\ keys' = new.keys /\ made' = new.made
        /\ promised' = promised \cup Rules(config, new.targets)
    BY <2>1
  <2> HIDE DEF new
  <2>5. SlotsOK(targets', made') /\ KeysOK(keys', targets')
    BY <2>3, <2>4 DEF ConfiguredOK
  <2>6. /\ Rules(config, targets') \subseteq RuleSet
        /\ \A level, kinds, name :
               [level |-> level, kinds |-> kinds, name |-> name] \in Rules(config, targets')
               <=> Ruled(config, targets', level, kinds, name)
    BY <2>2, <2>5, RulesAre
  <2>7. \A level, kinds, name :
            Linked(keys', targets', level, kinds, name) <=>
                Linked(keys, targets, level, kinds, name) \/ Ruled(config, targets', level, kinds, name)
    BY <2>3, <2>4 DEF ConfiguredOK
  <2>8. /\ \A i \in DOMAIN targets' : targets'[i].maintained => targets'[i].target \in initialized'
        /\ \A i \in DOMAIN targets' : targets'[i].type = "unknown" => targets'[i].target \in added'
    BY <1>0, <2>1, <2>3, <2>4 DEF ConfiguredOK, Extended, Fresh
  <2>9. promised' = promised \cup Rules(config, targets')
    BY <2>4
  <2>10. promised' \subseteq RuleSet
         /\ \A level, kinds, name :
                [level |-> level, kinds |-> kinds, name |-> name] \in promised'
                <=> Linked(keys', targets', level, kinds, name)
    BY <1>0, <2>6, <2>7, <2>9
  <2> QED BY <1>0, <1>o, <2>1, <2>2, <2>5, <2>8, <2>10 DEF RegistryInv
<1>2. CASE Add_target
  <2>1. PICK new \in AddedTargets :
            /\ Operation
            /\ IF new.name \in NamesOf(targets)
               THEN UNCHANGED <<targets, made, added>>
               ELSE /\ targets' = Append(targets, [name |-> new.name, type |-> new.type,
                                                   target |-> made + 1, maintained |-> FALSE])
                    /\ made' = made + 1
                    /\ added' = added \cup {made + 1}
            /\ UNCHANGED <<use_fallback, fallback, keys, promised, initialized>>
    BY <1>2 DEF Add_target
  <2>2. CASE UNCHANGED <<targets, made, added>>
    BY <1>0, <1>o, <2>1, <2>2 DEF RegistryInv
  <2>3. CASE /\ targets' = Append(targets, [name |-> new.name, type |-> new.type,
                                            target |-> made + 1, maintained |-> FALSE])
             /\ made' = made + 1
             /\ added' = added \cup {made + 1}
    <3> DEFINE slot == [name |-> new.name, type |-> new.type, target |-> made + 1, maintained |-> FALSE]
               n == Len(targets) + 1
    <3>1. slot \in SlotSet /\ slot.target = made + 1 /\ slot.maintained = FALSE /\ made \in Nat
      BY <1>0, AddedAssumption DEF SlotsOK, SlotSet, AllNames, NamesOfAdded
    <3>2. targets' = Append(targets, slot)
      BY <2>3
    <3> HIDE DEF slot
    <3>3. /\ targets' \in Seq(SlotSet) /\ Len(targets') = n /\ Len(targets) \in Nat
          /\ \A i \in 1 .. Len(targets) : targets'[i] = targets[i]
          /\ targets'[n] = slot
      BY <1>0, <3>1, <3>2, AppendProperties DEF SlotsOK
    <3>4. /\ DOMAIN targets' = DOMAIN targets \cup {n} /\ n \notin DOMAIN targets
          /\ \A i \in DOMAIN targets : targets'[i] = targets[i]
      BY <1>0, <3>3 DEF SlotsOK
    <3> HIDE DEF n
    <3>5. \A i \in DOMAIN targets : targets[i].target \in 1 .. made
      BY <1>0 DEF SlotsOK
    <3>6. \A i \in DOMAIN targets' : targets'[i].target \in 1 .. (made + 1)
      BY <3>1, <3>3, <3>4, <3>5
    <3>7. \A i \in DOMAIN targets : targets'[i].target # targets'[n].target
      BY <3>1, <3>3, <3>4, <3>5
    <3>8. \A i, j \in DOMAIN targets' : targets'[i].target = targets'[j].target => i = j
      BY <1>0, <3>4, <3>7 DEF SlotsOK
    <3>9. SlotsOK(targets', made')
      BY <2>3, <3>1, <3>3, <3>6, <3>8 DEF SlotsOK
    <3>10. /\ \A level, kinds, nm : Linked(keys, targets', level, kinds, nm) <=> Linked(keys, targets, level, kinds, nm)
           /\ KeysOK(keys, targets')
      BY <1>0, <3>4, <3>9, LinksKept
    <3>11. /\ \A i \in DOMAIN targets' : targets'[i].maintained => targets'[i].target \in initialized
           /\ \A i \in DOMAIN targets' : targets'[i].type = "unknown" => targets'[i].target \in added'
      BY <1>0, <2>3, <3>1, <3>3, <3>4
    <3>12. keys' = keys /\ promised' = promised /\ initialized' = initialized
           /\ use_fallback' = use_fallback /\ fallback' = fallback
      BY <2>1
    <3> QED BY <1>0, <1>o, <2>1, <3>9, <3>10, <3>11, <3>12 DEF RegistryInv
  <2> QED BY <2>1, <2>2, <2>3
<1>3. CASE Start
  <2>1. PICK throwing \in SUBSET MayFail(targets) :
            /\ Operation
            /\ fallback' = FallbackAfter(fallback, use_fallback, throwing)
            /\ use_fallback' = (use_fallback \/ throwing # {})
            /\ targets' = Maintained(targets, throwing)
            /\ initialized' = initialized \cup {targets[i].target : i \in DOMAIN targets \ throwing}
            /\ UNCHANGED <<keys, made, added, promised>>
    BY <1>3 DEF Start
  <2>2. /\ SlotsOK(targets', made) /\ DOMAIN targets' = DOMAIN targets
        /\ \A i \in DOMAIN targets :
               /\ targets'[i].target = targets[i].target /\ targets'[i].name = targets[i].name
               /\ targets'[i].type = targets[i].type
               /\ targets'[i].maintained => targets[i].maintained \/ i \notin throwing
    BY <1>0, <2>1, MaintainedIs
  <2>3. /\ \A level, kinds, name : Linked(keys, targets', level, kinds, name) <=> Linked(keys, targets, level, kinds, name)
        /\ KeysOK(keys, targets')
    BY <1>0, <2>2, LinksKept
  <2>4. /\ \A i \in DOMAIN targets' : targets'[i].maintained => targets'[i].target \in initialized'
        /\ \A i \in DOMAIN targets' : targets'[i].type = "unknown" => targets'[i].target \in added'
    BY <1>0, <2>1, <2>2
  <2>5. fallback' \in BOOLEAN /\ use_fallback' \in BOOLEAN
    BY <1>0, <2>1 DEF FallbackAfter
  <2> QED BY <1>0, <1>o, <2>1, <2>2, <2>3, <2>4, <2>5 DEF RegistryInv
<1>4. CASE Reconfigure
  <2>1. PICK config \in Configs :
            LET new == Configured(<<>>, <<>>, config)
            IN  \E throwing \in SUBSET MayFail(new.targets) :
                    /\ Operation
                    /\ targets' = Maintained(new.targets, throwing)
                    /\ keys' = new.keys /\ made' = new.made
                    /\ fallback' = FallbackAfter(fallback /\ config.use_fallback,
                                                 config.use_fallback, throwing)
                    /\ use_fallback' = (config.use_fallback \/ throwing # {})
                    /\ promised' = Rules(config, new.targets)
                    /\ initialized' = initialized \cup
                           {new.targets[i].target : i \in DOMAIN new.targets \ throwing}
                    /\ UNCHANGED added
    BY <1>4 DEF Reconfigure
  <2> DEFINE new == Configured(<<>>, <<>>, config)
             slots == new.targets
  <2>2. PICK throwing \in SUBSET MayFail(slots) :
            /\ Operation
            /\ targets' = Maintained(slots, throwing)
            /\ keys' = new.keys /\ made' = new.made
            /\ fallback' = FallbackAfter(fallback /\ config.use_fallback, config.use_fallback, throwing)
            /\ use_fallback' = (config.use_fallback \/ throwing # {})
            /\ promised' = Rules(config, slots)
            /\ initialized' = initialized \cup {slots[i].target : i \in DOMAIN slots \ throwing}
    BY <2>1
  <2>3. ConfigOK(config) /\ config.use_fallback \in BOOLEAN
    BY ConfigsOK
  <2>4. /\ SlotsOK(<<>>, made) /\ KeysOK(<<>>, <<>>) /\ made \in Nat
        /\ \A level, kinds, name : ~Linked(<<>>, <<>>, level, kinds, name)
    BY <1>0, NoSlots DEF SlotsOK
  <2>5. ConfiguredOK(new, <<>>, <<>>, config)
    BY <2>3, <2>4, ConfiguredIs
  <2> HIDE DEF new
  <2>6. /\ SlotsOK(slots, made') /\ KeysOK(keys', slots)
        /\ \A i \in DOMAIN slots : Fresh(slots[i])
        /\ \A level, kinds, name :
               Linked(keys', slots, level, kinds, name) <=> Ruled(config, slots, level, kinds, name)
    BY <2>2, <2>4, <2>5 DEF ConfiguredOK, Extended
  <2> HIDE DEF slots
  <2>7. /\ SlotsOK(targets', made') /\ DOMAIN targets' = DOMAIN slots
        /\ \A i \in DOMAIN slots :
               /\ targets'[i].target = slots[i].target /\ targets'[i].name = slots[i].name
               /\ targets'[i].type = slots[i].type
               /\ targets'[i].maintained => slots[i].maintained \/ i \notin throwing
    BY <2>2, <2>6, MaintainedIs
  <2>8. /\ \A level, kinds, name : Linked(keys', targets', level, kinds, name) <=> Linked(keys', slots, level, kinds, name)
        /\ KeysOK(keys', targets')
    BY <2>6, <2>7, LinksKept
  <2>9. /\ promised' \subseteq RuleSet
        /\ \A level, kinds, name :
               [level |-> level, kinds |-> kinds, name |-> name] \in promised'
               <=> Linked(keys', targets', level, kinds, name)
    BY <2>2, <2>3, <2>6, <2>8, RulesAre
  <2>10. /\ \A i \in DOMAIN targets' : targets'[i].maintained => targets'[i].target \in initialized'
         /\ \A i \in DOMAIN targets' : targets'[i].type = "unknown" => targets'[i].target \in added'
    BY <2>2, <2>6, <2>7 DEF Fresh
  <2>11. fallback' \in BOOLEAN /\ use_fallback' \in BOOLEAN
    BY <1>0, <2>2, <2>3 DEF FallbackAfter
  <2> QED BY <1>o, <2>2, <2>7, <2>8, <2>9, <2>10, <2>11 DEF RegistryInv
<1>5. CASE Write_log
  BY <1>0, <1>5 DEF Write_log, registry, RegistryInv
<1>6. CASE UNCHANGED vars
  BY <1>0, <1>6 DEF vars, registry, RegistryInv
<1> QED BY <1>1, <1>2, <1>3, <1>4, <1>5, <1>6 DEF Next

LEMMA RegistryAlways == Spec => []RegistryInv
BY RegistryInit, RegistryNext, PTL DEF Spec

-----------------------------------------------------------------------------
(* What follows from it.                                                   *)

LEMMA RegistryTyped == RegistryInv => TypeOK
<1> SUFFICES ASSUME RegistryInv PROVE TypeOK
  OBVIOUS
<1>0. /\ use_fallback \in BOOLEAN /\ fallback \in BOOLEAN /\ ops \in Nat
      /\ SlotsOK(targets, made) /\ KeysOK(keys, targets)
      /\ \A i \in DOMAIN targets : targets[i].maintained => targets[i].target \in initialized
      /\ \A i \in DOMAIN targets : targets[i].type = "unknown" => targets[i].target \in added
  BY DEF RegistryInv
<1>1. ASSUME NEW i \in DOMAIN targets
      PROVE  /\ targets[i].type \in Types /\ targets[i].maintained \in BOOLEAN
             /\ targets[i].target \in 1 .. made
  <2>1. targets[i] \in SlotSet /\ targets[i].target \in 1 .. made
    BY <1>0 DEF SlotsOK
  <2> QED BY <2>1 DEF SlotSet
<1>2. ASSUME NEW i \in DOMAIN keys
      PROVE  /\ keys[i].level \in Levels /\ keys[i].kinds \subseteq Kinds
             /\ keys[i].targets \subseteq {targets[j].target : j \in DOMAIN targets}
  <2>1. keys[i] \in KeySet(Levels, SUBSET Kinds, Nat)
        /\ \A t \in keys[i].targets : \E j \in DOMAIN targets : targets[j].target = t
    BY <1>0 DEF KeysOK
  <2> QED BY <2>1 DEF KeySet
<1>3. made \in Nat
  BY <1>0 DEF SlotsOK
<1> QED BY <1>0, <1>1, <1>2, <1>3 DEF TypeOK

(* Keys name targets that are there, a target of an unknown type came with *)
(* Add_target, and none is maintained that was never initialized.          *)
THEOREM RegistryTypeCorrect == Spec => []TypeOK
BY RegistryAlways, RegistryTyped, PTL

(* However often Configure merges entries, no two keys are the same and    *)
(* none is without targets.                                                *)
THEOREM KeysStayDistinct == Spec => []KeysDistinct
<1>1. RegistryInv => KeysDistinct
  BY DEF RegistryInv, KeysOK, Distinct, NonEmpty, SameKey, KeysDistinct
<1> QED BY <1>1, RegistryAlways, PTL

ForRecord(level, kinds, record) ==
    /\ kinds = Kinds \/ record.kinds = Kinds \/ kinds \cap record.kinds # {}
    /\ level <= record.level

(* A record goes to the names of the rules that keys stand for.            *)
LEMMA RoutedIs ==
    ASSUME NEW ks, NEW slots, KeysOK(ks, slots), NEW record \in Records, NEW name
    PROVE  name \in NamesRouted(ks, slots, record) <=>
               \E level, kinds : ForRecord(level, kinds, record) /\ Linked(ks, slots, level, kinds, name)
<1>1. \A k \in DOMAIN ks : Matches(ks[k], record) <=> ForRecord(ks[k].level, ks[k].kinds, record)
  BY DEF Matches, ForRecord, All
<1>2. \A t : t \in Route(ks, record) <=> \E k \in DOMAIN ks : Matches(ks[k], record) /\ t \in ks[k].targets
  BY DEF Route
<1>3. name \in NamesRouted(ks, slots, record) <=>
          \E i \in DOMAIN slots : slots[i].target \in Route(ks, record) /\ slots[i].name = name
  BY DEF NamesRouted
<1>4. ASSUME NEW t
      PROVE  t \in Route(ks, record) <=>
                 \E level, kinds : ForRecord(level, kinds, record) /\ Gives(ks, level, kinds, t)
  BY <1>1, <1>2 DEF Gives
<1> QED BY <1>3, <1>4 DEF Linked

LEMMA RoutedOfPromises == RegistryInv => RoutedAsConfigured
<1> SUFFICES ASSUME RegistryInv, NEW record \in Records
             PROVE  NamesRouted(keys, targets, record) =
                        {rule.name : rule \in {r \in promised :
                            /\ r.kinds = Kinds \/ record.kinds = Kinds \/ r.kinds \cap record.kinds # {}
                            /\ r.level <= record.level}}
  BY DEF RoutedAsConfigured
<1> DEFINE given == {rule.name : rule \in {r \in promised : ForRecord(r.level, r.kinds, record)}}
<1>1. /\ KeysOK(keys, targets) /\ promised \subseteq RuleSet
      /\ \A level, kinds, name :
             [level |-> level, kinds |-> kinds, name |-> name] \in promised
             <=> Linked(keys, targets, level, kinds, name)
  BY DEF RegistryInv
<1>2. ASSUME NEW name PROVE name \in NamesRouted(keys, targets, record) <=> name \in given
  <2>1. name \in NamesRouted(keys, targets, record) <=>
            \E level, kinds : ForRecord(level, kinds, record) /\ Linked(keys, targets, level, kinds, name)
    BY <1>1, RoutedIs
  <2>2. name \in given <=> \E r \in promised : ForRecord(r.level, r.kinds, record) /\ r.name = name
    OBVIOUS
  <2>3. ASSUME NEW r \in promised
        PROVE  r = [level |-> r.level, kinds |-> r.kinds, name |-> r.name]
    BY <1>1 DEF RuleSet
  <2>4. ASSUME NEW r \in promised, ForRecord(r.level, r.kinds, record), r.name = name
        PROVE  Linked(keys, targets, r.level, r.kinds, name)
    BY <1>1, <2>3, <2>4
  <2>5. ASSUME NEW level, NEW kinds, ForRecord(level, kinds, record), Linked(keys, targets, level, kinds, name)
        PROVE  \E r \in promised : ForRecord(r.level, r.kinds, record) /\ r.name = name
    <3> DEFINE r == [level |-> level, kinds |-> kinds, name |-> name]
    <3>1. r \in promised /\ r.level = level /\ r.kinds = kinds /\ r.name = name
      BY <1>1, <2>5
    <3> HIDE DEF r
    <3> QED BY <2>5, <3>1
  <2> HIDE DEF given
  <2> QED BY <2>1, <2>2, <2>4, <2>5
<1>3. NamesRouted(keys, targets, record) = given
  <2> HIDE DEF given
  <2> QED BY <1>2
<1> QED BY <1>3 DEF ForRecord

(* A record goes to the names the configurations give for it.              *)
THEOREM RecordsGoWhereConfigured == Spec => []RoutedAsConfigured
BY RegistryAlways, RoutedOfPromises, PTL

(* Get_config is a configuration, of the rules that the keys stand for.    *)
LEMMA SavedIs ==
    ASSUME RegistryInv
    PROVE  /\ ConfigOK(Get_config)
           /\ Restorable(targets) = {Get_config.targets[i].name :
                  i \in {j \in DOMAIN Get_config.targets : Get_config.targets[j].type # "unknown"}}
           /\ \A slots, level, kinds, name :
                  Ruled(Get_config, slots, level, kinds, name) <=>
                      Linked(keys, targets, level, kinds, name) /\ name \in NamesOf(slots)
<1> DEFINE saved == [i \in DOMAIN targets |-> [name |-> targets[i].name, type |-> targets[i].type]]
           entries == [k \in DOMAIN keys |->
                          [level |-> keys[k].level, kinds |-> keys[k].kinds,
                           targets |-> {targets[i].name : i \in {j \in DOMAIN targets :
                                            targets[j].target \in keys[k].targets}}]]
<1>1. Get_config.targets = saved /\ Get_config.dispatch = entries
  BY DEF Get_config
<1>2. SlotsOK(targets, made) /\ KeysOK(keys, targets)
  BY DEF RegistryInv
<1>3. /\ DOMAIN saved = DOMAIN targets
      /\ \A i \in DOMAIN targets : saved[i].name = targets[i].name /\ saved[i].type = targets[i].type
  OBVIOUS
<1>4. /\ DOMAIN entries = DOMAIN keys
      /\ \A k \in DOMAIN keys : entries[k].level = keys[k].level /\ entries[k].kinds = keys[k].kinds
      /\ \A k \in DOMAIN keys : \A name : name \in entries[k].targets <=>
             \E i \in DOMAIN targets : targets[i].target \in keys[k].targets /\ targets[i].name = name
  OBVIOUS
<1>5. IsASequence(saved) /\ IsASequence(entries)
  <2>1. /\ saved = [i \in 1 .. Len(targets) |-> [name |-> targets[i].name, type |-> targets[i].type]]
        /\ Len(targets) \in Nat
    BY <1>2 DEF SlotsOK
  <2>2. Len(keys) \in Nat /\ DOMAIN keys = 1 .. Len(keys)
    BY <1>2 DEF KeysOK
  <2>3. IsASequence(saved)
    BY <2>1 DEF IsASequence
  <2>4. IsASequence(entries)
    BY <2>2 DEF IsASequence
  <2> QED BY <2>3, <2>4
<1> HIDE DEF saved, entries
<1>6. ASSUME NEW i \in DOMAIN targets PROVE targets[i].type \in Types /\ targets[i].name \in AllNames
  <2>1. targets[i] \in SlotSet
    BY <1>2 DEF SlotsOK
  <2> QED BY <2>1 DEF SlotSet
<1>7. ASSUME NEW k \in DOMAIN keys PROVE keys[k].level \in Levels /\ keys[k].kinds \in SUBSET Kinds
  <2>1. keys[k] \in KeySet(Levels, SUBSET Kinds, Nat)
    BY <1>2 DEF KeysOK
  <2> QED BY <2>1 DEF KeySet
<1>8. ConfigOK(Get_config)
  BY <1>1, <1>3, <1>4, <1>5, <1>6, <1>7 DEF ConfigOK
<1>9. Restorable(targets) = {saved[i].name : i \in {j \in DOMAIN saved : saved[j].type # "unknown"}}
  BY <1>3 DEF Restorable
<1>10. ASSUME NEW slots, NEW level, NEW kinds, NEW name
       PROVE  Ruled(Get_config, slots, level, kinds, name) <=>
                  Linked(keys, targets, level, kinds, name) /\ name \in NamesOf(slots)
  <2>1. Ruled(Get_config, slots, level, kinds, name) <=>
            /\ name \in NamesOf(slots)
            /\ \E k \in DOMAIN keys : /\ keys[k].level = level /\ keys[k].kinds = kinds
                                     /\ name \in entries[k].targets
    BY <1>1, <1>4 DEF Ruled
  <2>2. Linked(keys, targets, level, kinds, name) <=>
            \E k \in DOMAIN keys : /\ keys[k].level = level /\ keys[k].kinds = kinds
                                   /\ name \in entries[k].targets
    BY <1>4 DEF Linked, Gives
  <2> QED BY <2>1, <2>2
<1> QED BY <1>1, <1>8, <1>9, <1>10

LEMMA SavedRoutes == RegistryInv => SavedRoutesAlike
<1> SUFFICES ASSUME RegistryInv PROVE SavedRoutesAlike
  OBVIOUS
<1> DEFINE loaded == Configured(<<>>, <<>>, Get_config)
<1>1. KeysOK(keys, targets) /\ made \in Nat
  BY DEF RegistryInv, SlotsOK
<1>2. /\ SlotsOK(<<>>, made) /\ KeysOK(<<>>, <<>>) /\ NamesOf(<<>>) = {}
      /\ \A level, kinds, name : ~Linked(<<>>, <<>>, level, kinds, name)
  BY <1>1, NoSlots DEF NamesOf
<1>3. ConfiguredOK(loaded, <<>>, <<>>, Get_config)
  BY <1>2, SavedIs, ConfiguredIs
<1> HIDE DEF loaded
<1>4. NamesOf(loaded.targets) = Restorable(targets) /\ KeysOK(loaded.keys, loaded.targets)
  BY <1>2, <1>3, SavedIs DEF ConfiguredOK
<1>5. \A level, kinds, name :
          Linked(loaded.keys, loaded.targets, level, kinds, name) <=>
              Linked(keys, targets, level, kinds, name) /\ name \in Restorable(targets)
  BY <1>2, <1>3, <1>4, SavedIs DEF ConfiguredOK
<1>6. ASSUME NEW record \in Records
      PROVE  NamesRouted(loaded.keys, loaded.targets, record) =
                 NamesRouted(keys, targets, record) \cap Restorable(targets)
  <2>1. ASSUME NEW name
        PROVE  name \in NamesRouted(loaded.keys, loaded.targets, record)
               <=> name \in NamesRouted(keys, targets, record) /\ name \in Restorable(targets)
    BY <1>1, <1>4, <1>5, RoutedIs
  <2> QED BY <2>1
<1> QED BY <1>6 DEF SavedRoutesAlike, loaded

(* What Get_config gives, configured anew, routes as the logger does that  *)
(* gave it, save to the names that only targets of the application's own   *)
(* type have.                                                              *)
THEOREM SavedConfigurationsRouteAlike == Spec => []SavedRoutesAlike
BY RegistryAlways, SavedRoutes, PTL

=============================================================================
