-------------------------------- MODULE Rules --------------------------------
(***************************************************************************)
(* The routing rules of a logger: how Logger::Configure makes dispatch     *)
(* keys from dispatch entries.  A slot has a name and a target; a key has  *)
(* a level, kinds and the set of its targets.                              *)
(***************************************************************************)
EXTENDS Naturals, Sequences, SequencesExt

IsASequence(s) == Len(s) \in Nat /\ DOMAIN s = 1 .. Len(s)

NamesOf(slots) == {slots[i].name : i \in DOMAIN slots}

(* The first slot with that name: what std::find_if yields.                *)
FirstNamed(slots, name) ==
    slots[CHOOSE i \in DOMAIN slots :
              slots[i].name = name /\ \A j \in 1 .. (i - 1) : slots[j].name # name].target

(* Mutant: each entry makes a key of its own.                              *)
SameKey_never(key, entry) == FALSE

SameKey(key, entry) == key.level = entry.level /\ key.kinds = entry.kinds

(* One dispatch entry: the key with its level and kinds is found or made,  *)
(* the targets that are there are added, and a key without any is erased.  *)
WithEntry(ks, entry, slots) ==
    LET found == {i \in DOMAIN ks : SameKey(ks[i], entry)}
        all   == IF found # {} THEN ks
                 ELSE Append(ks, [level |-> entry.level, kinds |-> entry.kinds, targets |-> {}])
        at    == IF found # {} THEN CHOOSE i \in found : \A j \in found : i <= j ELSE Len(all)
        here  == {FirstNamed(slots, name) : name \in entry.targets \cap NamesOf(slots)}
        added == [all EXCEPT ![at].targets = @ \cup here]
    IN  IF added[at].targets = {} THEN RemoveAt(added, at) ELSE added

WithEntries(ks, entries, slots) ==
    LET after[n \in 0 .. Len(entries)] ==
            IF n = 0 THEN ks ELSE WithEntry(after[n - 1], entries[n], slots)
    IN  after[Len(entries)]

=============================================================================
