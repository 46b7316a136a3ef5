--------------------------- MODULE PlatformValues ---------------------------
(***************************************************************************)
(* platformValues (controllers/revision_controller.go): the config maps of *)
(* the platform namespace are merged into the values of every revision, by *)
(* priority.  They come and go one at a time.                              *)
(*                                                                         *)
(* A config map is known by its name, as its rank in the order of strings, *)
(* and holds a value of its own under some keys, so that a merged table    *)
(* tells for each key whose value it has taken.                            *)
(***************************************************************************)
EXTENDS Integers, SequencesExt

CONSTANTS
    Name,       \* names of config maps
    Key,        \* top-level keys of values.json
    Priority    \* priorities in use

ASSUME NameAssumption == Name \subseteq Nat
ASSUME PriorityAssumption == Priority \subseteq Int

VARIABLE cms    \* the config maps, by name

-----------------------------------------------------------------------------

\* A config map without the annotation or without values.json, or one of whose
\* two does not parse, is not used.
ConfigMap == [usable : BOOLEAN, prio : Priority, keys : SUBSET Key]

Used(maps) == {n \in DOMAIN maps : maps[n].usable}

compareInt(a, b) == IF a = b THEN 0 ELSE IF a < b THEN -1 ELSE 1

\* Mutant: the lowest priority comes first.
CompareAscending(maps, m, n) == 10 * compareInt(maps[m].prio, maps[n].prio) + compareInt(m, n)

\* The comparator of slices.SortFunc.
Compare(maps, m, n) == -10 * compareInt(maps[m].prio, maps[n].prio) + compareInt(m, n)

Sorted(maps) == SetToSortSeq(Used(maps), LAMBDA m, n : Compare(maps, m, n) < 0)

\* helmutil.CoalesceTables: what dst holds stays.
CoalesceTables(dst, src) ==
    [k \in DOMAIN dst \cup DOMAIN src |-> IF k \in DOMAIN dst THEN dst[k] ELSE src[k]]

Table(maps, n) == [k \in maps[n].keys |-> n]

\* Mutant: the first config map is used as a whole.
platformValuesOfFirst(maps) ==
    IF Sorted(maps) = <<>> THEN [k \in {} |-> 0] ELSE Table(maps, Head(Sorted(maps)))

platformValues(maps) ==
    FoldLeft(LAMBDA c, n : CoalesceTables(c, Table(maps, n)), [k \in {} |-> 0], Sorted(maps))

-----------------------------------------------------------------------------

Init == cms = [n \in {} |-> 0]

\* A user writes or deletes a config map.
Apply(n) ==
    \E cm \in ConfigMap :
        cms' = [m \in DOMAIN cms \cup {n} |-> IF m = n THEN cm ELSE cms[m]]

Delete(n) ==
    /\ n \in DOMAIN cms
    /\ cms' = [m \in DOMAIN cms \ {n} |-> cms[m]]

Next == \E n \in Name : Apply(n) \/ Delete(n)

Spec == Init /\ [][Next]_cms

-----------------------------------------------------------------------------

\* The config maps that have a value for a key.
Holders(k) == {n \in Used(cms) : k \in cms[n].keys}

\* Every key of any usable config map is there, with the value of one of highest
\* priority among those that have it: "higher values take priority and override
\* lower values" (revision_controller.go:454), however the config maps are
\* listed and whatever others hold.
HighestPriorityWins ==
    LET merged == platformValues(cms)
    IN  /\ DOMAIN merged = {k \in Key : Holders(k) # {}}
        /\ \A k \in DOMAIN merged :
              /\ merged[k] \in Holders(k)
              /\ \A n \in Holders(k) : cms[n].prio <= cms[merged[k]].prio

\* Who wins a key does not depend on the config maps that do not have it: when a
\* config map is written, only keys that it has or had can change hands.
OnlyItsOwnKeys ==
    [][cms' # cms => \A n \in Name :
          (\A m \in Name \ {n} : /\ m \in DOMAIN cms <=> m \in DOMAIN cms'
                                 /\ m \in DOMAIN cms => cms'[m] = cms[m])
          => LET before == platformValues(cms)
                 after == platformValues(cms)'
                 had == IF n \in Used(cms) THEN cms[n].keys ELSE {}
                 has == IF n \in Used(cms') THEN cms'[n].keys ELSE {}
             IN  \A k \in Key \ (had \cup has) :
                    /\ k \in DOMAIN before <=> k \in DOMAIN after
                    /\ k \in DOMAIN before => after[k] = before[k]]_cms
=============================================================================
