---------------------------- MODULE MC_Telemetry ----------------------------
(* TLC instance of Telemetry: two CCDs of two slots.  Machines with any slots
   fused off, at most one core or sibling offline, and every kind of table. *)
EXTENDS Telemetry

Margins == [s \in AllSlots |-> CASE s = 0 -> -30 [] s = 1 -> 100 [] s = 2 -> -101 [] OTHER -> 20]

Machines(slots, threads, versions) ==
    LET count    == Cardinality(slots)
        siblings == {c + t * count : c \in 1 .. count - 1, t \in 0 .. threads - 1}
    IN  { [slots |-> slots, threads |-> threads, offline |-> offline, version |-> version,
           caches |-> caches, packages |-> 1, margins |-> Margins] :
            offline \in {{}} \cup {{c} : c \in siblings} \cup {{c, c + count} : c \in 1 .. count - 1},
            version \in versions, caches \in BOOLEAN }

Part(from, to) == [from |-> from, to |-> to]
All            == [all |-> TRUE, parts |-> <<>>]
Parts(parts)   == [all |-> FALSE, parts |-> parts]

Session(machine, selection, mode, cycles) ==
    [machine |-> machine, selection |-> selection, mode |-> mode, cycles |-> cycles]

Versions == {\h380805, \h240803, \h101, \h999999}

Numbering ==
    { Session(m, All, "on", 1) : m \in UNION {Machines(s, 1, Versions) : s \in SUBSET AllSlots} }

Selecting ==
    { Session(m, selection, "cycle", 3) :
        m \in Machines({0, 2, 3}, 2, {\h380805}),
        selection \in {All, Parts(<<Part(2, 2), Part(0, 1)>>), Parts(<<Part(1, 1), Part(1, 2)>>),
                       Parts(<<Part(1, 3)>>), Parts(<<Part(1, 0)>>), Parts(<<>>)} }

TwoSockets ==
    { Session([m EXCEPT !.packages = 2], All, "on", 1) : m \in Machines({0, 1}, 1, {\h380805}) }

AllSessions == Numbering \cup Selecting \cup TwoSockets
=============================================================================
