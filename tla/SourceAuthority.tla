--------------------------- MODULE SourceAuthority ---------------------------
(***************************************************************************)
(* Which monitoring window speaks for a star system                        *)
(* (app/server/source_authority.py).  Each window that reports a system has*)
(* one presence row there.  The resident row with the lowest join order is *)
(* the primary; rows of a machine's bare identity stop counting as soon as *)
(* one of its per-window identities has a row, resident or not.            *)
(*                                                                         *)
(* The operators take the table of rows, for the handlers of module        *)
(* Monitoring apply them to tables they have changed half way.             *)
(***************************************************************************)
EXTENDS Integers, Sequences, FiniteSets, FiniteSetsExt, SequencesExt

CONSTANTS
    Clients,    \* window identities, client_id
    Systems,    \* star systems
    Replaces    \* the bare machine identities each window identity replaces

\* A bare machine identity holds no window's mark, so it replaces none itself.
ASSUME ReplacesAssumption ==
    /\ IsFiniteSet(Clients) /\ IsFiniteSet(Systems)
    /\ Replaces \in [Clients -> SUBSET Clients]
    /\ \A c \in Clients : \A parent \in Replaces[c] : Replaces[parent] = {}

Keys == Clients \X Systems

NoRow == [order |-> 0]
NoKey == <<>>

Stored(table) == {k \in Keys : table[k] # NoRow}

\* is_resident_presence: a confirmed zero keeps its residency, a departure or
\* an expiry does not.
Residents(table) == {k \in Stored(table) : ~table[k].left}

ResidentsOf(table, s) == {k \in Residents(table) : k[2] = s}

\* Mutant of NextJoinOrder: residents are counted instead.
NextJoinOrderByCount(table) == 1 + Cardinality(Residents(table))

\* Mutant of NextJoinOrder: the last order is given again.
NextJoinOrderRepeated(table) == Max({table[k].order : k \in Keys})

\* next_join_order: arrival order under the store lock.
NextJoinOrder(table) == 1 + Max({table[k].order : k \in Keys})

\* superseded_parent_clients of some rows, those that have left included.
Superseded(keys) == UNION {Replaces[k[1]] : k \in keys}

\* primary_sources(keys)[s]: the oldest resident among these rows.
PrimaryAmong(table, keys, s) ==
    LET candidates == {k \in keys \cap ResidentsOf(table, s) : k[1] \notin Superseded(keys)}
    IN  IF candidates = {} THEN NoKey
        ELSE CHOOSE k \in candidates :
                \A other \in candidates : table[k].order <= table[other].order

Primary(table, s) == PrimaryAmong(table, Stored(table), s)

\* The residents a takeover by chosen puts behind everybody else, in their
\* old order: those elected before it as the loop removes them one by one.
Displaced(table, chosen) ==
    LET residents == ResidentsOf(table, chosen[2])
        Elected(line, n) ==
            PrimaryAmong(table, residents \ {line[i] : i \in 1..n - 1}, chosen[2])
    IN  CHOOSE line \in SeqOf(residents, Cardinality(residents)) :
            /\ \A n \in DOMAIN line : line[n] = Elected(line, n) /\ line[n] # chosen
            /\ Elected(line, Len(line) + 1) = chosen

Requeue(table, chosen) ==
    LET line == Displaced(table, chosen)
        order == NextJoinOrder(table)
    IN  [k \in Keys |->
            IF \E i \in DOMAIN line : line[i] = k
            THEN [table[k] EXCEPT !.order = order - 1 + CHOOSE i \in DOMAIN line : line[i] = k]
            ELSE table[k]]
=============================================================================
