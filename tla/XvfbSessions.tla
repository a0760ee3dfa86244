---------------------------- MODULE XvfbSessions ----------------------------
(***************************************************************************)
(* The session pool of the service (class XvfbSessions): a vector of slots *)
(* that hold a session or nothing.  A session is named by its display      *)
(* number, which the service never uses twice; 0 is an empty slot (a null  *)
(* pointer).  Every operator is one method of the class; each of them runs *)
(* under lockSessions, so the actions built on them are atomic.            *)
(***************************************************************************)
EXTENDS Naturals, Sequences, FiniteSets

Empty == 0

SlotsOf(pool, d) == {i \in DOMAIN pool : pool[i] = d}

FirstSlot(pool, d) ==
    CHOOSE i \in SlotsOf(pool, d) : \A j \in SlotsOf(pool, d) : i <= j

\* getValidSessions, countValidSessions, findDisplaySession: the non-null slots
ValidSessions(pool) == {pool[i] : i \in DOMAIN pool} \ {Empty}

\* no session is in two slots
OneSlotEach(pool) ==
    \A i, j \in DOMAIN pool : pool[i] = pool[j] /\ pool[i] # Empty => i = j

\* does some slot hold the display (or, for Empty, is some slot free)
Holds(pool, d) == SlotsOf(pool, d) # {}

IsSessionsFull(pool) == \A i \in DOMAIN pool : pool[i] # Empty

AppendNewSession(pool, d) == [pool EXCEPT ![FirstSlot(pool, Empty)] = d]

\* fault: every slot is reset
RemoveAllSessions(pool, d) == [i \in DOMAIN pool |-> Empty]

\* the first matching slot only, as find_if does
RemoveDisplaySession(pool, d) ==
    IF Holds(pool, d) THEN [pool EXCEPT ![FirstSlot(pool, d)] = Empty] ELSE pool

\* sessionsResize only ever grows the vector
SessionsResize(pool, n) ==
    IF n > Len(pool)
    THEN [i \in 1..n |-> IF i <= Len(pool) THEN pool[i] ELSE Empty]
    ELSE pool

\* front() of a list that was filled front-first: the match in the last slot
LastMatch(pool, S) ==
    pool[CHOOSE i \in DOMAIN pool :
            /\ pool[i] \in S
            /\ \A j \in DOMAIN pool : pool[j] \in S => j <= i]
=============================================================================
