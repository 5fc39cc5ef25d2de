------------------------------ MODULE Logbook ------------------------------
(***************************************************************************)
(* What the services promise of the logbook: each of their transactions    *)
(* changes at most one flight in it, in one of a few ways, and aircraft    *)
(* are added, removed or edited only in the flight that the user has       *)
(* loaded, recorded or imported.  A failure or a crash changes nothing.    *)
(***************************************************************************)
EXTENDS Integers, Sequences, SequencesExt

CONSTANTS
    Data,       \* what the user edits of an aircraft
    Titles,     \* what the user edits of a flight
    NoFlight    \* no flight of the logbook is the current one

VARIABLES
    logbook,    \* the flights stored, by identifier
    current     \* the current flight

vars == <<logbook, current>>

\* A flight has an aircraft, and one of them is flown by the user.
IsEntry(e) ==
    /\ e.title \in Titles
    /\ \A i \in DOMAIN e.aircraft : e.aircraft[i] \in Data
    /\ e.user \in DOMAIN e.aircraft

\* Aircraft are edited, added at the end, or one of them is removed.
Amends(old, new) ==
    \/ Len(new) = Len(old)
    \/ IsPrefix(old, new)
    \/ \E i \in DOMAIN old : Len(new) = Len(old) - 1 /\ \A j \in DOMAIN new :
            new[j] = IF j < i THEN old[j] ELSE old[j + 1]

Init == logbook = <<>> /\ current = NoFlight

\* No flight but the one given is touched.
OnlyChanges(f) == \A g \in DOMAIN logbook \cap DOMAIN logbook' : g # f => logbook'[g] = logbook[g]

\* A flight is stored and becomes the current one, or is only stored.
Store ==
    \E f \in DOMAIN logbook' \ DOMAIN logbook :
        /\ DOMAIN logbook' = DOMAIN logbook \cup {f}
        /\ OnlyChanges(f)
        /\ IsEntry(logbook'[f])
        /\ current' \in {f, current}

Load == current' \in DOMAIN logbook /\ UNCHANGED logbook

Forget == current' = NoFlight /\ UNCHANGED logbook

Amend ==
    /\ current \in DOMAIN logbook
    /\ DOMAIN logbook' = DOMAIN logbook
    /\ OnlyChanges(current)
    /\ IsEntry(logbook'[current])
    /\ logbook'[current].title = logbook[current].title
    /\ Amends(logbook[current].aircraft, logbook'[current].aircraft)
    /\ UNCHANGED current

Retitle ==
    \E f \in DOMAIN logbook :
        /\ DOMAIN logbook' = DOMAIN logbook
        /\ OnlyChanges(f)
        /\ logbook'[f] = [logbook[f] EXCEPT !.title = logbook'[f].title]
        /\ logbook'[f].title \in Titles
        /\ UNCHANGED current

Delete ==
    \E f \in DOMAIN logbook :
        /\ DOMAIN logbook' = DOMAIN logbook \ {f}
        /\ OnlyChanges(f)
        /\ current' = IF current = f THEN NoFlight ELSE current

Next == Store \/ Load \/ Forget \/ Amend \/ Retitle \/ Delete

Spec == Init /\ [][Next]_vars
=============================================================================
