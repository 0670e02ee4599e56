------------------------------ MODULE Registry ------------------------------
(***************************************************************************)
(* What the Poller is to the owners of channels: which channels it knows,  *)
(* what each asks for, and which of them the last poll(2) reported.  It    *)
(* says what an owner may rely on, that a channel which was disabled is    *)
(* not reported again, and what an owner has to see to, that a channel is  *)
(* disabled before it is removed and not removed while a report is         *)
(* handled.  Poller implements this module; the connections of TcpServer   *)
(* use their channels as it allows.                                        *)
(***************************************************************************)
CONSTANT Channels

VARIABLES
    chan,           \* "new", "watched", "quiet" (it was disabled) or "removed"
    events,         \* what every channel asks for
    reported        \* the channels reported and still to be handled

registryVars == <<chan, events, reported>>

Init ==
    /\ chan = [c \in Channels |-> "new"]
    /\ events = [c \in Channels |-> {}]
    /\ reported = {}

Becomes(c, where) == chan' = [chan EXCEPT ![c] = where]

AsksFor(c, evts) == events' = [events EXCEPT ![c] = evts]

Something == (SUBSET {"in", "out"}) \ {{}}

Known(c) == chan[c] \in {"watched", "quiet"}

\* The first call: it asks for something.
Adds(c) ==
    /\ chan[c] = "new"
    /\ Becomes(c, "watched")
    /\ \E evts \in Something : AsksFor(c, evts)

\* It asks for something else.  One that was disabled may, but stays quiet.
Changes(c) ==
    /\ Known(c)
    /\ \E evts \in Something : AsksFor(c, evts)
    /\ UNCHANGED chan

Disables(c) ==
    /\ Known(c)
    /\ Becomes(c, "quiet")
    /\ AsksFor(c, {})

\* Every report was handled before: no pointer to the channel is left.
Removes(c) ==
    /\ chan[c] = "quiet"
    /\ events[c] = {}
    /\ reported = {}
    /\ Becomes(c, "removed")
    /\ UNCHANGED <<events, reported>>

\* poll(2), once what it reported before is handled.
Reports ==
    /\ reported = {}
    /\ reported' \subseteq {c \in Channels : chan[c] = "watched"}
    /\ UNCHANGED <<chan, events>>

\* Channels are handled; what they ask for may change meanwhile.
Handles == reported' \subseteq reported

Next ==
    \/ UNCHANGED <<events, chan>> /\ Handles
    \/ \E c \in Channels : (Adds(c) \/ Changes(c) \/ Disables(c)) /\ Handles
    \/ \E c \in Channels : Removes(c)
    \/ Reports

Spec == Init /\ [][Next]_registryVars

=============================================================================
