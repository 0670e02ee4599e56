------------------------------- MODULE Poller -------------------------------
(***************************************************************************)
(* net/Poller.cpp and net/Channel.cpp: the pollfd array of one loop, the   *)
(* map from descriptors to channels, what each channel asks for, and the   *)
(* dispatch of what poll(2) reports.                                       *)
(*                                                                         *)
(* Everything runs in the loop's thread.  What varies is the order: which  *)
(* channels are added, changed and removed, from which callback, while     *)
(* which others are still to be handled.  User code keeps to three rules,  *)
(* as EventLoop, TcpConnection, Acceptor and UdpHandler do: enableReading  *)
(* is the first call on a channel (a second listen repeats it, which       *)
(* changes nothing); removeChannel comes after disableAll and from a       *)
(* queued functor; a removed channel is not used again.                    *)
(*                                                                         *)
(* POLLIN and POLLPRI are one condition, "in".  Descriptors are open while *)
(* their channel is registered: POLLNVAL does not occur.                   *)
(***************************************************************************)
EXTENDS Integers, Sequences, Functions

CONSTANTS
    Channels,       \* the Channel objects
    FdOf,           \* _fd; a descriptor is reused once its channel is removed
    MaxActive       \* bound: the channels one poll(2) reports

ASSUME FdAssumption == FdOf \in [Channels -> Nat]

VARIABLES
    pollfds,        \* _pollfds: events, and the fd, or -fd-1 to have it skipped
    channelMap,     \* _channelMap: a function from descriptors to channels
    events,         \* _events of every channel
    index,          \* _index of every channel, -1 before it is added
    activeChannels, \* _activeChannels not yet handled, each with its _revents
    stage,          \* where the loop is, see Stages
    removed         \* the channels removeChannel was called with (history)

vars == <<pollfds, channelMap, events, index, activeChannels, stage, removed>>

kReadEvent == {"in"}
kWriteEvent == {"out"}
Unasked == {"hup", "err"}       \* poll(2) reports these whatever is asked for
Conditions == kReadEvent \cup kWriteEvent \cup Unasked

\* "functors": outside the dispatch, in a functor or before startLoop; the
\* others: in handleEvent of the first active channel, at each of its tests.
Stages == {"functors", "close", "error", "read", "write"}

Init ==
    /\ pollfds = <<>>
    /\ channelMap = <<>>
    /\ events = [c \in Channels |-> {}]
    /\ index = [c \in Channels |-> -1]
    /\ activeChannels = <<>>
    /\ stage = "functors"
    /\ removed = {}

Registered(c) == index[c] >= 0 /\ c \notin removed

\* The descriptor an entry stands for, and the entry of a channel.
Disabled(fd) == -fd - 1
EntryFd(pfd) == IF pfd.fd < 0 THEN Disabled(pfd.fd) ELSE pfd.fd
Entry(c) == pollfds[index[c] + 1]

-----------------------------------------------------------------------------
(* Poller::updateChannel, as Channel::update calls it.                     *)

\* Slip: the index is the size after the push.
AddChannelOffByOne(c, evts) ==
    /\ index[c] < 0
    /\ pollfds' = Append(pollfds, [fd |-> FdOf[c], events |-> evts])
    /\ index' = [index EXCEPT ![c] = Len(pollfds) + 1]
    /\ channelMap' = [fd \in DOMAIN channelMap \cup {FdOf[c]} |->
                        IF fd = FdOf[c] THEN c ELSE channelMap[fd]]

\* A new channel: an entry at the end.
AddChannel(c, evts) ==
    /\ index[c] < 0
    /\ pollfds' = Append(pollfds, [fd |-> FdOf[c], events |-> evts])
    /\ index' = [index EXCEPT ![c] = Len(pollfds)]
    /\ channelMap' = [fd \in DOMAIN channelMap \cup {FdOf[c]} |->
                        IF fd = FdOf[c] THEN c ELSE channelMap[fd]]

\* Slip: the descriptor follows what is asked for, both ways.
ChangeChannelBothWays(c, evts) ==
    /\ index[c] >= 0
    /\ pollfds' = [pollfds EXCEPT ![index[c] + 1] =
                     [fd |-> IF evts = {} THEN Disabled(FdOf[c]) ELSE FdOf[c],
                      events |-> evts]]
    /\ UNCHANGED <<channelMap, index>>

\* A known one: its entry is changed in place.  The fd is negated when nothing
\* is asked for, and never negated back.
ChangeChannel(c, evts) ==
    /\ index[c] >= 0
    /\ pollfds' = [pollfds EXCEPT ![index[c] + 1] =
                     [fd |-> IF evts = {} THEN Disabled(FdOf[c]) ELSE @.fd,
                      events |-> evts]]
    /\ UNCHANGED <<channelMap, index>>

UpdateChannel(c, evts) ==
    /\ events' = [events EXCEPT ![c] = evts]
    /\ AddChannel(c, evts) \/ ChangeChannel(c, evts)
    /\ UNCHANGED <<activeChannels, stage, removed>>

-----------------------------------------------------------------------------
(* Channel::handleEvent.                                                   *)

\* The callback that the test at a stage is for is run.
Wanted(revents) ==
    \/ stage = "close" /\ "hup" \in revents /\ "in" \notin revents
    \/ stage = "error" /\ "err" \in revents
    \/ stage = "read" /\ "in" \in revents
    \/ stage = "write" /\ "out" \in revents

\* User code runs: in a functor, or in a callback of the first active channel.
InUserCode == stage # "functors" => Wanted(Head(activeChannels).revents)

NextTest ==
    \/ stage = "close" /\ stage' = "error"
    \/ stage = "error" /\ stage' = "read"
    \/ stage = "read" /\ stage' = "write"

\* Slip: the dispatch does not end with the last active channel.
StageDoneGoesOn ==
    /\ \/ /\ stage = "write"
          /\ activeChannels' = Tail(activeChannels)
          /\ stage' = "close"
       \/ NextTest /\ UNCHANGED activeChannels
    /\ UNCHANGED <<pollfds, channelMap, events, index, removed>>

\* On to the next test, the next channel, or doPendingFunctors.
StageDone ==
    /\ \/ /\ stage = "write"
          /\ activeChannels' = Tail(activeChannels)
          /\ stage' = IF activeChannels' = <<>> THEN "functors" ELSE "close"
       \/ NextTest /\ UNCHANGED activeChannels
    /\ UNCHANGED <<pollfds, channelMap, events, index, removed>>

-----------------------------------------------------------------------------
(* The calls user code makes.                                              *)

\* The kernel hands out a descriptor that no registered channel has.
FreeFd(c) == \A d \in Channels : Registered(d) => FdOf[d] # FdOf[c]

EnableReading(c) ==
    /\ InUserCode
    /\ index[c] < 0 /\ FreeFd(c)
    /\ UpdateChannel(c, events[c] \cup kReadEvent)

EnableWriting(c) ==
    /\ InUserCode
    /\ Registered(c)
    /\ UpdateChannel(c, events[c] \cup kWriteEvent)

DisableWriting(c) ==
    /\ InUserCode
    /\ Registered(c)
    /\ UpdateChannel(c, events[c] \ kWriteEvent)

DisableAll(c) ==
    /\ InUserCode
    /\ Registered(c)
    /\ UpdateChannel(c, {})

\* Slip: the channel that fills the gap keeps its old index.
RemoveForgetsIndex(c) ==
    LET last == pollfds[Len(pollfds)]
    IN  /\ channelMap' = Restrict(channelMap, DOMAIN channelMap \ {FdOf[c]})
        /\ pollfds' = SubSeq([pollfds EXCEPT ![index[c] + 1] = last],
                             1, Len(pollfds) - 1)
        /\ UNCHANGED index

\* The map forgets the channel; the last entry takes the place of its entry, and
\* the channel of that entry learns its new index.
RemoveEntry(c) ==
    LET last == pollfds[Len(pollfds)]
    IN  /\ channelMap' = Restrict(channelMap, DOMAIN channelMap \ {FdOf[c]})
        /\ pollfds' = SubSeq([pollfds EXCEPT ![index[c] + 1] = last],
                             1, Len(pollfds) - 1)
        /\ index' = IF index[c] = Len(pollfds) - 1 THEN index
                    ELSE [index EXCEPT ![channelMap[EntryFd(last)]] = index[c]]

\* Poller::removeChannel
RemoveChannel(c) ==
    /\ stage = "functors"
    /\ Registered(c)
    /\ events[c] = {}
    /\ RemoveEntry(c)
    /\ removed' = removed \cup {c}
    /\ UNCHANGED <<events, activeChannels, stage>>

-----------------------------------------------------------------------------
(* Poller::poll and fillActiveChannels.                                    *)

\* poll(2) skips negative descriptors.
Polled(pfd) == pfd.fd >= 0

\* Up to MaxActive entries are ready, none when poll(2) times out, each with
\* some of the conditions it asks for or that come unasked; their channels are
\* handled in the order of the array.
Poll ==
    /\ stage = "functors"
    /\ \E n \in 0 .. MaxActive :
         \E at \in [1 .. n -> {i \in 1 .. Len(pollfds) : Polled(pollfds[i])}],
            revents \in [1 .. n -> (SUBSET Conditions) \ {{}}] :
           /\ \A i, j \in 1 .. n : i < j => at[i] < at[j]
           /\ \A i \in 1 .. n :
                revents[i] \subseteq pollfds[at[i]].events \cup Unasked
           /\ activeChannels' =
                [i \in 1 .. n |-> [channel |-> channelMap[pollfds[at[i]].fd],
                                   revents |-> revents[i]]]
    /\ stage' = IF activeChannels' = <<>> THEN "functors" ELSE "close"
    /\ UNCHANGED <<pollfds, channelMap, events, index, removed>>

Next ==
    \/ \E c \in Channels :
         \/ EnableReading(c) \/ EnableWriting(c)
         \/ DisableWriting(c) \/ DisableAll(c)
         \/ RemoveChannel(c)
    \/ Poll
    \/ StageDone

Spec == Init /\ [][Next]_vars

-----------------------------------------------------------------------------
(* Properties.                                                             *)

Pollfds == [fd : Int, events : SUBSET (kReadEvent \cup kWriteEvent)]

Active == [channel : Channels, revents : SUBSET Conditions]

TypeOK ==
    /\ pollfds \in Seq(Pollfds)
    /\ DOMAIN channelMap \subseteq Nat
    /\ channelMap \in [DOMAIN channelMap -> Channels]
    /\ events \in [Channels -> SUBSET (kReadEvent \cup kWriteEvent)]
    /\ index \in [Channels -> Nat \cup {-1}]
    /\ activeChannels \in Seq(Active)
    /\ stage \in Stages
    /\ removed \subseteq {c \in Channels : index[c] >= 0}
    /\ stage = "functors" <=> activeChannels = <<>>

\* Every registered channel finds its own entry at its index and itself in the
\* map, and asks for what its entry says, after any number of swaps: the
\* assertions at Poller.cpp:65-71, 86-98.
EntriesMatch ==
    \A c \in Channels : Registered(c) =>
        /\ index[c] < Len(pollfds)
        /\ EntryFd(Entry(c)) = FdOf[c]
        /\ Entry(c).events = events[c]
        /\ FdOf[c] \in DOMAIN channelMap
        /\ channelMap[FdOf[c]] = c

\* The array and the map hold nothing else: what poll(2) reports belongs to a
\* channel that is there (Poller.cpp:38-40), and a descriptor the kernel hands
\* out again is new to the map (Poller.cpp:50).
NothingIsLeftBehind ==
    /\ \A i \in 1 .. Len(pollfds) :
         \E c \in Channels : Registered(c) /\ index[c] = i - 1
    /\ \A fd \in DOMAIN channelMap :
         Registered(channelMap[fd]) /\ FdOf[channelMap[fd]] = fd

\* A channel that asks for nothing is skipped by poll(2): nothing is dispatched
\* to a connection between handleClose and connectDestroyed, and removeChannel's
\* assertion at Poller.cpp:97 holds.
QuietIsSkipped ==
    \A c \in Channels :
        Registered(c) /\ events[c] = {} => ~Polled(Entry(c))

\* A channel that waits for its turn in the dispatch, or is in its callbacks, is
\* still registered, whatever the callbacks before it did.
DispatchIsSafe ==
    \A i \in 1 .. Len(activeChannels) : Registered(activeChannels[i].channel)

\* poll(2)'s report goes to channels that asked for something, and says what
\* they asked for, or a hang-up or error.
ReportsAreWanted ==
    [][stage = "functors" /\ stage' # "functors" =>
         \A i \in 1 .. Len(activeChannels') :
             LET a == activeChannels'[i]
             IN  /\ events[a.channel] # {}
                 /\ a.revents \subseteq events[a.channel] \cup Unasked]_vars

\* What the owner of a channel has made of it, and which channels are reported and
\* not handled yet.
Where(c) ==
    IF c \in removed THEN "removed"
    ELSE IF index[c] < 0 THEN "new"
    ELSE IF Polled(Entry(c)) THEN "watched" ELSE "quiet"

Reported == {a.channel : a \in Range(activeChannels)}

\* The array, the map and the swaps come to the set of channels of Registry.  In
\* particular a channel that was disabled is not reported again, though it may
\* ask for something again: a send after handleClose, which _state does not
\* prevent, does not have the connection closed twice.
Interest == INSTANCE Registry WITH
    chan <- [c \in Channels |-> Where(c)],
    reported <- Reported

ImplementsRegistry == Interest!Spec

=============================================================================
