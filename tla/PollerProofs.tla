---------------------------- MODULE PollerProofs ----------------------------
(***************************************************************************)
(* Proofs about Poller: the array, the map and the indexes stay consistent *)
(* through every addition, change and swap-removal, for any number of      *)
(* channels and descriptors, and what that gives the dispatch.             *)
(***************************************************************************)
EXTENDS Poller, SequenceTheorems, TLAPS

\* The five properties are inductive only together: a removal finds the channel
\* of the last entry through the map, and a report finds its channel there too.
PollerInv ==
    /\ TypeOK
    /\ EntriesMatch
    /\ NothingIsLeftBehind
    /\ QuietIsSkipped
    /\ DispatchIsSafe

USE DEF kReadEvent, kWriteEvent, Unasked, Conditions, Stages

-----------------------------------------------------------------------------

\* An entry of the array is a record of its type.
LEMMA EntryType ==
    ASSUME TypeOK, NEW i \in 1 .. Len(pollfds)
    PROVE  /\ pollfds[i] \in Pollfds
           /\ pollfds[i].fd \in Int
           /\ pollfds[i].events \in SUBSET (kReadEvent \cup kWriteEvent)
<1>1. pollfds[i] \in Pollfds
  BY ElementOfSeq DEF TypeOK
<1> QED BY <1>1 DEF Pollfds

\* The index of a registered channel is in the array.
LEMMA IndexInArray ==
    ASSUME TypeOK, EntriesMatch, NEW c \in Channels, Registered(c)
    PROVE  /\ index[c] \in Nat
           /\ Len(pollfds) \in Nat
           /\ index[c] + 1 \in 1 .. Len(pollfds)
<1>1. Len(pollfds) \in Nat
  BY LenProperties DEF TypeOK
<1>2. index[c] \in Nat /\ index[c] < Len(pollfds)
  BY DEF TypeOK, EntriesMatch, Registered
<1> QED BY <1>1, <1>2

\* Registered channels have different descriptors, and different indexes.
LEMMA RegisteredDiffer ==
    ASSUME TypeOK, EntriesMatch,
           NEW c \in Channels, Registered(c),
           NEW d \in Channels, Registered(d),
           FdOf[c] = FdOf[d] \/ index[c] = index[d]
    PROVE  c = d
BY DEF EntriesMatch, Entry

\* An empty poller is consistent.
LEMMA PollerInit == Init => PollerInv
<1> SUFFICES ASSUME Init PROVE PollerInv
  OBVIOUS
<1>1. TypeOK
  BY EmptySeq DEF Init, TypeOK
<1>2. \A c \in Channels : ~Registered(c)
  BY DEF Init, Registered
<1>3. Len(pollfds) = 0 /\ Len(activeChannels) = 0 /\ DOMAIN channelMap = {}
  BY DEF Init
<1> QED
  BY <1>1, <1>2, <1>3
     DEF PollerInv, EntriesMatch, NothingIsLeftBehind, QuietIsSkipped,
         DispatchIsSafe

-----------------------------------------------------------------------------
(* updateChannel.                                                          *)

\* A new channel takes a new entry at the end.
LEMMA AddKeeps ==
    ASSUME PollerInv, NEW c \in Channels, FreeFd(c),
           NEW evts \in (SUBSET (kReadEvent \cup kWriteEvent)) \ {{}},
           AddChannel(c, evts),
           events' = [events EXCEPT ![c] = evts],
           UNCHANGED <<activeChannels, stage, removed>>
    PROVE  /\ PollerInv'
           /\ ~Registered(c) /\ Registered(c)' /\ Polled(Entry(c))'
           /\ \A d \in Channels \ {c} :
                /\ index'[d] = index[d]
                /\ Registered(d) => Entry(d)' = Entry(d)
<1> USE DEF PollerInv, AddChannel
<1> DEFINE new == [fd |-> FdOf[c], events |-> evts]
<1>1. Len(pollfds) \in Nat /\ FdOf[c] \in Nat /\ new \in Pollfds
  <2>1. Len(pollfds) \in Nat
    BY LenProperties DEF TypeOK
  <2>2. FdOf[c] \in Nat
    BY FdAssumption
  <2> QED BY <2>1, <2>2 DEF Pollfds
<1>2. /\ pollfds' \in Seq(Pollfds)
      /\ Len(pollfds') = Len(pollfds) + 1
      /\ \A i \in 1 .. Len(pollfds) : pollfds'[i] = pollfds[i]
      /\ pollfds'[Len(pollfds) + 1] = new
  BY <1>1, AppendProperties DEF TypeOK
<1>3. TypeOK'
  BY <1>1, <1>2 DEF TypeOK
<1>4. /\ \A d \in Channels :
           index'[d] = IF d = c THEN Len(pollfds) ELSE index[d]
      /\ \A d \in Channels : Registered(d)' <=> (d = c \/ Registered(d))
      /\ ~Registered(c)
  BY <1>1 DEF TypeOK, Registered
<1>5. \A d \in Channels : Registered(d) =>
        /\ d # c
        /\ FdOf[d] # FdOf[c]
        /\ Entry(d)' = Entry(d)
        /\ events'[d] = events[d]
  <2> SUFFICES ASSUME NEW d \in Channels, Registered(d)
               PROVE  /\ d # c
                      /\ FdOf[d] # FdOf[c]
                      /\ Entry(d)' = Entry(d)
                      /\ events'[d] = events[d]
    OBVIOUS
  <2>1. d # c /\ FdOf[d] # FdOf[c]
    BY <1>4 DEF FreeFd
  <2>2. index[d] + 1 \in 1 .. Len(pollfds)
    BY IndexInArray
  <2> QED BY <1>2, <1>4, <2>1, <2>2 DEF Entry, TypeOK
<1>6. Entry(c)' = new /\ events'[c] = evts
  BY <1>1, <1>2, <1>4 DEF Entry, TypeOK
<1>7. EntriesMatch'
  <2> SUFFICES ASSUME NEW d \in Channels, Registered(d)'
               PROVE  /\ index'[d] < Len(pollfds')
                      /\ EntryFd(Entry(d)') = FdOf[d]
                      /\ Entry(d)'.events = events'[d]
                      /\ FdOf[d] \in DOMAIN channelMap'
                      /\ channelMap'[FdOf[d]] = d
    BY DEF EntriesMatch, EntryFd, Disabled
  <2>1. CASE d = c
    BY <1>1, <1>2, <1>4, <1>6, <2>1 DEF EntryFd
  <2>2. CASE d # c
    <3>1. Registered(d)
      BY <1>4, <2>2
    <3> QED
      BY <1>1, <1>2, <1>4, <1>5, <2>2, <3>1, IndexInArray
         DEF EntriesMatch, EntryFd
  <2> QED BY <2>1, <2>2
<1>8. NothingIsLeftBehind'
  <2>1. ASSUME NEW i \in 1 .. Len(pollfds')
        PROVE  \E d \in Channels : Registered(d)' /\ index'[d] = i - 1
    <3>1. CASE i = Len(pollfds) + 1
      BY <1>1, <1>4, <3>1
    <3>2. CASE i \in 1 .. Len(pollfds)
      <4>1. PICK d \in Channels : Registered(d) /\ index[d] = i - 1
        BY <3>2 DEF NothingIsLeftBehind
      <4> QED BY <1>4, <1>5, <4>1
    <3> QED BY <1>1, <1>2, <3>1, <3>2
  <2>2. ASSUME NEW fd \in DOMAIN channelMap'
        PROVE  (Registered(channelMap[fd]) /\ FdOf[channelMap[fd]] = fd)'
    <3> DEFINE d == channelMap'[fd]
    <3>1. d \in Channels /\ FdOf[d] = fd /\ (d = c \/ Registered(d))
      BY DEF NothingIsLeftBehind, TypeOK
    <3> QED BY <1>4, <3>1 DEF Registered
  <2> QED BY <2>1, <2>2 DEF NothingIsLeftBehind
<1>9. QuietIsSkipped'
  <2> SUFFICES ASSUME NEW d \in Channels, Registered(d)', events'[d] = {}
               PROVE  ~Polled(Entry(d)')
    BY DEF QuietIsSkipped, Polled
  <2> QED BY <1>4, <1>5, <1>6 DEF QuietIsSkipped
<1>10. DispatchIsSafe'
  <2> SUFFICES ASSUME NEW i \in 1 .. Len(activeChannels)
               PROVE  Registered(activeChannels[i].channel)'
    BY DEF DispatchIsSafe
  <2>1. activeChannels[i] \in Active
    BY ElementOfSeq DEF TypeOK
  <2> QED BY <1>4, <2>1 DEF DispatchIsSafe, Active
<1>11. Polled(Entry(c))'
  <2>1. Entry(c)'.fd = FdOf[c]
    BY <1>6
  <2>2. FdOf[c] >= 0
    BY <1>1
  <2> HIDE DEF AddChannel
  <2> QED BY <2>1, <2>2 DEF Polled
<1> QED BY <1>3, <1>4, <1>5, <1>7, <1>8, <1>9, <1>10, <1>11

\* A known channel keeps its entry, which now says what the channel asks for.
LEMMA ChangeKeeps ==
    ASSUME PollerInv, NEW c \in Channels, Registered(c),
           NEW evts \in SUBSET (kReadEvent \cup kWriteEvent),
           ChangeChannel(c, evts),
           events' = [events EXCEPT ![c] = evts],
           UNCHANGED <<activeChannels, stage, removed>>
    PROVE  /\ PollerInv'
           /\ index' = index
           /\ \A d \in Channels : Registered(d) =>
                Polled(Entry(d))' <=> Polled(Entry(d)) /\ (d = c => evts # {})
<1> USE DEF PollerInv, ChangeChannel
<1> DEFINE at == index[c] + 1
           new == [fd |-> IF evts = {} THEN Disabled(FdOf[c]) ELSE Entry(c).fd,
                   events |-> evts]
<1>1. at \in 1 .. Len(pollfds) /\ Len(pollfds) \in Nat /\ index[c] \in Nat
  BY IndexInArray
<1>2. FdOf[c] \in Nat /\ Entry(c).fd \in Int /\ EntryFd(Entry(c)) = FdOf[c]
  BY <1>1, EntryType, FdAssumption DEF Entry, EntriesMatch
<1>3. new \in Pollfds /\ EntryFd(new) = FdOf[c]
  BY <1>2 DEF Pollfds, EntryFd, Disabled
<1>4. /\ pollfds' \in Seq(Pollfds)
      /\ Len(pollfds') = Len(pollfds)
      /\ \A i \in 1 .. Len(pollfds) :
           pollfds'[i] = IF i = at THEN new ELSE pollfds[i]
  <2>1. pollfds' = [pollfds EXCEPT ![at] = new]
    BY <1>1 DEF Entry, TypeOK
  <2> QED BY <1>1, <1>3, <2>1, ExceptSeq DEF TypeOK
<1>5. /\ index' = index
      /\ \A d : Registered(d)' <=> Registered(d)
      /\ channelMap' = channelMap
  BY DEF Registered
<1>6. TypeOK'
  BY <1>4, <1>5 DEF TypeOK
<1>7. \A d \in Channels : Registered(d) =>
        Entry(d)' = IF d = c THEN new ELSE Entry(d)
  <2> SUFFICES ASSUME NEW d \in Channels, Registered(d)
               PROVE  Entry(d)' = IF d = c THEN new ELSE Entry(d)
    OBVIOUS
  <2>1. index[d] + 1 \in 1 .. Len(pollfds) /\ index[d] \in Nat
    BY IndexInArray
  <2>2. d # c => index[d] # index[c]
    BY RegisteredDiffer
  <2> QED BY <1>1, <1>4, <1>5, <2>1, <2>2 DEF Entry
<1>8. \A d \in Channels : events'[d] = IF d = c THEN evts ELSE events[d]
  BY DEF TypeOK
<1>9. EntriesMatch'
  <2> SUFFICES ASSUME NEW d \in Channels, Registered(d)
               PROVE  /\ index[d] < Len(pollfds)
                      /\ EntryFd(Entry(d)') = FdOf[d]
                      /\ Entry(d)'.events = events'[d]
                      /\ FdOf[d] \in DOMAIN channelMap
                      /\ channelMap[FdOf[d]] = d
    BY <1>4, <1>5 DEF EntriesMatch, EntryFd, Disabled
  <2> QED BY <1>3, <1>7, <1>8 DEF EntriesMatch
<1>10. NothingIsLeftBehind'
  BY <1>4, <1>5 DEF NothingIsLeftBehind, Registered
<1>11. QuietIsSkipped'
  <2> SUFFICES ASSUME NEW d \in Channels, Registered(d), events'[d] = {}
               PROVE  ~Polled(Entry(d)')
    BY <1>5 DEF QuietIsSkipped, Polled
  <2>1. CASE d = c
    <3>1. Entry(d)'.fd = -FdOf[c] - 1
      BY <1>7, <1>8, <2>1 DEF Disabled
    <3> QED BY <1>2, <3>1 DEF Polled
  <2>2. CASE d # c
    BY <1>7, <1>8, <2>2 DEF QuietIsSkipped
  <2> QED BY <2>1, <2>2
<1>12. DispatchIsSafe'
  BY <1>5 DEF DispatchIsSafe, Registered
<1>13. ASSUME NEW d \in Channels, Registered(d)
       PROVE  Polled(Entry(d))' <=> Polled(Entry(d)) /\ (d = c => evts # {})
  <2>1. Polled(Entry(d))' <=> Entry(d)'.fd >= 0
    BY DEF Polled
  <2>2. CASE d # c
    <3>1. Entry(d)' = Entry(d)
      BY <1>7, <1>13, <2>2
    <3> QED BY <2>1, <2>2, <3>1 DEF Polled
  <2>3. CASE d = c
    <3>1. Entry(c)' = new
      BY <1>7, <1>13, <2>3
    <3>2. CASE evts = {}
      <4>1. Entry(c)'.fd = -FdOf[c] - 1
        BY <3>1, <3>2 DEF Disabled
      <4>2. ~(Entry(c)'.fd >= 0)
        BY <1>2, <4>1
      <4> QED BY <2>1, <2>3, <3>2, <4>2
    <3>3. CASE evts # {}
      <4>1. Entry(c)'.fd = Entry(c).fd
        BY <3>1, <3>3
      <4> QED BY <2>1, <2>3, <3>3, <4>1 DEF Polled
    <3> QED BY <3>2, <3>3
  <2> QED BY <2>2, <2>3
<1> QED BY <1>5, <1>6, <1>9, <1>10, <1>11, <1>12, <1>13

-----------------------------------------------------------------------------
(* removeChannel.                                                          *)

\* The channel of the last entry is the one the map gives for it, and the only
\* one whose index changes.
LEMMA RemoveKeeps ==
    ASSUME PollerInv, NEW c \in Channels, RemoveChannel(c)
    PROVE  /\ PollerInv'
           /\ activeChannels = <<>> /\ ~Polled(Entry(c))
           /\ \A d \in Channels \ {c} :
                /\ index'[d] < 0 <=> index[d] < 0
                /\ Registered(d) => Entry(d)' = Entry(d)
<1> USE DEF PollerInv, RemoveChannel
<1> DEFINE n == Len(pollfds)
           at == index[c] + 1
           lastCh == channelMap[EntryFd(pollfds[n])]
           filled == [pollfds EXCEPT ![at] = pollfds[n]]
<1>1. at \in 1 .. n /\ n \in Nat /\ n > 0 /\ index[c] \in Nat
  BY IndexInArray
<1>2. lastCh \in Channels /\ Registered(lastCh) /\ index[lastCh] = n - 1
  <2>1. PICK d \in Channels : Registered(d) /\ index[d] = n - 1
    BY <1>1 DEF NothingIsLeftBehind
  <2>2. Entry(d) = pollfds[n]
    BY <1>1, <2>1 DEF Entry
  <2>3. EntryFd(pollfds[n]) = FdOf[d] /\ channelMap[FdOf[d]] = d
    BY <2>1, <2>2 DEF EntriesMatch
  <2> QED BY <2>1, <2>3
<1>3. index[c] = n - 1 <=> c = lastCh
  BY <1>1, <1>2, RegisteredDiffer
<1>4. /\ pollfds' \in Seq(Pollfds)
      /\ Len(pollfds') = n - 1
      /\ \A i \in 1 .. n - 1 :
           pollfds'[i] = IF i = at THEN pollfds[n] ELSE pollfds[i]
  <2>1. /\ filled \in Seq(Pollfds)
        /\ Len(filled) = n
        /\ \A i \in 1 .. n :
             filled[i] = IF i = at THEN pollfds[n] ELSE pollfds[i]
    BY <1>1, EntryType, ExceptSeq DEF TypeOK
  <2>2. \A i \in 1 .. n - 1 : filled[i] \in Pollfds
    BY <1>1, <2>1, ElementOfSeq
  <2>3. pollfds' = SubSeq(filled, 1, n - 1)
    BY DEF RemoveEntry
  <2> QED BY <1>1, <2>1, <2>2, <2>3, SubSeqProperties
<1>5. \A d \in Channels :
        /\ Registered(d)' <=> Registered(d) /\ d # c
        /\ Registered(d)' =>
             index'[d] = IF d = lastCh THEN index[c] ELSE index[d]
  BY <1>1, <1>2, <1>3 DEF RemoveEntry, Registered, TypeOK
<1>6. /\ DOMAIN channelMap' = DOMAIN channelMap \ {FdOf[c]}
      /\ \A fd \in DOMAIN channelMap' : channelMap'[fd] = channelMap[fd]
  BY DEF RemoveEntry, Restrict
<1>7. TypeOK'
  <2>1. index' \in [Channels -> Nat \cup {-1}]
    BY <1>1, <1>2 DEF RemoveEntry, TypeOK
  <2>2. \A d \in removed' : index'[d] >= 0
    BY <1>1, <1>2, <1>3 DEF RemoveEntry, TypeOK
  <2>3. channelMap' \in [DOMAIN channelMap' -> Channels]
    BY <1>6 DEF RemoveEntry, Restrict, TypeOK
  <2> QED BY <1>4, <1>6, <2>1, <2>2, <2>3 DEF TypeOK
<1>8. \A d \in Channels : Registered(d)' =>
        Registered(d) /\ d # c /\ FdOf[d] # FdOf[c] /\ Entry(d)' = Entry(d)
  <2> SUFFICES ASSUME NEW d \in Channels, Registered(d)'
               PROVE  /\ Registered(d) /\ d # c /\ FdOf[d] # FdOf[c]
                      /\ Entry(d)' = Entry(d)
    OBVIOUS
  <2>1. Registered(d) /\ d # c
    BY <1>5
  <2>2. FdOf[d] # FdOf[c] /\ index[d] # index[c]
    BY <2>1, RegisteredDiffer
  <2>3. index[d] \in Nat /\ index[d] + 1 \in 1 .. n
    BY <2>1, IndexInArray
  <2>4. CASE d = lastCh
    <3>1. index'[d] = index[c] /\ index[c] + 1 \in 1 .. n - 1
      BY <1>1, <1>2, <1>5, <2>2, <2>4
    <3>2. Entry(d)' = pollfds[n]
      BY <1>4, <3>1 DEF Entry
    <3> QED BY <1>1, <1>2, <2>1, <2>2, <2>4, <3>2 DEF Entry
  <2>5. CASE d # lastCh
    <3>1. index'[d] = index[d] /\ index[d] # n - 1
      BY <1>2, <1>5, <2>1, <2>5, RegisteredDiffer
    <3>2. index[d] + 1 \in 1 .. n - 1 /\ index[d] + 1 # at
      BY <1>1, <2>2, <2>3, <3>1
    <3> QED BY <1>4, <2>1, <2>2, <3>1, <3>2 DEF Entry
  <2> QED BY <2>4, <2>5
<1>9. EntriesMatch'
  <2> SUFFICES ASSUME NEW d \in Channels, Registered(d)'
               PROVE  /\ index'[d] < Len(pollfds')
                      /\ EntryFd(Entry(d)') = FdOf[d]
                      /\ Entry(d)'.events = events[d]
                      /\ FdOf[d] \in DOMAIN channelMap'
                      /\ channelMap'[FdOf[d]] = d
    BY DEF EntriesMatch, EntryFd, Disabled
  <2>1. Registered(d) /\ d # c /\ FdOf[d] # FdOf[c] /\ Entry(d)' = Entry(d)
    BY <1>8
  <2>2. index'[d] < Len(pollfds')
    <3>1. index[d] \in Nat /\ index[d] + 1 \in 1 .. n /\ index[d] # index[c]
      BY <2>1, IndexInArray, RegisteredDiffer
    <3>2. d # lastCh => index[d] # n - 1
      BY <1>2, <2>1, RegisteredDiffer
    <3> QED BY <1>1, <1>2, <1>4, <1>5, <3>1, <3>2
  <2> QED BY <1>6, <2>1, <2>2 DEF EntriesMatch
<1>10. NothingIsLeftBehind'
  <2>1. ASSUME NEW i \in 1 .. Len(pollfds')
        PROVE  \E d \in Channels : Registered(d)' /\ index'[d] = i - 1
    <3>1. i \in 1 .. n - 1
      BY <1>1, <1>4
    <3>2. CASE i = at
      BY <1>1, <1>2, <1>3, <1>5, <3>1, <3>2
    <3>3. CASE i # at
      <4>1. PICK d \in Channels : Registered(d) /\ index[d] = i - 1
        BY <1>1, <3>1 DEF NothingIsLeftBehind
      <4>2. d # c /\ d # lastCh
        BY <1>1, <1>2, <3>1, <3>3, <4>1
      <4> QED BY <1>5, <4>1, <4>2
    <3> QED BY <3>2, <3>3
  <2>2. ASSUME NEW fd \in DOMAIN channelMap'
        PROVE  (Registered(channelMap[fd]) /\ FdOf[channelMap[fd]] = fd)'
    <3> DEFINE d == channelMap'[fd]
    <3>1. d \in Channels /\ Registered(d) /\ FdOf[d] = fd /\ d # c
      BY <1>6 DEF NothingIsLeftBehind, TypeOK
    <3> QED BY <1>5, <3>1 DEF Registered
  <2> QED BY <2>1, <2>2 DEF NothingIsLeftBehind
<1>11. QuietIsSkipped'
  <2> SUFFICES ASSUME NEW d \in Channels, Registered(d)', events[d] = {}
               PROVE  ~Polled(Entry(d)')
    BY DEF QuietIsSkipped, Polled
  <2> QED BY <1>8 DEF QuietIsSkipped
<1>12. DispatchIsSafe'
  <2>1. Len(activeChannels') = 0
    BY DEF TypeOK
  <2> QED BY <2>1 DEF DispatchIsSafe
<1>13. activeChannels = <<>> /\ ~Polled(Entry(c))
  BY DEF TypeOK, QuietIsSkipped
<1>14. \A d \in Channels \ {c} :
         /\ index'[d] < 0 <=> index[d] < 0
         /\ Registered(d) => Entry(d)' = Entry(d)
  <2>1. \A d \in Channels : index'[d] < 0 <=> index[d] < 0
    BY <1>1, <1>2 DEF RemoveEntry, TypeOK, Registered
  <2> QED BY <1>5, <1>8, <2>1
<1> QED BY <1>7, <1>9, <1>10, <1>11, <1>12, <1>13, <1>14

-----------------------------------------------------------------------------
(* The dispatch.                                                           *)

\* What poll(2) reports at a position of the array belongs to the registered
\* channel whose entry it is.
LEMMA ReportedChannel ==
    ASSUME PollerInv, NEW i \in 1 .. Len(pollfds), Polled(pollfds[i])
    PROVE  LET d == channelMap[pollfds[i].fd]
           IN  d \in Channels /\ Registered(d) /\ Entry(d) = pollfds[i]
<1> USE DEF PollerInv
<1>1. PICK d \in Channels : Registered(d) /\ index[d] = i - 1
  BY DEF NothingIsLeftBehind
<1>2. Entry(d) = pollfds[i]
  BY <1>1, LenProperties DEF Entry, TypeOK
<1>3. pollfds[i].fd \in Int /\ pollfds[i].fd >= 0
  BY EntryType DEF Polled
<1>4. pollfds[i].fd = FdOf[d] /\ channelMap[FdOf[d]] = d
  BY <1>1, <1>2, <1>3 DEF EntriesMatch, EntryFd
<1> QED BY <1>1, <1>2, <1>4

\* All that poll(2) reports: the channels are registered, they asked for
\* something, and for what is reported unless it comes unasked.
LEMMA PollReports ==
    ASSUME PollerInv, Poll
    PROVE  /\ activeChannels' \in Seq(Active)
           /\ \A i \in 1 .. Len(activeChannels') :
                LET a == activeChannels'[i]
                IN  /\ Registered(a.channel) /\ Polled(Entry(a.channel))
                    /\ events[a.channel] # {}
                    /\ a.revents \subseteq events[a.channel] \cup Unasked
<1> USE DEF PollerInv
<1> DEFINE Report(n, at, revents) ==
        /\ \A i \in 1 .. n :
             revents[i] \subseteq pollfds[at[i]].events \cup Unasked
        /\ activeChannels' =
             [i \in 1 .. n |-> [channel |-> channelMap[pollfds[at[i]].fd],
                                revents |-> revents[i]]]
<1>0. PICK n \in 0 .. MaxActive :
        \E at \in [1 .. n -> {i \in 1 .. Len(pollfds) : Polled(pollfds[i])}],
           revents \in [1 .. n -> (SUBSET Conditions) \ {{}}] :
          Report(n, at, revents)
  BY DEF Poll
<1>1. PICK at \in [1 .. n -> {i \in 1 .. Len(pollfds) : Polled(pollfds[i])}],
           revents \in [1 .. n -> (SUBSET Conditions) \ {{}}] :
        Report(n, at, revents)
  BY <1>0
<1>2. n \in Nat
  OBVIOUS
<1>3. \A i \in 1 .. n :
        LET d == channelMap[pollfds[at[i]].fd]
        IN  d \in Channels /\ Registered(d) /\ Entry(d) = pollfds[at[i]]
  BY ReportedChannel
<1>4. \A i \in 1 .. n : activeChannels'[i] \in Active
  BY <1>1, <1>3 DEF Active
<1>5. activeChannels' \in Seq(Active) /\ Len(activeChannels') = n
  <2>1. activeChannels' \in [1 .. n -> Active]
    BY <1>1, <1>4
  <2> QED BY <1>2, <2>1, SeqDef
<1>6. ASSUME NEW i \in 1 .. n
      PROVE  LET a == activeChannels'[i]
             IN  /\ Registered(a.channel) /\ Polled(Entry(a.channel))
                 /\ events[a.channel] # {}
                 /\ a.revents \subseteq events[a.channel] \cup Unasked
  <2> DEFINE d == channelMap[pollfds[at[i]].fd]
  <2>1. activeChannels'[i] = [channel |-> d, revents |-> revents[i]]
    BY <1>1
  <2>2. d \in Channels /\ Registered(d) /\ Entry(d) = pollfds[at[i]]
    BY <1>3
  <2>3. Entry(d).events = events[d] /\ Polled(Entry(d))
    BY <2>2 DEF EntriesMatch
  <2>4. events[d] # {}
    BY <2>2, <2>3 DEF QuietIsSkipped
  <2> QED BY <1>1, <2>1, <2>2, <2>3, <2>4
<1> QED BY <1>5, <1>6

\* poll reports registered channels.
LEMMA PollKeeps ==
    ASSUME PollerInv, Poll
    PROVE  PollerInv'
<1> USE DEF PollerInv, Poll
<1>1. TypeOK'
  BY PollReports DEF TypeOK
<1>2. DispatchIsSafe'
  BY PollReports DEF DispatchIsSafe, Registered
<1>3. EntriesMatch' /\ NothingIsLeftBehind' /\ QuietIsSkipped'
  BY DEF EntriesMatch, NothingIsLeftBehind, QuietIsSkipped, Registered, Entry,
         EntryFd, Disabled, Polled
<1> QED BY <1>1, <1>2, <1>3

\* The dispatch takes channels off the report only.
LEMMA StageKeeps ==
    ASSUME PollerInv, StageDone
    PROVE  PollerInv'
<1> USE DEF PollerInv, StageDone
<1>1. activeChannels # <<>>
  BY DEF TypeOK, NextTest
<1>2. activeChannels' = activeChannels \/ activeChannels' = Tail(activeChannels)
  OBVIOUS
<1>3. activeChannels' \in Seq(Active)
  BY <1>1, <1>2, HeadTailProperties, SMTT(30) DEF TypeOK
<1>4. TypeOK'
  BY <1>1, <1>3 DEF TypeOK, NextTest
<1>5. DispatchIsSafe'
  <2>1. CASE activeChannels' = activeChannels
    BY <2>1 DEF DispatchIsSafe, Registered
  <2>2. CASE activeChannels' = Tail(activeChannels)
    <3>1. /\ Len(activeChannels) \in Nat
          /\ Len(Tail(activeChannels)) = Len(activeChannels) - 1
          /\ \A i \in 1 .. Len(Tail(activeChannels)) :
               Tail(activeChannels)[i] = activeChannels[i + 1]
      BY <1>1, HeadTailProperties, LenProperties DEF TypeOK
    <3> QED BY <2>2, <3>1 DEF DispatchIsSafe, Registered
  <2> QED BY <1>2, <2>1, <2>2
<1>6. EntriesMatch' /\ NothingIsLeftBehind' /\ QuietIsSkipped'
  BY DEF EntriesMatch, NothingIsLeftBehind, QuietIsSkipped, Registered, Entry,
         EntryFd, Disabled, Polled
<1> QED BY <1>4, <1>5, <1>6

-----------------------------------------------------------------------------

\* Every step keeps the invariant.
LEMMA PollerStep == PollerInv /\ [Next]_vars => PollerInv'
<1> SUFFICES ASSUME PollerInv, [Next]_vars PROVE PollerInv'
  OBVIOUS
<1>1. ASSUME NEW c \in Channels, EnableReading(c)
      PROVE  PollerInv'
  <2>1. events[c] \cup kReadEvent
          \in (SUBSET (kReadEvent \cup kWriteEvent)) \ {{}}
    BY DEF PollerInv, TypeOK
  <2>2. ~(index[c] >= 0)
    BY <1>1 DEF EnableReading, PollerInv, TypeOK
  <2> QED
    BY <1>1, <2>1, <2>2, AddKeeps
       DEF EnableReading, UpdateChannel, ChangeChannel
<1>2. ASSUME NEW c \in Channels,
             EnableWriting(c) \/ DisableWriting(c) \/ DisableAll(c)
      PROVE  PollerInv'
  <2>1. Registered(c)
    BY <1>2 DEF EnableWriting, DisableWriting, DisableAll
  <2>2. PICK evts \in SUBSET (kReadEvent \cup kWriteEvent) :
          UpdateChannel(c, evts)
    BY <1>2 DEF EnableWriting, DisableWriting, DisableAll, PollerInv, TypeOK
  <2>3. ~(index[c] < 0)
    BY <2>1 DEF Registered, PollerInv, TypeOK
  <2> QED BY <2>1, <2>2, <2>3, ChangeKeeps DEF UpdateChannel, AddChannel
<1>3. ASSUME NEW c \in Channels, RemoveChannel(c)
      PROVE  PollerInv'
  BY <1>3, RemoveKeeps
<1>4. CASE UNCHANGED vars
  BY <1>4
     DEF vars, PollerInv, TypeOK, EntriesMatch, NothingIsLeftBehind,
         QuietIsSkipped, DispatchIsSafe, Registered, Entry, EntryFd, Disabled,
         Polled
<1> QED BY <1>1, <1>2, <1>3, <1>4, PollKeeps, StageKeeps DEF Next

LEMMA PollerInvariant == Spec => []PollerInv
BY PollerInit, PollerStep, PTL DEF Spec

\* Poller's and Channel's variables keep their types; the dispatch is over
\* exactly when no active channel is left.
THEOREM PollerTypes == Spec => []TypeOK
<1>1. PollerInv => TypeOK
  BY DEF PollerInv
<1> QED BY <1>1, PollerInvariant, PTL

\* The index, the map and the array agree after any sequence of additions,
\* changes and swap-removals: the assertions of updateChannel and removeChannel
\* hold.
THEOREM RegistryIsConsistent == Spec => []EntriesMatch
<1>1. PollerInv => EntriesMatch
  BY DEF PollerInv
<1> QED BY <1>1, PollerInvariant, PTL

\* The array and the map hold nothing but registered channels: the assertions of
\* fillActiveChannels hold, and a descriptor that is reused is new.
THEOREM RegistryIsClean == Spec => []NothingIsLeftBehind
<1>1. PollerInv => NothingIsLeftBehind
  BY DEF PollerInv
<1> QED BY <1>1, PollerInvariant, PTL

\* poll(2) skips a channel that asks for nothing.
THEOREM QuietChannelsAreSkipped == Spec => []QuietIsSkipped
<1>1. PollerInv => QuietIsSkipped
  BY DEF PollerInv
<1> QED BY <1>1, PollerInvariant, PTL

\* No channel is dispatched to after its removal.
THEOREM DispatchReachesRegistered == Spec => []DispatchIsSafe
<1>1. PollerInv => DispatchIsSafe
  BY DEF PollerInv
<1> QED BY <1>1, PollerInvariant, PTL

\* A channel is told of nothing but what it asked for, hang-ups and errors.
THEOREM ReportsMatchInterest == Spec => ReportsAreWanted
<1>1. PollerInv /\ [Next]_vars =>
        [stage = "functors" /\ stage' # "functors" =>
           \A i \in 1 .. Len(activeChannels') :
             LET a == activeChannels'[i]
             IN  /\ events[a.channel] # {}
                 /\ a.revents \subseteq events[a.channel] \cup Unasked]_vars
  <2> SUFFICES ASSUME PollerInv, Next, stage = "functors", stage' # "functors"
               PROVE  \A i \in 1 .. Len(activeChannels') :
                        LET a == activeChannels'[i]
                        IN  /\ events[a.channel] # {}
                            /\ a.revents \subseteq
                                 events[a.channel] \cup Unasked
    OBVIOUS
  <2>1. Poll
    BY DEF Next, EnableReading, EnableWriting, DisableWriting, DisableAll,
           UpdateChannel, RemoveChannel, StageDone, NextTest
  <2> QED BY <2>1, PollReports
<1> QED BY <1>1, PollerInvariant, PTL DEF Spec, ReportsAreWanted

-----------------------------------------------------------------------------
(* The channels as their owners see them.                                  *)

\* What a step leaves of where the channels are.
LEMMA WhereStays ==
    ASSUME NEW d \in Channels,
           d \in removed' <=> d \in removed,
           index'[d] < 0 <=> index[d] < 0,
           d \notin removed /\ ~(index[d] < 0) =>
             (Polled(Entry(d))' <=> Polled(Entry(d)))
    PROVE  Where(d)' = Where(d)
BY DEF Where

\* A channel is in one of four places; it is registered in two of them.
LEMMA WhereIs ==
    ASSUME TypeOK, NEW c \in Channels
    PROVE  /\ Registered(c) <=> c \notin removed /\ ~(index[c] < 0)
           /\ c \notin removed /\ index[c] < 0 <=> Where(c) = "new"
           /\ Registered(c) /\ Polled(Entry(c)) <=> Where(c) = "watched"
           /\ Registered(c) /\ ~Polled(Entry(c)) <=> Where(c) = "quiet"
           /\ c \in removed <=> Where(c) = "removed"
BY DEF TypeOK, Registered, Where

\* What is reported is known once the report is.
LEMMA ReportedStays ==
    ASSUME UNCHANGED activeChannels
    PROVE  Reported' = Reported
BY DEF Reported

LEMMA NothingReported ==
    ASSUME TypeOK
    PROVE  stage = "functors" => Reported = {}
BY EmptySeq DEF TypeOK, Reported, Range

\* A new channel comes to be watched.
LEMMA AddsWell ==
    ASSUME PollerInv, NEW c \in Channels, EnableReading(c)
    PROVE  Interest!Adds(c) /\ Interest!Handles
<1> DEFINE evts == events[c] \cup kReadEvent
<1>1. evts \in (SUBSET (kReadEvent \cup kWriteEvent)) \ {{}}
  BY DEF PollerInv, TypeOK
<1>2. AddChannel(c, evts)
  BY DEF EnableReading, UpdateChannel, ChangeChannel, PollerInv, TypeOK
<1>3. /\ FreeFd(c)
      /\ events' = [events EXCEPT ![c] = evts]
      /\ UNCHANGED <<activeChannels, stage, removed>>
  BY DEF EnableReading, UpdateChannel
<1> HIDE DEF evts
<1>4. /\ PollerInv'
      /\ ~Registered(c) /\ Registered(c)' /\ Polled(Entry(c))'
      /\ \A d \in Channels \ {c} :
           /\ index'[d] = index[d]
           /\ Registered(d) => Entry(d)' = Entry(d)
  BY <1>1, <1>2, <1>3, AddKeeps
<1>5. Where(c) = "new" /\ Where(c)' = "watched"
  <2>1. c \notin removed
    BY <1>3, <1>4 DEF Registered
  <2>2. index[c] < 0 /\ ~(index'[c] < 0)
    BY <1>4, SMTT(30) DEF EnableReading, Registered, PollerInv, TypeOK
  <2> QED BY <1>3, <1>4, <2>1, <2>2 DEF Where
<1>6. \A d \in Channels \ {c} : Where(d)' = Where(d)
  <2> SUFFICES ASSUME NEW d \in Channels \ {c}
               PROVE  Where(d)' = Where(d)
    OBVIOUS
  <2>1. d \notin removed /\ ~(index[d] < 0) => Entry(d)' = Entry(d)
    BY <1>4, WhereIs DEF PollerInv
  <2>2. d \notin removed /\ ~(index[d] < 0) =>
          (Polled(Entry(d))' <=> Polled(Entry(d)))
    BY <2>1 DEF Polled
  <2> QED BY <1>3, <1>4, <2>2, WhereStays
<1>7. evts \in (SUBSET {"in", "out"}) \ {{}}
  BY <1>1
<1>8. Reported' = Reported
  BY <1>3, ReportedStays
<1> QED
  BY <1>3, <1>5, <1>6, <1>7, <1>8
     DEF Interest!Adds, Interest!Becomes, Interest!AsksFor, Interest!Something,
         Interest!Handles

\* A known one asks for something else, or for nothing and is quiet from then on.
LEMMA ChangesWell ==
    ASSUME PollerInv, NEW c \in Channels,
           EnableWriting(c) \/ DisableWriting(c) \/ DisableAll(c)
    PROVE  (Interest!Changes(c) \/ Interest!Disables(c)) /\ Interest!Handles
<1>1. Registered(c)
  BY DEF EnableWriting, DisableWriting, DisableAll
<1>2. PICK evts \in SUBSET (kReadEvent \cup kWriteEvent) : UpdateChannel(c, evts)
  BY DEF EnableWriting, DisableWriting, DisableAll, PollerInv, TypeOK
<1>3. ~(index[c] < 0)
  BY <1>1 DEF Registered, PollerInv, TypeOK
<1>4. /\ ChangeChannel(c, evts)
      /\ events' = [events EXCEPT ![c] = evts]
      /\ UNCHANGED <<activeChannels, stage, removed>>
  BY <1>2, <1>3 DEF UpdateChannel, AddChannel
<1>5. /\ PollerInv'
      /\ index' = index
      /\ \A d \in Channels : Registered(d) =>
           Polled(Entry(d))' <=> Polled(Entry(d)) /\ (d = c => evts # {})
  BY <1>1, <1>4, ChangeKeeps
<1>6. ASSUME NEW d \in Channels, d # c \/ evts # {}
      PROVE  Where(d)' = Where(d)
  BY <1>4, <1>5, <1>6, WhereStays, WhereIs DEF PollerInv
<1>7. Where(c) \in {"watched", "quiet"}
  BY <1>1, WhereIs DEF PollerInv
<1>8. evts = {} => Where(c)' = "quiet"
  <2>1. evts = {} => ~Polled(Entry(c))'
    BY <1>1, <1>5
  <2> QED BY <1>1, <1>3, <1>4, <1>5, <2>1 DEF Where, Registered
<1>9. Reported' = Reported
  BY <1>4, ReportedStays
<1>10. CASE evts = {}
  BY <1>4, <1>6, <1>7, <1>8, <1>9, <1>10
     DEF Interest!Disables, Interest!Known, Interest!Becomes, Interest!AsksFor,
         Interest!Handles
<1>11. CASE evts # {}
  <2>1. evts \in (SUBSET {"in", "out"}) \ {{}}
    BY <1>11
  <2>2. UNCHANGED [d \in Channels |-> Where(d)]
    BY <1>6, <1>11
  <2> QED
    BY <1>4, <1>7, <1>9, <2>1, <2>2
     DEF Interest!Changes, Interest!Known, Interest!AsksFor, Interest!Something,
         Interest!Handles
<1> QED BY <1>10, <1>11

\* A quiet one is removed, with no report of it about.
LEMMA RemovesWell ==
    ASSUME PollerInv, NEW c \in Channels, RemoveChannel(c)
    PROVE  Interest!Removes(c)
<1>1. /\ Registered(c) /\ events[c] = {} /\ stage = "functors"
      /\ removed' = removed \cup {c}
      /\ UNCHANGED <<events, activeChannels>>
  BY DEF RemoveChannel
<1>2. /\ ~Polled(Entry(c))
      /\ \A d \in Channels \ {c} :
           /\ index'[d] < 0 <=> index[d] < 0
           /\ Registered(d) => Entry(d)' = Entry(d)
  BY RemoveKeeps
<1>3. Where(c) = "quiet" /\ Where(c)' = "removed"
  <2>1. Where(c) = "quiet"
    BY <1>1, <1>2, WhereIs DEF PollerInv
  <2>2. Where(c)' = "removed"
    BY <1>1 DEF Where
  <2> QED BY <2>1, <2>2
<1>4. \A d \in Channels \ {c} : Where(d)' = Where(d)
  <2> SUFFICES ASSUME NEW d \in Channels \ {c}
               PROVE  Where(d)' = Where(d)
    OBVIOUS
  <2>1. d \notin removed /\ ~(index[d] < 0) => Entry(d)' = Entry(d)
    BY <1>2, WhereIs DEF PollerInv
  <2>2. d \notin removed /\ ~(index[d] < 0) =>
          (Polled(Entry(d))' <=> Polled(Entry(d)))
    BY <2>1 DEF Polled
  <2> QED BY <1>1, <1>2, <2>2, WhereStays
<1>5. Reported = {} /\ Reported' = Reported
  BY <1>1, NothingReported, ReportedStays DEF PollerInv
<1> QED
  BY <1>1, <1>3, <1>4, <1>5 DEF Interest!Removes, Interest!Becomes

\* poll(2) reports watched channels, when none is left of the last report.
LEMMA PollsWell ==
    ASSUME PollerInv, Poll
    PROVE  Interest!Reports
<1>1. Reported = {}
  BY NothingReported DEF Poll, PollerInv
<1>2. ASSUME NEW d \in Channels
      PROVE  Where(d)' = Where(d)
  BY DEF Poll, Where, Entry, Polled
<1>3. ASSUME NEW d \in Reported'
      PROVE  d \in Channels /\ Where(d) = "watched"
  <2>1. activeChannels' \in Seq(Active)
    BY PollReports
  <2>2. PICK i \in 1 .. Len(activeChannels') : d = activeChannels'[i].channel
    BY <2>1 DEF Reported, Range
  <2>3. activeChannels'[i] \in Active
    BY <2>1, <2>2, ElementOfSeq
  <2>4. d \in Channels /\ Registered(d) /\ Polled(Entry(d))
    BY <2>2, <2>3, PollReports DEF Active
  <2> QED BY <2>4, WhereIs DEF PollerInv
<1>4. UNCHANGED events
  BY DEF Poll
<1> QED BY <1>1, <1>2, <1>3, <1>4 DEF Interest!Reports

\* The dispatch goes on.
LEMMA HandlesWell ==
    ASSUME PollerInv, StageDone
    PROVE  /\ Interest!Handles
           /\ UNCHANGED <<events, [c \in Channels |-> Where(c)]>>
<1>1. \A d \in Channels : Where(d)' = Where(d)
  BY DEF StageDone, Where, Entry, Polled
<1>2. activeChannels \in Seq(Active) /\ activeChannels # <<>>
  BY DEF StageDone, NextTest, PollerInv, TypeOK
<1>3. Reported' \subseteq Reported
  <2>1. CASE UNCHANGED activeChannels
    BY <2>1 DEF Reported
  <2>2. CASE activeChannels' = Tail(activeChannels)
    <3>1. /\ Len(activeChannels) \in Nat
          /\ Len(Tail(activeChannels)) = Len(activeChannels) - 1
          /\ Tail(activeChannels) \in Seq(Active)
          /\ \A i \in 1 .. Len(Tail(activeChannels)) :
               Tail(activeChannels)[i] = activeChannels[i + 1]
      BY <1>2, HeadTailProperties, LenProperties
    <3>2. Range(activeChannels)' \subseteq Range(activeChannels)
      <4> SUFFICES ASSUME NEW i \in 1 .. Len(Tail(activeChannels))
                   PROVE  Tail(activeChannels)[i] \in Range(activeChannels)
        BY <2>2, <3>1 DEF Range
      <4>1. i + 1 \in 1 .. Len(activeChannels)
        BY <3>1
      <4> QED BY <1>2, <3>1, <4>1 DEF Range
    <3> QED BY <3>2 DEF Reported
  <2> QED BY <2>1, <2>2 DEF StageDone
<1>4. UNCHANGED events
  BY DEF StageDone
<1> QED BY <1>1, <1>3, <1>4 DEF Interest!Handles

\* Every step is one of Registry's, or changes nothing an owner sees.
LEMMA InterestStep ==
    ASSUME PollerInv, [Next]_vars
    PROVE  [Interest!Next]_(Interest!registryVars)
<1>1. ASSUME NEW c \in Channels, EnableReading(c)
      PROVE  Interest!Next
  BY <1>1, AddsWell DEF Interest!Next
<1>2. ASSUME NEW c \in Channels,
             EnableWriting(c) \/ DisableWriting(c) \/ DisableAll(c)
      PROVE  Interest!Next
  BY <1>2, ChangesWell DEF Interest!Next
<1>3. ASSUME NEW c \in Channels, RemoveChannel(c)
      PROVE  Interest!Next
  BY <1>3, RemovesWell DEF Interest!Next
<1>4. CASE Poll
  BY <1>4, PollsWell DEF Interest!Next
<1>5. CASE StageDone
  BY <1>5, HandlesWell DEF Interest!Next
<1>6. CASE UNCHANGED vars
  <2>1. \A d : Where(d)' = Where(d)
    BY <1>6 DEF vars, Where, Entry, Polled
  <2>2. Reported' = Reported /\ UNCHANGED events
    BY <1>6, ReportedStays DEF vars
  <2> QED BY <2>1, <2>2 DEF Interest!registryVars
<1> QED BY <1>1, <1>2, <1>3, <1>4, <1>5, <1>6 DEF Next

\* The array with its swaps and its negated descriptors is to the owners of
\* channels a set of channels of which those are reported that are watched, and
\* never one that was disabled (Poller.cpp:15-116).
THEOREM PollerImplementsRegistry == Spec => ImplementsRegistry
<1>1. Init => Interest!Init
  <2> SUFFICES ASSUME Init PROVE Interest!Init
    OBVIOUS
  <2>1. \A c \in Channels : Where(c) = "new"
    BY DEF Init, Where
  <2>2. TypeOK
    BY PollerInit DEF PollerInv
  <2>3. Reported = {}
    BY <2>2, NothingReported DEF Init
  <2> QED BY <2>1, <2>3 DEF Init, Interest!Init
<1> QED
  BY <1>1, InterestStep, PollerInvariant, PTL
     DEF Spec, ImplementsRegistry, Interest!Spec

=============================================================================
