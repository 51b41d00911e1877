--------------------------- MODULE ChannelManager ----------------------------
(***************************************************************************)
(* OS/channelManger.c: which channel belongs to which ID, how many tasks   *)
(* are connected to it, and the list of channels nobody uses, which is     *)
(* linked through their field channelID. connect and disconnect run as     *)
(* SVC callbacks, so each is one step.                                     *)
(*                                                                         *)
(* What a channel does for its tasks is the business of Channel; here a    *)
(* channel is a pointer and the capacity channel_init gave it.             *)
(***************************************************************************)
EXTENDS Naturals, FiniteSets, Functions

CONSTANTS Tasks, NULL,
          Channels,    \* the channels made by initialize_channelManager
          Beyond,      \* what the word at address NULL + channelID holds, taken as a pointer
          IDs,         \* the valid channel IDs
          MaxCapacity, \* MAX_ALLOWED_CHANNEL_CAPACITY
          MaxCalls     \* bound: connections of one task to one ID

ASSUME ManagerAssumption == /\ NULL \notin Channels /\ Beyond \notin Channels \cup {NULL}
                            /\ IsFiniteSet(Channels) /\ Channels # {}
                            /\ (Channels \cup {NULL, Beyond}) \cap IDs = {}
                            /\ MaxCapacity \in Nat \ {0}
                            /\ IsFiniteSet(Tasks) /\ MaxCalls \in Nat

VARIABLES channelHashTable,       \* the channel of each ID, NULL for none
          channelStatusHashTable, \* the connections of each ID, 0 for none
          freeChannelsLinkedList, \* first free channel
          channelID, capacity,    \* OS_channel_t
          connections, \* how often each task is connected to each ID
          handle       \* what connect returned to each task for each ID

tables == <<channelHashTable, channelStatusHashTable>>
users == <<connections, handle>>
vars == <<tables, freeChannelsLinkedList, channelID, capacity, users>>

Pointers == Channels \cup {NULL, Beyond}
Requests == 0 .. MaxCapacity + 1

TypeOK ==
  /\ channelHashTable \in [IDs -> Pointers]
  /\ channelStatusHashTable \in [IDs -> Nat]
  /\ freeChannelsLinkedList \in Pointers
  /\ channelID \in [Channels -> Pointers \cup IDs]
  /\ capacity \in [Channels -> 0 .. MaxCapacity]
  /\ connections \in [Tasks -> [IDs -> 0 .. MaxCalls]]
  /\ handle \in [Tasks -> [IDs -> Pointers]]

\* initialize_channelManager puts each channel it makes in front of those made before.
Init == /\ channelHashTable = [i \in IDs |-> NULL]
        /\ channelStatusHashTable = [i \in IDs |-> 0]
        /\ channelID \in [Channels -> Channels \cup {NULL}]
        /\ \E made \in Bijection(1 .. Cardinality(Channels), Channels) :
             /\ freeChannelsLinkedList = made[Cardinality(Channels)]
             /\ \A i \in DOMAIN made : channelID[made[i]] = IF i = 1 THEN NULL ELSE made[i - 1]
        /\ capacity = [c \in Channels |-> MaxCapacity]
        /\ connections = [t \in Tasks |-> [i \in IDs |-> 0]]
        /\ handle = [t \in Tasks |-> [i \in IDs |-> NULL]]

-------------------------------------------------------------------------------
Returns(t, i, pointer) == handle' = [handle EXCEPT ![t][i] = pointer]
Connected(t, i) == connections' = [connections EXCEPT ![t][i] = @ + 1]

\* Mutant: the maximum itself is exceeded by one.
AdmissibleTooMuch(request) == request <= MaxCapacity + 1

Admissible(request) == request <= MaxCapacity

\* A capacity above the maximum: NULL is returned before anything happens. (So it is for
\* the ID 0, which is not one of IDs.)
Refuse(t, i, request) ==
  /\ ~Admissible(request) /\ connections[t][i] = 0
  /\ Returns(t, i, NULL)
  /\ UNCHANGED <<tables, freeChannelsLinkedList, channelID, capacity, connections>>

\* Mutant: a channel in use is set up again with the capacity asked for now.
JoinAndReset(t, i, request) ==
  LET channel == channelHashTable[i]
  IN  /\ Admissible(request) /\ channel \in Channels
      /\ channelStatusHashTable' = [channelStatusHashTable EXCEPT ![i] = @ + 1]
      /\ capacity' = [capacity EXCEPT ![channel] = request]
      /\ Returns(t, i, channel) /\ Connected(t, i)
      /\ UNCHANGED <<channelHashTable, freeChannelsLinkedList, channelID>>

\* connect to an ID that has a channel. Another capacity is only warned about.
Join(t, i, request) ==
  LET channel == channelHashTable[i]
  IN  /\ Admissible(request) /\ channel # NULL
      /\ channelStatusHashTable' = [channelStatusHashTable EXCEPT ![i] = @ + 1]
      /\ Returns(t, i, channel) /\ Connected(t, i)
      /\ UNCHANGED <<channelHashTable, freeChannelsLinkedList, channelID, capacity>>

\* Mutant: the connection that opens a channel is not counted.
OpenUncounted(t, i, request) ==
  LET channel == freeChannelsLinkedList
  IN  /\ Admissible(request) /\ channelHashTable[i] = NULL /\ channel \in Channels
      /\ freeChannelsLinkedList' = channelID[channel]
      /\ channelID' = [channelID EXCEPT ![channel] = i]
      /\ capacity' = [capacity EXCEPT ![channel] = request]
      /\ channelHashTable' = [channelHashTable EXCEPT ![i] = channel]
      /\ Returns(t, i, channel) /\ Connected(t, i)
      /\ UNCHANGED channelStatusHashTable

\* connect to an ID without a channel takes the first of the list and sets it up
\* (channel_init).
Open(t, i, request) ==
  LET channel == freeChannelsLinkedList
  IN  /\ Admissible(request) /\ channelHashTable[i] = NULL /\ channel \in Channels
      /\ freeChannelsLinkedList' = channelID[channel]
      /\ channelID' = [channelID EXCEPT ![channel] = i]
      /\ capacity' = [capacity EXCEPT ![channel] = request]
      /\ channelHashTable' = [channelHashTable EXCEPT ![i] = channel]
      /\ channelStatusHashTable' = [channelStatusHashTable EXCEPT ![i] = 1]
      /\ Returns(t, i, channel) /\ Connected(t, i)

\* connect when the list is empty: the list goes on at what address NULL + channelID
\* holds before NULL is found and returned.
Exhausted(t, i, request) ==
  /\ Admissible(request) /\ channelHashTable[i] = NULL /\ connections[t][i] = 0
  /\ freeChannelsLinkedList = NULL
  /\ freeChannelsLinkedList' = Beyond
  /\ Returns(t, i, NULL)
  /\ UNCHANGED <<tables, channelID, capacity, connections>>

Connect(t, i, request) ==
  /\ connections[t][i] < MaxCalls
  /\ \/ Refuse(t, i, request) \/ Join(t, i, request) \/ Open(t, i, request)
     \/ Exhausted(t, i, request)

\* Mutant: the channel goes back as soon as anybody leaves.
LastOneAlways(i) == channelStatusHashTable[i] > 0

LastOne(i) == channelStatusHashTable[i] = 1

\* channelManager_checkAlive
CheckAlive(i) == channelStatusHashTable[i]

\* disconnect; a task calls it for a connection it has (channelManger.c:61-63). The last one
\* puts the channel back.
Disconnect(t, i) ==
  /\ connections[t][i] > 0 /\ CheckAlive(i) # 0
  /\ connections' = [connections EXCEPT ![t][i] = @ - 1]
  /\ handle' = IF connections[t][i] = 1 THEN [handle EXCEPT ![t][i] = NULL] ELSE handle
  /\ channelStatusHashTable' = [channelStatusHashTable EXCEPT ![i] = @ - 1]
  /\ IF LastOne(i)
     THEN LET channel == channelHashTable[i]
          IN  /\ channelHashTable' = [channelHashTable EXCEPT ![i] = NULL]
              /\ freeChannelsLinkedList' = channel
              /\ channelID' = [c \in Channels |->
                   IF c = channel THEN freeChannelsLinkedList ELSE channelID[c]]
     ELSE UNCHANGED <<channelHashTable, freeChannelsLinkedList, channelID>>
  /\ UNCHANGED capacity

Next == \E t \in Tasks, i \in IDs : \/ \E request \in Requests : Connect(t, i, request)
                                    \/ Disconnect(t, i)

\* A list that was exhausted goes nowhere from here on.
Spec == Init /\ [][Next]_vars

\* connect when the list goes on outside the channels. Memory that is no channel is written
\* and given to the task; what follows in the list is whatever stands there. After it
\* anything may happen, so Spec stops short of it.
OpenBeyond(t, i, request) ==
  /\ connections[t][i] < MaxCalls /\ Admissible(request) /\ channelHashTable[i] = NULL
  /\ freeChannelsLinkedList = Beyond
  /\ freeChannelsLinkedList' \in Pointers
  /\ channelHashTable' = [channelHashTable EXCEPT ![i] = Beyond]
  /\ channelStatusHashTable' = [channelStatusHashTable EXCEPT ![i] = 1]
  /\ Returns(t, i, Beyond) /\ Connected(t, i)
  /\ UNCHANGED <<channelID, capacity>>

\* The same system with that step.
SpecBeyond ==
  Init /\ [][Next \/ \E t \in Tasks, i \in IDs, request \in Requests :
                        OpenBeyond(t, i, request)]_vars

-------------------------------------------------------------------------------
InUse == {i \in IDs : channelHashTable[i] # NULL}
Bound == {channelHashTable[i] : i \in InUse}

\* Two tasks meet in one channel exactly when they ask for the same ID: the table never
\* gives one channel to two IDs, and the channel of an ID does not change while anybody is
\* connected to it, whoever leaves and comes meanwhile (channelManger.c:54-56).
Rendezvous ==
  \A t, u \in Tasks : \A i, j \in IDs :
    handle[t][i] # NULL /\ handle[u][j] # NULL => ((handle[t][i] = handle[u][j]) <=> i = j)

\* The cells of a list from head, and whether they are the members, each once, before the
\* list leaves the channels.
Walk(head, next) ==
  LET cell[n \in Nat] == IF n = 0 THEN head
                         ELSE IF cell[n - 1] \in Channels THEN next[cell[n - 1]] ELSE NULL
  IN  cell
IsList(head, next, members) ==
  /\ members = {Walk(head, next)[n - 1] : n \in 1 .. Cardinality(members)}
  /\ Walk(head, next)[Cardinality(members)] \in {NULL, Beyond}

\* No channel is lost and none is free and in use: the list holds exactly the others, once
\* each, and ends (channelManger.c:91-92, 131-135).
NoChannelLost == IsList(freeChannelsLinkedList, channelID, Channels \ Bound)

\* A channel goes back when its last user leaves and not before (channelManger.c:117-118):
\* an ID has a channel while and only while some task is connected to it.
InUseWhileConnected == \A i \in IDs : i \in InUse <=> \E t \in Tasks : connections[t][i] > 0

\* The capacity two parties agreed on stands while either is connected: a channel is set up
\* anew only between two uses (channelManger.c:77-89, 97).
CapacityStands ==
  [][\A t \in Tasks, i \in IDs :
       connections[t][i] > 0 /\ connections'[t][i] > 0 /\ handle[t][i] \in Channels =>
         capacity'[handle[t][i]] = capacity[handle[t][i]]]_vars

\* The inductive invariant behind these properties (channelManger.c:78-101, 122-138);
\* ChannelManagerProofs proves it. The free channels can be numbered from the end of the list
\* to its head, every ID has a channel of its own, tasks have the channel of the table, and
\* the status counts their connections.
Free == Channels \ Bound
Chained(order, N) ==
  /\ freeChannelsLinkedList \in IF N = 0 THEN {NULL, Beyond} ELSE {order[N]}
  /\ \A i \in 1 .. N : channelID[order[i]] \in IF i = 1 THEN {NULL, Beyond} ELSE {order[i - 1]}
FreeChain == \E order \in Bijection(1 .. Cardinality(Free), Free) :
               Chained(order, Cardinality(Free))
OwnChannel == /\ Bound \subseteq Channels
              /\ \A i, j \in InUse : channelHashTable[i] = channelHashTable[j] => i = j
HandlesAgree == \A t \in Tasks, i \in IDs :
  handle[t][i] = IF connections[t][i] > 0 THEN channelHashTable[i] ELSE NULL
ConnectionsTo(i) == {p \in Tasks \X (1 .. MaxCalls) : p[2] <= connections[p[1]][i]}
Counted == \A i \in IDs : /\ channelStatusHashTable[i] = Cardinality(ConnectionsTo(i))
                          /\ i \in InUse <=> channelStatusHashTable[i] > 0

IInv == TypeOK /\ FreeChain /\ OwnChannel /\ HandlesAgree /\ Counted

\* Doc, which the code does not keep (see the README): connect "RETURNS: OS_channel_t * if
\* successful , if not it returns NULL (e.g if the maximum number of allowed channels has
\* been reached" (channelManger.c:65).
ConnectReturnsChannel == \A t \in Tasks, i \in IDs : handle[t][i] \in Channels \cup {NULL}
===============================================================================
