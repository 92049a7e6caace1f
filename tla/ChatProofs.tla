----------------------------- MODULE ChatProofs -----------------------------
(***************************************************************************)
(* Proofs about the chat server, for any number of sessions, names and     *)
(* texts and any channel capacity.                                         *)
(***************************************************************************)
EXTENDS ChatProperties, FiniteSetTheorems, FunctionTheorems, SequenceTheorems, TLAPS

\* The size of any set of names the server may hold is that of a count message.
LEMMA UsersAreCountable ==
  ASSUME NEW S \in SUBSET AnyName
  PROVE  Cardinality(S) \in 0..Cardinality(AnyName)
<1>1. IsFiniteSet(AnyName)
  <2>1. IsFiniteSet(Names)  BY ConstantsAssumption
  <2>2. AnyName = Names \cup {Empty}  BY DEF AnyName
  <2> QED  BY <2>1, <2>2, FS_AddElement
<1>2. /\ IsFiniteSet(S)
      /\ Cardinality(S) <= Cardinality(AnyName)
  BY <1>1, FS_Subset
<1> QED  BY <1>1, <1>2, FS_CardinalityType

-----------------------------------------------------------------------------
(* Type correctness.                                                       *)

TypeInv == TypeOK /\ HeldIsReceived

LEMMA InitTypeInv == Init => TypeInv
<1> SUFFICES ASSUME Init PROVE TypeInv  OBVIOUS
<1>1. 0 \in 0..Cardinality(AnyName)
  BY UsersAreCountable
<1> QED  BY <1>1, ConstantsAssumption
        DEF Init, TypeInv, TypeOK, HeldIsReceived, AnyName, Phases, TaskStates

\* Every message the program sends is a message.
LEMMA MessageTypes ==
  ASSUME NEW n \in AnyName, NEW k \in 0..Cardinality(AnyName)
  PROVE  {Joined(n), Left(n), Text(n), Count(k)} \subseteq Messages
BY DEF Joined, Left, Text, Count, Messages, Notices

LEMMA NextTypeInv == TypeInv /\ [Next]_vars => TypeInv'
<1> SUFFICES ASSUME TypeInv, [Next]_vars PROVE TypeInv'  OBVIOUS
<1> USE DEF TypeInv, TypeOK, HeldIsReceived, Phases, TaskStates
<1> USE DEF shared, handlerVars, sending, receiving, signals, Enter
<1>1. ASSUME NEW c \in Conns, Connect(c) PROVE TypeInv'
  BY <1>1 DEF Connect
<1>2. ASSUME NEW c \in Conns, NEW n \in AnyName, ReceiveName(c, n) PROVE TypeInv'
  BY <1>2 DEF ReceiveName, CheckUsername
<1>3. ASSUME NEW c \in Conns, StreamEnds(c) PROVE TypeInv'
  BY <1>3 DEF StreamEnds
<1>4. ASSUME NEW c \in Conns, Subscribe(c) PROVE TypeInv'
  BY <1>4 DEF Subscribe, SubscribeAt
<1>5. ASSUME NEW c \in Conns, AnnounceJoin(c) PROVE TypeInv'
  <2>1. Joined(username[c]) \in Messages  BY MessageTypes, UsersAreCountable
  <2> QED  BY <1>5, <2>1 DEF AnnounceJoin, Sent
<1>6. ASSUME NEW c \in Conns, TaskReceive(c) PROVE TypeInv'
  BY <1>6 DEF TaskReceive, SendTaskStep, Ready
<1>7. ASSUME NEW c \in Conns, TaskDeliver(c) PROVE TypeInv'
  <2>1. cursor[c] - 1 \in DOMAIN log
    BY <1>7 DEF TaskDeliver, SendTaskStep
  <2>2. log[cursor[c] - 1] \in Messages  BY <2>1
  <2> QED  BY SMTT(40), <1>7, <2>2 DEF TaskDeliver, SendTaskStep
<1>8. ASSUME NEW c \in Conns, TaskLagged(c) \/ TaskFails(c) \/ SendTaskCancelled(c)
      PROVE  TypeInv'
  BY <1>8 DEF TaskLagged, TaskFails, SendTaskCancelled, SendTaskStep
<1>9. ASSUME NEW c \in Conns, ReadText(c) PROVE TypeInv'
  BY <1>9, ConstantsAssumption DEF ReadText, RecvTaskStep
<1>10. ASSUME NEW c \in Conns, RelayText(c) PROVE TypeInv'
  <2>1. Text(username[c]) \in Messages  BY MessageTypes, UsersAreCountable
  <2> QED  BY <1>10, <2>1 DEF RelayText, RecvTaskStep, Sent
<1>11. ASSUME NEW c \in Conns, ReadOther(c) \/ ReadEnd(c) \/ RecvTaskCancelled(c)
       PROVE  TypeInv'
  BY <1>11 DEF ReadOther, ReadEnd, RecvTaskCancelled, RecvTaskEnds, RecvTaskStep
<1>12. ASSUME NEW c \in Conns, SendTaskDone(c) \/ RecvTaskDone(c) PROVE TypeInv'
  BY <1>12 DEF SendTaskDone, RecvTaskDone, Select
<1>13. ASSUME NEW c \in Conns, AnnounceLeft(c) PROVE TypeInv'
  <2>1. Left(username[c]) \in Messages  BY MessageTypes, UsersAreCountable
  <2> QED  BY <1>13, <2>1 DEF AnnounceLeft, Sent
<1>14. ASSUME NEW c \in Conns, RemoveUser(c) PROVE TypeInv'
  <2>1. users' \in SUBSET AnyName  BY <1>14 DEF RemoveUser
  <2>2. Cardinality(users') \in 0..Cardinality(AnyName)  BY <2>1, UsersAreCountable
  <2> QED  BY <1>14, <2>1, <2>2 DEF RemoveUser
<1>15. ASSUME NEW c \in Conns, AnnounceCount(c) PROVE TypeInv'
  <2>1. Count(usersLeft[c]) \in Messages  BY MessageTypes DEF AnyName
  <2> QED  BY <1>15, <2>1 DEF AnnounceCount, Sent
<1>16. ASSUME NEW c \in Conns, ClientGone(c) PROVE TypeInv'
  BY <1>16 DEF ClientGone
<1>17. CASE UNCHANGED vars  BY <1>17 DEF vars
<1> QED
  BY <1>1, <1>2, <1>3, <1>4, <1>5, <1>6, <1>7, <1>8, <1>9, <1>10, <1>11, <1>12,
     <1>13, <1>14, <1>15, <1>16, <1>17
  DEF Next, Handler, SendTask, RecvTask, Client, Finished

\* Every variable keeps its type, and every cursor stays within the log.
THEOREM TypeCorrect == Spec => []TypeOK
<1>1. TypeInv => TypeOK  BY DEF TypeInv
<1> QED  BY InitTypeInv, NextTypeInv, <1>1, PTL DEF Spec

-----------------------------------------------------------------------------
(* Names: the set `users` and the sessions agree, and names are exclusive. *)

NameInv == UnnamedHasNoName /\ UsersAreHeld /\ NamesAreUnique

LEMMA InitNameInv == Init => NameInv
BY DEF Init, NameInv, UnnamedHasNoName, UsersAreHeld, NamesAreUnique, Holders, Holds, Named

\* Steps that neither touch the names nor move a handler across a border of
\* the phases in which a name is held.
LEMMA NamesKept ==
  ASSUME NameInv, UNCHANGED <<users, username>>,
         \A c \in Conns : /\ phase'[c] \in Named <=> phase[c] \in Named
                          /\ phase'[c] \in Unnamed => phase[c] \in Unnamed
  PROVE  NameInv'
<1>1. Holders' = Holders  BY DEF Holders, Holds
<1> QED
  BY <1>1 DEF NameInv, UnnamedHasNoName, UsersAreHeld, NamesAreUnique

LEMMA NextNameInv == TypeInv /\ NameInv /\ [Next]_vars => NameInv'
<1> SUFFICES ASSUME TypeInv, NameInv, [Next]_vars PROVE NameInv'  OBVIOUS
<1> USE DEF TypeInv, TypeOK, Named, Unnamed, Enter
<1> USE DEF shared, handlerVars, sending, receiving, signals
<1>1. ASSUME NEW c \in Conns, Connect(c) PROVE NameInv'
  BY <1>1, NamesKept DEF Connect
<1>2. ASSUME NEW c \in Conns, NEW n \in AnyName, ReceiveName(c, n) PROVE NameInv'
  <2> USE <1>2 DEF ReceiveName, CheckUsername
  <2>1. username[c] = Empty  BY DEF NameInv, UnnamedHasNoName
  <2>2. CASE n \in users
    BY <2>1, <2>2, NamesKept
  <2>3. CASE n \notin users /\ n = Empty
    <3>1. username' = username  BY <2>1, <2>3
    <3>2. Holders' = Holders  BY <2>1, <2>3, <3>1 DEF Holders, Holds
    <3>3. users' \ {Empty} = users \ {Empty}  BY <2>3
    <3>4. UsersAreHeld'
      <4>1. {username'[d] : d \in Holders'} = {username[d] : d \in Holders}
        BY <3>1, <3>2
      <4> QED  BY <3>3, <4>1 DEF NameInv, UsersAreHeld
    <3>5. NamesAreUnique'  BY <3>1, <3>2 DEF NameInv, NamesAreUnique
    <3>6. UnnamedHasNoName'  BY <2>1, <3>1 DEF NameInv, UnnamedHasNoName
    <3> QED  BY <3>4, <3>5, <3>6 DEF NameInv
  <2>4. CASE n \notin users /\ n # Empty
    <3>1. phase'[c] = "named" /\ username'[c] = n  BY <2>4
    <3>2. Holders' = Holders \cup {c} /\ c \notin Holders
      BY <2>1, <2>4, <3>1 DEF Holders, Holds
    <3>3. \A d \in Holders : username'[d] = username[d] /\ username[d] # n
      <4>1. \A d \in Holders : username[d] \in users  BY DEF NameInv, UsersAreHeld
      <4>2. \A d \in Holders : d \in Conns /\ d # c  BY <3>2 DEF Holders
      <4> QED  BY <2>4, <4>1, <4>2
    <3>4. UsersAreHeld'
      <4>1. users' \ {Empty} = (users \ {Empty}) \cup {n}  BY <2>4
      <4>2. {username'[d] : d \in Holders'} = {username[d] : d \in Holders} \cup {n}
        BY <3>1, <3>2, <3>3
      <4> QED  BY <4>1, <4>2 DEF NameInv, UsersAreHeld
    <3>5. NamesAreUnique'
      BY <3>1, <3>2, <3>3 DEF NameInv, NamesAreUnique
    <3>6. UnnamedHasNoName'
      BY <3>1 DEF NameInv, UnnamedHasNoName
    <3> QED  BY <3>4, <3>5, <3>6 DEF NameInv
  <2> QED  BY <2>2, <2>3, <2>4
<1>3. ASSUME NEW c \in Conns, StreamEnds(c) PROVE NameInv'
  <2> USE <1>3 DEF StreamEnds
  <2>1. username[c] = Empty  BY DEF NameInv, UnnamedHasNoName
  <2>2. Holders' = Holders  BY <2>1 DEF Holders, Holds
  <2> QED  BY <2>2 DEF NameInv, UnnamedHasNoName, UsersAreHeld, NamesAreUnique
<1>4. ASSUME NEW c \in Conns, Subscribe(c) PROVE NameInv'
  BY <1>4, NamesKept DEF Subscribe
<1>5. ASSUME NEW c \in Conns, AnnounceJoin(c) PROVE NameInv'
  BY <1>5, NamesKept DEF AnnounceJoin
<1>6. ASSUME NEW c \in Conns, SendTask(c) \/ TaskDeliver(c) PROVE NameInv'
  BY <1>6, NamesKept DEF SendTask, TaskReceive, TaskDeliver, TaskLagged, TaskFails,
                         SendTaskCancelled, SendTaskStep
<1>7. ASSUME NEW c \in Conns, RecvTask(c) \/ ReadText(c) \/ ReadOther(c) PROVE NameInv'
  BY <1>7, NamesKept DEF RecvTask, ReadText, ReadOther, RelayText, ReadEnd,
                         RecvTaskCancelled, RecvTaskEnds, RecvTaskStep
<1>8. ASSUME NEW c \in Conns, SendTaskDone(c) \/ RecvTaskDone(c) PROVE NameInv'
  BY <1>8, NamesKept DEF SendTaskDone, RecvTaskDone, Select
<1>9. ASSUME NEW c \in Conns, AnnounceLeft(c) PROVE NameInv'
  BY <1>9, NamesKept DEF AnnounceLeft
<1>10. ASSUME NEW c \in Conns, RemoveUser(c) PROVE NameInv'
  <2> USE <1>10 DEF RemoveUser
  <2>1. UnnamedHasNoName'  BY DEF NameInv, UnnamedHasNoName
  <2>2. Holders' = Holders \ {c}  BY DEF Holders, Holds
  <2>3. NamesAreUnique'  BY <2>2 DEF NameInv, NamesAreUnique
  <2>4. UsersAreHeld'
    <3>1. CASE username[c] = Empty
      BY <2>2, <3>1 DEF NameInv, UsersAreHeld, Holders, Holds
    <3>2. CASE username[c] # Empty
      <4>1. c \in Holders  BY <3>2 DEF Holders, Holds
      <4>2. \A d \in Holders : d # c => username[d] # username[c]
        BY <4>1 DEF NameInv, NamesAreUnique
      <4>3. {username[d] : d \in Holders'} = {username[d] : d \in Holders} \ {username[c]}
        BY <2>2, <4>2
      <4> QED  BY ZenonT(60), <4>3 DEF NameInv, UsersAreHeld
    <3> QED  BY <3>1, <3>2
  <2> QED  BY <2>1, <2>3, <2>4 DEF NameInv
<1>11. ASSUME NEW c \in Conns, AnnounceCount(c) PROVE NameInv'
  BY <1>11, NamesKept DEF AnnounceCount
<1>12. ASSUME NEW c \in Conns, ClientGone(c) PROVE NameInv'
  BY <1>12, NamesKept DEF ClientGone
<1>13. CASE UNCHANGED vars
  BY <1>13, NamesKept DEF vars
<1> QED
  BY <1>1, <1>2, <1>3, <1>4, <1>5, <1>6, <1>7, <1>8, <1>9, <1>10, <1>11, <1>12, <1>13
  DEF Next, Handler, Client, Finished

\* The set `users` is exactly the names of the live sessions (main.rs 122-134).
THEOREM UsersHeld == Spec => []UsersAreHeld
<1>1. NameInv => UsersAreHeld  BY DEF NameInv
<1> QED  BY InitTypeInv, NextTypeInv, InitNameInv, NextNameInv, <1>1, PTL DEF Spec

\* No two live sessions have the same name (main.rs 127-134).
THEOREM NamesUnique == Spec => []NamesAreUnique
<1>1. NameInv => NamesAreUnique  BY DEF NameInv
<1> QED  BY InitTypeInv, NextTypeInv, InitNameInv, NextNameInv, <1>1, PTL DEF Spec

-----------------------------------------------------------------------------
(* Delivery: what a client is written is a piece of what was broadcast,    *)
(* with its own joined message in it.                                      *)

DeliveryInv == NoGaps /\ JoinIsInReach

LEMMA InitDeliveryInv == Init => TasksAreSpawned /\ DeliveryInv
BY DEF Init, TasksAreSpawned, DeliveryInv, NoGaps, JoinIsInReach, Writing, Unnamed

LEMMA NextTasksAreSpawned == TypeInv /\ TasksAreSpawned /\ [Next]_vars => TasksAreSpawned'
<1> SUFFICES ASSUME TypeInv, TasksAreSpawned, [Next]_vars PROVE TasksAreSpawned'
  OBVIOUS
<1> USE DEF TypeInv, TypeOK, TasksAreSpawned, Unnamed, Enter
<1> USE DEF shared, handlerVars, sending, receiving, signals
<1>1. ASSUME NEW c \in Conns, Handler(c) PROVE TasksAreSpawned'
  BY <1>1 DEF Handler, StreamEnds, Subscribe, AnnounceJoin, SendTaskDone, RecvTaskDone,
              Select, AnnounceLeft, RemoveUser, AnnounceCount
<1>2. ASSUME NEW c \in Conns, SendTask(c) \/ TaskDeliver(c) PROVE TasksAreSpawned'
  BY <1>2 DEF SendTask, TaskReceive, TaskDeliver, TaskLagged, TaskFails,
              SendTaskCancelled, SendTaskStep
<1>3. ASSUME NEW c \in Conns, RecvTask(c) \/ ReadText(c) \/ ReadOther(c)
      PROVE  TasksAreSpawned'
  BY <1>3 DEF RecvTask, ReadText, ReadOther, RelayText, ReadEnd, RecvTaskCancelled,
              RecvTaskEnds, RecvTaskStep
<1>4. ASSUME NEW c \in Conns, Connect(c) \/ ClientGone(c) PROVE TasksAreSpawned'
  BY <1>4 DEF Connect, ClientGone
<1>5. ASSUME NEW c \in Conns, NEW n \in AnyName, ReceiveName(c, n) PROVE TasksAreSpawned'
  BY <1>5 DEF ReceiveName, CheckUsername
<1>6. CASE UNCHANGED vars  BY <1>6 DEF vars
<1> QED  BY <1>1, <1>2, <1>3, <1>4, <1>5, <1>6 DEF Next, Client, Finished

\* Steps that only add to the log or end tasks.
LEMMA DeliveryKept ==
  ASSUME TypeInv, DeliveryInv, UNCHANGED <<cursor, delivered>>,
         \A c \in Conns : sendTask'[c] \in {sendTask[c], "ended"},
         \A c \in Conns : Writing(c) => username'[c] = username[c],
         \/ log' = log
         \/ \E m : log' = Append(log, m)
  PROVE  DeliveryInv'
<1> USE DEF TypeInv, TypeOK, HeldIsReceived
<1>1. /\ DOMAIN log \subseteq DOMAIN log'
      /\ \A p \in DOMAIN log : log'[p] = log[p]
  <2>1. CASE log' = log  BY <2>1
  <2>2. ASSUME NEW m, log' = Append(log, m)
        PROVE  /\ DOMAIN log \subseteq DOMAIN log'
               /\ \A p \in DOMAIN log : log'[p] = log[p]
    <3>1. log \in Seq(Messages \cup {m})  OBVIOUS
    <3> QED  BY <2>2, <3>1
  <2> QED  BY <2>1, <2>2
<1>2. ASSUME NEW c \in Conns, Writing(c)'
      PROVE  Writing(c) /\ Written(c)' = Written(c)
  BY <1>2 DEF Writing, Written
<1>3. NoGaps'
  <2> SUFFICES ASSUME NEW c \in Conns, Writing(c)'
               PROVE  /\ Len(delivered[c]) <= Written(c)
                      /\ \A i \in 1..Len(delivered[c]) :
                           delivered[c][i] = log'[Written(c) - Len(delivered[c]) + i]
    BY <1>2 DEF NoGaps
  <2>1. /\ Len(delivered[c]) <= Written(c)
        /\ \A i \in 1..Len(delivered[c]) :
             delivered[c][i] = log[Written(c) - Len(delivered[c]) + i]
    BY <1>2 DEF DeliveryInv, NoGaps
  <2>2. \A i \in 1..Len(delivered[c]) : Written(c) - Len(delivered[c]) + i \in DOMAIN log
    BY <2>1 DEF Written
  <2> QED  BY <1>1, <2>1, <2>2
<1>4. JoinIsInReach'
  BY <1>1, <1>2 DEF DeliveryInv, JoinIsInReach
<1> QED  BY <1>3, <1>4 DEF DeliveryInv

LEMMA NextDeliveryInv ==
  TypeInv /\ TasksAreSpawned /\ DeliveryInv /\ [Next]_vars => DeliveryInv'
<1> SUFFICES ASSUME TypeInv, TasksAreSpawned, DeliveryInv, [Next]_vars PROVE DeliveryInv'
  OBVIOUS
<1> USE DEF shared, handlerVars, sending, receiving, signals, Enter
<1> USE DEF TypeInv, TypeOK
<1>1. ASSUME NEW c \in Conns, Subscribe(c) PROVE DeliveryInv'
  <2>1. ~Writing(c)
    BY <1>1 DEF Subscribe, TasksAreSpawned, Writing
  <2>2. ASSUME NEW d \in Conns, Writing(d)'
        PROVE  Writing(d) /\ Written(d)' = Written(d)
    BY <1>1, <2>1, <2>2 DEF Subscribe, Writing, Written
  <2> QED  BY <1>1, <2>2 DEF Subscribe, DeliveryInv, NoGaps, JoinIsInReach
<1>2. ASSUME NEW c \in Conns, AnnounceJoin(c) PROVE DeliveryInv'
  <2> USE <1>2 DEF AnnounceJoin, Sent
  <2>1. sendTask[c] = "none" /\ delivered[c] = <<>>
    BY DEF TasksAreSpawned
  <2>2. ASSUME NEW d \in Conns, d # c, Writing(d)'
        PROVE  Writing(d) /\ Written(d)' = Written(d)
    BY <2>2 DEF Writing, Written
  <2>3. Written(c)' = cursor[c] - 1 /\ Len(delivered'[c]) = 0
    BY <2>1 DEF Written
  <2>4. NoGaps'
    <3>1. /\ Len(delivered'[c]) <= Written(c)'
          /\ \A i \in 1..Len(delivered'[c]) :
               delivered'[c][i] = log'[Written(c)' - Len(delivered'[c]) + i]
      BY <2>3
    <3>2. ASSUME NEW d \in Conns, d # c, Writing(d)'
          PROVE  /\ Len(delivered'[d]) <= Written(d)'
                 /\ \A i \in 1..Len(delivered'[d]) :
                      delivered'[d][i] = log'[Written(d)' - Len(delivered'[d]) + i]
      <4>1. /\ Len(delivered[d]) <= Written(d)
            /\ \A i \in 1..Len(delivered[d]) :
                 delivered[d][i] = log[Written(d) - Len(delivered[d]) + i]
        BY <2>2, <3>2 DEF DeliveryInv, NoGaps
      <4>2. \A i \in 1..Len(delivered[d]) : Written(d) - Len(delivered[d]) + i \in DOMAIN log
        BY SMTT(40), <4>1 DEF Written
      <4>3. \A i \in 1..Len(delivered[d]) :
              delivered[d][i] = log'[Written(d) - Len(delivered[d]) + i]
        BY SMTT(40), <4>1, <4>2
      <4> QED  BY <2>2, <3>2, <4>1, <4>3
    <3> QED  BY ZenonT(60), <3>1, <3>2 DEF NoGaps
  <2>5. JoinIsInReach'
    <3>1. /\ Len(log) + 1 \in DOMAIN log'
          /\ log'[Len(log) + 1] = Joined(username'[c])
          /\ Len(log) + 1 > Written(c)' - Len(delivered'[c])
      BY <2>3
    <3>2. ASSUME NEW d \in Conns, d # c, Writing(d)'
          PROVE  \E p \in DOMAIN log' : /\ p > Written(d)' - Len(delivered'[d])
                                        /\ log'[p] = Joined(username'[d])
      <4>1. PICK p \in DOMAIN log : /\ p > Written(d) - Len(delivered[d])
                                    /\ log[p] = Joined(username[d])
        BY <2>2, <3>2 DEF DeliveryInv, JoinIsInReach
      <4>2. p \in DOMAIN log' /\ log'[p] = log[p]  OBVIOUS
      <4> QED  BY <2>2, <3>2, <4>1, <4>2
    <3> QED  BY <3>1, <3>2 DEF JoinIsInReach
  <2> QED  BY <2>4, <2>5 DEF DeliveryInv
<1>3. ASSUME NEW c \in Conns, TaskReceive(c) PROVE DeliveryInv'
  <2>1. ASSUME NEW d \in Conns, Writing(d)'
        PROVE  Writing(d) /\ Written(d)' = Written(d)
    BY SMTT(40), <1>3, <2>1 DEF TaskReceive, SendTaskStep, Writing, Written
  <2>2. UNCHANGED <<log, delivered, username>>
    BY <1>3 DEF TaskReceive, SendTaskStep
  <2>3. NoGaps'
    <3> HIDE DEF TypeInv, TypeOK
    <3> QED  BY SMTT(40), <2>1, <2>2 DEF DeliveryInv, NoGaps
  <2>4. JoinIsInReach'  BY <2>1, <2>2 DEF DeliveryInv, JoinIsInReach
  <2> QED  BY <2>3, <2>4 DEF DeliveryInv
<1>4. ASSUME NEW c \in Conns, TaskDeliver(c) PROVE DeliveryInv'
  <2> USE <1>4 DEF TaskDeliver, SendTaskStep
  <2>1. /\ Writing(c) /\ Written(c) = cursor[c] - 2
        /\ Writing(c)' /\ Written(c)' = cursor[c] - 1
    BY DEF Writing, Written
  <2>2. ASSUME NEW d \in Conns, d # c, Writing(d)'
        PROVE  Writing(d) /\ Written(d)' = Written(d) /\ delivered'[d] = delivered[d]
    BY <2>2 DEF Writing, Written
  <2>3. delivered'[c] = Append(delivered[c], log[cursor[c] - 1])  OBVIOUS
  <2>4. /\ Len(delivered'[c]) = Len(delivered[c]) + 1
        /\ \A i \in 1..Len(delivered[c]) : delivered'[c][i] = delivered[c][i]
        /\ delivered'[c][Len(delivered[c]) + 1] = log[cursor[c] - 1]
    BY <2>3
  <2>5. /\ Len(delivered[c]) <= Written(c)
        /\ \A i \in 1..Len(delivered[c]) :
             delivered[c][i] = log[Written(c) - Len(delivered[c]) + i]
    BY <2>1 DEF DeliveryInv, NoGaps
  <2>6. Written(c)' - Len(delivered'[c]) = Written(c) - Len(delivered[c])
    BY SMTT(40), <2>1, <2>4
  <2>7. /\ Len(delivered'[c]) <= Written(c)'
        /\ \A i \in 1..Len(delivered'[c]) :
             delivered'[c][i] = log[Written(c)' - Len(delivered'[c]) + i]
    <3>1. Written(c)' - Len(delivered'[c]) + (Len(delivered[c]) + 1) = cursor[c] - 1
      BY <2>1, <2>4
    <3>2. \A i \in 1..Len(delivered'[c]) :
            i \in 1..Len(delivered[c]) \/ i = Len(delivered[c]) + 1
      BY SMTT(40), <2>4
    <3>3. ASSUME NEW i \in 1..Len(delivered'[c])
          PROVE  delivered'[c][i] = log[Written(c)' - Len(delivered'[c]) + i]
      <4>1. CASE i \in 1..Len(delivered[c])
        BY <2>4, <2>5, <2>6, <4>1
      <4>2. CASE i = Len(delivered[c]) + 1
        BY <2>4, <3>1, <4>2
      <4> QED  BY <3>2, <4>1, <4>2
    <3>4. Len(delivered'[c]) <= Written(c)'  BY <2>1, <2>4, <2>5
    <3> QED  BY <3>3, <3>4
  <2>8. NoGaps'
    BY SMTT(40), <2>2, <2>7 DEF DeliveryInv, NoGaps
  <2>9. JoinIsInReach'
    <3>1. UNCHANGED <<log, username>>  OBVIOUS
    <3>2. ASSUME NEW d \in Conns, Writing(d)'
          PROVE  Writing(d) /\ Written(d)' - Len(delivered'[d]) = Written(d) - Len(delivered[d])
      <4>1. CASE d = c
        BY <2>1, <2>6, <4>1
      <4>2. CASE d # c
        <5>1. Len(delivered'[d]) = Len(delivered[d])  BY <2>2, <3>2, <4>2
        <5> QED  BY <2>2, <3>2, <4>2, <5>1
      <4> QED  BY <4>1, <4>2
    <3> QED  BY <3>1, <3>2 DEF DeliveryInv, JoinIsInReach
  <2> QED  BY <2>8, <2>9 DEF DeliveryInv
<1>5. ASSUME NEW c \in Conns, TaskLagged(c) \/ TaskFails(c) \/ SendTaskCancelled(c)
      PROVE  DeliveryInv'
  BY <1>5, DeliveryKept DEF TaskLagged, TaskFails, SendTaskCancelled, SendTaskStep
<1>6. ASSUME NEW c \in Conns, RecvTask(c) \/ ReadText(c) \/ ReadOther(c) PROVE DeliveryInv'
  BY <1>6, DeliveryKept DEF RecvTask, ReadText, ReadOther, RelayText, ReadEnd,
                            RecvTaskCancelled, RecvTaskEnds, RecvTaskStep, Sent
<1>7. ASSUME NEW c \in Conns, AnnounceLeft(c) \/ AnnounceCount(c) PROVE DeliveryInv'
  BY <1>7, DeliveryKept DEF AnnounceLeft, AnnounceCount, Sent
<1>8. ASSUME NEW c \in Conns, \/ SendTaskDone(c) \/ RecvTaskDone(c) \/ RemoveUser(c)
                              \/ Connect(c) \/ StreamEnds(c) \/ ClientGone(c)
      PROVE  DeliveryInv'
  BY <1>8, DeliveryKept DEF SendTaskDone, RecvTaskDone, Select, RemoveUser, Connect,
                            StreamEnds, ClientGone
<1>9. ASSUME NEW c \in Conns, NEW n \in AnyName, ReceiveName(c, n) PROVE DeliveryInv'
  <2>1. \A d \in Conns : Writing(d) => username'[d] = username[d]
    BY <1>9 DEF ReceiveName, CheckUsername, TasksAreSpawned, Writing, Unnamed
  <2> QED  BY <1>9, <2>1, DeliveryKept DEF ReceiveName, CheckUsername
<1>10. CASE UNCHANGED vars  BY <1>10, DeliveryKept DEF vars
<1> QED
  BY <1>1, <1>2, <1>3, <1>4, <1>5, <1>6, <1>7, <1>8, <1>9, <1>10
  DEF Next, Handler, SendTask, Client, Finished

\* What a client is written is a gap-free piece of the broadcast (main.rs 94-100).
THEOREM NoGapsInDelivery == Spec => []NoGaps
<1>1. DeliveryInv => NoGaps  BY DEF DeliveryInv
<1> QED  BY InitTypeInv, NextTypeInv, InitDeliveryInv, NextTasksAreSpawned,
            NextDeliveryInv, <1>1, PTL DEF Spec

\* A client that is up to date has seen its own joined message (main.rs 89-92).
THEOREM OwnJoinSeen == Spec => []SeesOwnJoin
<1>1. TypeInv /\ DeliveryInv => SeesOwnJoin
  <2> SUFFICES ASSUME TypeInv, DeliveryInv,
                      NEW c \in Conns, sendTask[c] = "recv", cursor[c] > Len(log)
               PROVE  \E i \in DOMAIN delivered[c] : delivered[c][i] = Joined(username[c])
    BY DEF SeesOwnJoin
  <2> USE DEF TypeInv, TypeOK
  <2>1. Writing(c) /\ Written(c) = Len(log)  BY DEF Writing, Written
  <2>2. PICK p \in DOMAIN log : /\ p > Len(log) - Len(delivered[c])
                                /\ log[p] = Joined(username[c])
    BY <2>1 DEF DeliveryInv, JoinIsInReach
  <2>3. p - (Len(log) - Len(delivered[c])) \in 1..Len(delivered[c])
    BY <2>2
  <2>4. \A i \in 1..Len(delivered[c]) :
          delivered[c][i] = log[Len(log) - Len(delivered[c]) + i]
    BY <2>1 DEF DeliveryInv, NoGaps
  <2>5. delivered[c][p - (Len(log) - Len(delivered[c]))] = log[p]
    BY <2>3, <2>4
  <2> QED  BY <2>2, <2>3, <2>5
<1> QED  BY InitTypeInv, NextTypeInv, InitDeliveryInv, NextTasksAreSpawned,
            NextDeliveryInv, <1>1, PTL DEF Spec

-----------------------------------------------------------------------------
(* Joins and departures of a name alternate.                               *)

PresenceInv == LastMoveTellsPresence /\ JoinsAndLeavesAlternate

LEMMA InitPresenceInv == Init => PresenceInv
BY DEF Init, PresenceInv, LastMoveTellsPresence, JoinsAndLeavesAlternate, TellsPresence,
       Alternates, Moves, Present, LastMove

\* What a new message does to the movements of a name.
LEMMA MovesGrow ==
  ASSUME NEW n \in Names, NEW m \in Messages, log \in Seq(Messages), log' = Append(log, m)
  PROVE  /\ Moves(n)' = Moves(n) \cup {i \in {Len(log) + 1} : m \in {Joined(n), Left(n)}}
         /\ \A i \in Moves(n) : i \in 1..Len(log) /\ log'[i] = log[i]
         /\ log'[Len(log) + 1] = m
<1>1. /\ DOMAIN log' = DOMAIN log \cup {Len(log) + 1}
      /\ \A i \in DOMAIN log : i \in 1..Len(log) /\ log'[i] = log[i]
      /\ log'[Len(log) + 1] = m
  OBVIOUS
<1> QED  BY <1>1 DEF Moves

\* The invariant is kept for a name of which nothing is said and whose presence
\* does not change ...
LEMMA NameKept ==
  ASSUME NEW n \in Names, Alternates(n), TellsPresence(n), Present(n)' <=> Present(n),
         Moves(n)' = Moves(n), \A i \in Moves(n) : log'[i] = log[i]
  PROVE  Alternates(n)' /\ TellsPresence(n)'
<1>1. ASSUME NEW i, NEW j
      PROVE  /\ LastMoveBefore(n, i, j)' <=> LastMoveBefore(n, i, j)
             /\ LastMove(n, i)' <=> LastMove(n, i)
  BY DEF LastMoveBefore, LastMove
<1>2. Alternates(n)'
  BY <1>1 DEF Alternates
<1>3. TellsPresence(n)'
  BY <1>1 DEF TellsPresence
<1> QED  BY <1>2, <1>3

\* ... and for a name whose movement is announced in its turn.
LEMMA NameMoves ==
  ASSUME NEW n \in Names, NEW m \in {Joined(n), Left(n)}, log \in Seq(Messages),
         m \in Messages, log' = Append(log, m), Alternates(n), TellsPresence(n),
         Present(n) <=> m = Left(n), Present(n)' <=> m = Joined(n)
  PROVE  Alternates(n)' /\ TellsPresence(n)'
<1>0. PICK new \in Nat : new = Len(log) + 1  OBVIOUS
<1>1. /\ Moves(n)' = Moves(n) \cup {new}
      /\ \A i \in Moves(n) : i \in 1..Len(log) /\ i < new /\ log'[i] = log[i]
      /\ log'[new] = m
  BY <1>0, MovesGrow
<1>2. Joined(n) # Left(n)  BY DEF Joined, Left
<1>3. LastMove(n, new)' /\ \A i : LastMove(n, i)' => i = new
  BY <1>1 DEF LastMove
<1>4. \A i \in Moves(n) : LastMoveBefore(n, i, new)' <=> LastMove(n, i)
  BY <1>1 DEF LastMove, LastMoveBefore
<1>5. ASSUME NEW j \in Moves(n), NEW i
      PROVE  LastMoveBefore(n, i, j)' <=> LastMoveBefore(n, i, j)
  BY <1>1 DEF LastMoveBefore
<1>6. ~ LastMoveBefore(n, new, new)'  BY <1>1 DEF LastMoveBefore
<1>7. TellsPresence(n)'
  BY <1>1, <1>2, <1>3 DEF TellsPresence
<1>8. Alternates(n)'
  <2>1. ASSUME NEW j \in Moves(n)
        PROVE  IF log'[j] = Joined(n)
               THEN \A i \in Moves(n)' : LastMoveBefore(n, i, j)' => log'[i] = Left(n)
               ELSE \E i \in Moves(n)' : LastMoveBefore(n, i, j)' /\ log'[i] = Joined(n)
    <3>1. ~ LastMoveBefore(n, new, j)
      BY <1>1 DEF LastMoveBefore
    <3> QED  BY <1>1, <1>5, <3>1 DEF Alternates
  <2>2. IF m = Joined(n)
        THEN \A i \in Moves(n)' : LastMoveBefore(n, i, new)' => log'[i] = Left(n)
        ELSE \E i \in Moves(n)' : LastMoveBefore(n, i, new)' /\ log'[i] = Joined(n)
    BY <1>1, <1>2, <1>4, <1>6 DEF TellsPresence
  <2> QED  BY <1>1, <2>1, <2>2 DEF Alternates
<1> QED  BY <1>7, <1>8

\* Steps that announce no movement and change nobody's presence.
LEMMA PresenceKept ==
  ASSUME TypeInv, PresenceInv, \A n \in Names : Present(n)' <=> Present(n),
         \/ log' = log
         \/ \E m \in Messages : /\ log' = Append(log, m)
                                /\ \A n \in Names : m \notin {Joined(n), Left(n)}
  PROVE  PresenceInv'
<1> SUFFICES ASSUME NEW n \in Names PROVE Alternates(n)' /\ TellsPresence(n)'
  BY DEF PresenceInv, JoinsAndLeavesAlternate, LastMoveTellsPresence
<1>1. Moves(n)' = Moves(n) /\ \A i \in Moves(n) : log'[i] = log[i]
  <2>1. CASE log' = log  BY <2>1 DEF Moves
  <2>2. ASSUME NEW m \in Messages, log' = Append(log, m), m \notin {Joined(n), Left(n)}
        PROVE  Moves(n)' = Moves(n) /\ \A i \in Moves(n) : log'[i] = log[i]
    BY ZenonT(60), <2>2, MovesGrow DEF TypeInv, TypeOK
  <2> QED  BY <2>1, <2>2
<1>2. Alternates(n) /\ TellsPresence(n)
  BY DEF PresenceInv, JoinsAndLeavesAlternate, LastMoveTellsPresence
<1> QED  BY <1>1, <1>2, NameKept

\* Steps that announce a movement of one name.
LEMMA PresenceMoves ==
  ASSUME TypeInv, PresenceInv, NEW u, NEW m \in Messages,
         m \in {Joined(u), Left(u)}, log' = Append(log, m),
         u \in Names => /\ Present(u) <=> m = Left(u)
                        /\ Present(u)' <=> m = Joined(u),
         \A n \in Names \ {u} : Present(n)' <=> Present(n)
  PROVE  PresenceInv'
<1> SUFFICES ASSUME NEW n \in Names PROVE Alternates(n)' /\ TellsPresence(n)'
  BY DEF PresenceInv, JoinsAndLeavesAlternate, LastMoveTellsPresence
<1>1. Alternates(n) /\ TellsPresence(n) /\ log \in Seq(Messages)
  BY DEF PresenceInv, JoinsAndLeavesAlternate, LastMoveTellsPresence, TypeInv, TypeOK
<1>2. CASE n = u
  BY <1>1, <1>2, NameMoves
<1>3. CASE n # u
  <2>1. m \notin {Joined(n), Left(n)}  BY <1>3 DEF Joined, Left
  <2>2. Moves(n)' = Moves(n) /\ \A i \in Moves(n) : log'[i] = log[i]
    BY <1>1, <2>1, MovesGrow
  <2> QED  BY <1>1, <1>3, <2>2, NameKept
<1> QED  BY <1>2, <1>3

LEMMA NextPresenceInv ==
  TypeInv /\ NameInv /\ PresenceInv /\ [Next]_vars => PresenceInv'
<1> SUFFICES ASSUME TypeInv, NameInv, PresenceInv, [Next]_vars PROVE PresenceInv'
  OBVIOUS
<1> USE DEF shared, handlerVars, sending, receiving, signals, Enter
<1> USE DEF TypeInv, TypeOK
<1>1. ASSUME NEW c \in Conns, AnnounceJoin(c) PROVE PresenceInv'
  <2> PICK u \in AnyName : u = username[c]  OBVIOUS
  <2>1. Joined(u) \in Messages  BY MessageTypes, UsersAreCountable
  <2>2. log' = Append(log, Joined(u))  BY <1>1 DEF AnnounceJoin, Sent
  <2>3. ASSUME u \in Names
        PROVE  /\ Present(u) <=> Joined(u) = Left(u)
               /\ Present(u)'
    <3>1. c \in Holders
      BY <1>1, <2>3, ConstantsAssumption DEF AnnounceJoin, Holders, Holds, Named
    <3>2. ASSUME NEW d \in Conns, phase[d] \in {"chatting", "leaving"}, username[d] = u
          PROVE  FALSE
      <4>1. d \in Holders
        BY <2>3, <3>2, ConstantsAssumption DEF Holders, Holds, Named
      <4> QED  BY <1>1, <3>1, <3>2, <4>1 DEF NameInv, NamesAreUnique, AnnounceJoin
    <3>3. ~Present(u)  BY <3>2 DEF Present
    <3>4. Present(u)'  BY <1>1 DEF AnnounceJoin, Present
    <3> QED  BY <3>3, <3>4 DEF Joined, Left
  <2>4. \A n \in Names \ {u} : Present(n)' <=> Present(n)
    BY <1>1 DEF AnnounceJoin, Present
  <2> QED  BY <2>1, <2>2, <2>3, <2>4, PresenceMoves
<1>2. ASSUME NEW c \in Conns, AnnounceLeft(c) PROVE PresenceInv'
  <2> PICK u \in AnyName : u = username[c]  OBVIOUS
  <2>1. Left(u) \in Messages  BY MessageTypes, UsersAreCountable
  <2>2. log' = Append(log, Left(u))  BY <1>2 DEF AnnounceLeft, Sent
  <2>3. ASSUME u \in Names
        PROVE  /\ Present(u)
               /\ Present(u)' <=> Left(u) = Joined(u)
    <3>1. c \in Holders
      BY <1>2, <2>3, ConstantsAssumption DEF AnnounceLeft, Holders, Holds, Named
    <3>2. ASSUME NEW d \in Conns, phase'[d] \in {"chatting", "leaving"}, username'[d] = u
          PROVE  FALSE
      <4>1. d # c /\ phase[d] \in {"chatting", "leaving"} /\ username[d] = u
        BY <1>2, <3>2 DEF AnnounceLeft
      <4>2. d \in Holders
        BY <2>3, <4>1, ConstantsAssumption DEF Holders, Holds, Named
      <4> QED  BY <3>1, <4>1, <4>2 DEF NameInv, NamesAreUnique
    <3>3. ~Present(u)'  BY <3>2 DEF Present
    <3>4. Present(u)  BY <1>2 DEF AnnounceLeft, Present
    <3> QED  BY <3>3, <3>4 DEF Joined, Left
  <2>4. \A n \in Names \ {u} : Present(n)' <=> Present(n)
    BY <1>2 DEF AnnounceLeft, Present
  <2> QED  BY <2>1, <2>2, <2>3, <2>4, PresenceMoves
<1>3. ASSUME NEW c \in Conns, RelayText(c) PROVE PresenceInv'
  <2>1. PICK m \in Messages : log' = Append(log, m) /\ m = Text(username[c])
    BY <1>3, MessageTypes, UsersAreCountable DEF RelayText, Sent
  <2>2. \A n \in Names : m \notin {Joined(n), Left(n)}
    BY <2>1 DEF Text, Joined, Left
  <2>3. \A n \in Names : Present(n)' <=> Present(n)
    BY <1>3 DEF RelayText, RecvTaskStep, Present
  <2> QED  BY <2>1, <2>2, <2>3, PresenceKept
<1>4. ASSUME NEW c \in Conns, AnnounceCount(c) PROVE PresenceInv'
  <2>1. PICK m \in Messages : log' = Append(log, m) /\ m = Count(usersLeft[c])
    BY <1>4, MessageTypes DEF AnnounceCount, Sent, AnyName
  <2>2. \A n \in Names : m \notin {Joined(n), Left(n)}
    BY <2>1 DEF Count, Joined, Left
  <2>3. \A n \in Names : Present(n)' <=> Present(n)
    BY <1>4 DEF AnnounceCount, Present
  <2> QED  BY <2>1, <2>2, <2>3, PresenceKept
<1>5. ASSUME NEW c \in Conns,
             \/ Connect(c) \/ StreamEnds(c) \/ Subscribe(c)
             \/ SendTaskDone(c) \/ RecvTaskDone(c) \/ RemoveUser(c) \/ ClientGone(c)
      PROVE  PresenceInv'
  <2>1. \A n \in Names : Present(n)' <=> Present(n)
    BY <1>5 DEF Connect, StreamEnds, Subscribe, SendTaskDone, RecvTaskDone, Select,
                RemoveUser, ClientGone, Present
  <2>2. log' = log
    BY <1>5 DEF Connect, StreamEnds, Subscribe, SendTaskDone, RecvTaskDone, Select,
                RemoveUser, ClientGone
  <2> QED  BY <2>1, <2>2, PresenceKept
<1>6. ASSUME NEW c \in Conns, NEW n \in AnyName, ReceiveName(c, n) PROVE PresenceInv'
  <2>1. \A k \in Names : Present(k)' <=> Present(k)
    BY <1>6 DEF ReceiveName, CheckUsername, Present
  <2> QED  BY <1>6, <2>1, PresenceKept DEF ReceiveName
<1>7. ASSUME NEW c \in Conns, SendTask(c) \/ TaskDeliver(c) PROVE PresenceInv'
  BY <1>7, PresenceKept DEF SendTask, TaskReceive, TaskDeliver, TaskLagged, TaskFails,
                            SendTaskCancelled, SendTaskStep, Present
<1>8. ASSUME NEW c \in Conns, \/ ReadEnd(c) \/ RecvTaskCancelled(c)
                              \/ ReadText(c) \/ ReadOther(c)
      PROVE  PresenceInv'
  BY <1>8, PresenceKept DEF ReadText, ReadOther, ReadEnd, RecvTaskCancelled,
                            RecvTaskEnds, RecvTaskStep, Present
<1>9. CASE UNCHANGED vars  BY <1>9, PresenceKept DEF vars, Present
<1> QED
  BY <1>1, <1>2, <1>3, <1>4, <1>5, <1>6, <1>7, <1>8, <1>9
  DEF Next, Handler, RecvTask, Client, Finished

\* Whatever sessions hold a name in turn, its joined and left messages alternate
\* in the broadcast order (main.rs 91-92 and 117-123).
THEOREM JoinsAlternate == Spec => []JoinsAndLeavesAlternate
<1>1. PresenceInv => JoinsAndLeavesAlternate  BY DEF PresenceInv
<1> QED  BY InitTypeInv, NextTypeInv, InitNameInv, NextNameInv, InitPresenceInv,
            NextPresenceInv, <1>1, PTL DEF Spec

-----------------------------------------------------------------------------
(* The departing handler's count.                                          *)

CountingInv ==
  \A c \in Conns : phase[c] = "counting" => /\ guard = c
                                            /\ usersLeft[c] = Cardinality(users)

LEMMA InitCountingInv == Init => CountingInv
BY DEF Init, CountingInv

LEMMA NextCountingInv == TypeInv /\ CountingInv /\ [Next]_vars => CountingInv'
<1> SUFFICES ASSUME TypeInv, CountingInv, [Next]_vars PROVE CountingInv'  OBVIOUS
<1> USE ConstantsAssumption
<1> USE DEF TypeInv, TypeOK, CountingInv, Enter
<1> USE DEF shared, handlerVars, sending, receiving, signals
<1>1. ASSUME NEW c \in Conns, Handler(c) PROVE CountingInv'
  <2>1. CASE RemoveUser(c)
    <3>1. \A d \in Conns : phase'[d] = "counting" => d = c
      BY <2>1 DEF RemoveUser
    <3>2. guard' = c /\ usersLeft'[c] = Cardinality(users)'
      BY <2>1 DEF RemoveUser
    <3> QED  BY <3>1, <3>2
  <2>2. CASE AnnounceCount(c)
    BY <2>2 DEF AnnounceCount
  <2>3. CASE ~RemoveUser(c) /\ ~AnnounceCount(c)
    BY <1>1, <2>3 DEF Handler, StreamEnds, Subscribe, AnnounceJoin, SendTaskDone,
                      RecvTaskDone, Select, AnnounceLeft
  <2> QED  BY <2>1, <2>2, <2>3
<1>2. ASSUME NEW c \in Conns, SendTask(c) \/ TaskDeliver(c) PROVE CountingInv'
  BY <1>2 DEF SendTask, TaskReceive, TaskDeliver, TaskLagged, TaskFails,
              SendTaskCancelled, SendTaskStep
<1>3. ASSUME NEW c \in Conns, RecvTask(c) \/ ReadText(c) \/ ReadOther(c) PROVE CountingInv'
  BY <1>3 DEF RecvTask, ReadText, ReadOther, RelayText, ReadEnd, RecvTaskCancelled,
              RecvTaskEnds, RecvTaskStep
<1>4. ASSUME NEW c \in Conns, Connect(c) \/ ClientGone(c) PROVE CountingInv'
  BY <1>4 DEF Connect, ClientGone
<1>5. ASSUME NEW c \in Conns, NEW n \in AnyName, ReceiveName(c, n) PROVE CountingInv'
  BY <1>5 DEF ReceiveName, CheckUsername
<1>6. CASE UNCHANGED vars  BY <1>6 DEF vars
<1> QED  BY <1>1, <1>2, <1>3, <1>4, <1>5, <1>6 DEF Next, Client, Finished

\* As many sessions hold a name as there are names other than "" in `users`.
LEMMA HoldersAreCounted ==
  ASSUME TypeInv, NameInv
  PROVE  Cardinality(users) = Cardinality(Holders) + Cardinality(users \cap {Empty})
<1> DEFINE named == users \ {Empty}
           nameOf == [c \in Holders |-> username[c]]
<1>1. IsFiniteSet(AnyName)
  BY ConstantsAssumption, FS_AddElement DEF AnyName
<1>2. IsFiniteSet(users) /\ IsFiniteSet(named) /\ IsFiniteSet(users \cap {Empty})
  <2>1. users \subseteq AnyName  BY DEF TypeInv, TypeOK
  <2>2. named \subseteq AnyName /\ users \cap {Empty} \subseteq AnyName  BY <2>1
  <2> QED  BY <1>1, <2>1, <2>2, FS_Subset
<1>3. Cardinality(named) = Cardinality(Holders)
  <2>1. nameOf \in [Holders -> named]  BY DEF NameInv, UsersAreHeld
  <2>2. \A c, d \in Holders : nameOf[c] = nameOf[d] => c = d
    BY DEF NameInv, NamesAreUnique
  <2>3. \A n \in named : \E c \in Holders : nameOf[c] = n
    BY DEF NameInv, UsersAreHeld
  <2>4. nameOf \in Bijection(Holders, named)
    BY <2>1, <2>2, <2>3 DEF Bijection, Injection, Surjection, IsInjective
  <2>5. ExistsBijection(named, Holders)
    BY <2>4, Fun_ExistsBij, Fun_ExistsBijSymmetric
  <2> QED  BY <1>2, <2>5, FS_Bijection
<1>4. Cardinality(users) = Cardinality(named) + Cardinality(users \cap {Empty})
  <2>1. /\ named \cup (users \cap {Empty}) = users
        /\ named \cap (users \cap {Empty}) = {}
    OBVIOUS
  <2> HIDE DEF named
  <2>2. Cardinality(users) = Cardinality(named) + Cardinality(users \cap {Empty})
                               - Cardinality({})
    BY <1>2, <2>1, FS_Union
  <2>3. Cardinality({}) = 0  BY FS_EmptySet
  <2>4. Cardinality(named) \in Nat /\ Cardinality(users \cap {Empty}) \in Nat
    BY <1>2, FS_CardinalityType
  <2> QED  BY <2>2, <2>3, <2>4
<1> QED  BY <1>3, <1>4

\* "N users in chat" is the number of sessions that hold a name (main.rs 122-124).
THEOREM CountsAreTrue == Spec => CountIsTrue
<1> DEFINE Told(c) == phase[c] = "counting" /\ phase'[c] = "done" =>
      log'[Len(log')] = Count(Cardinality(Holders) + Cardinality(users \cap {Empty}))
<1>1. TypeInv /\ NameInv /\ CountingInv /\ [Next]_vars => [\A c \in Conns : Told(c)]_vars
  <2> SUFFICES ASSUME TypeInv, NameInv, CountingInv, Next, NEW c \in Conns,
                      phase[c] = "counting", phase'[c] = "done"
               PROVE  log'[Len(log')] =
                        Count(Cardinality(Holders) + Cardinality(users \cap {Empty}))
    OBVIOUS
  <2> USE DEF TypeInv, TypeOK, Enter
  <2>1. AnnounceCount(c)
    BY ZenonT(60) DEF Next, Handler, SendTask, RecvTask, Client, Finished, Connect, ReceiveName,
           StreamEnds, Subscribe, AnnounceJoin, TaskReceive, TaskDeliver, TaskLagged,
           TaskFails, SendTaskCancelled, SendTaskStep, ReadText, RelayText, ReadOther,
           ReadEnd, RecvTaskCancelled, RecvTaskEnds, RecvTaskStep, SendTaskDone,
           RecvTaskDone, Select, AnnounceLeft, RemoveUser, AnnounceCount, ClientGone,
           vars, shared, handlerVars, sending, receiving, signals
  <2>2. Count(usersLeft[c]) \in Messages  BY MessageTypes DEF AnyName
  <2>3. log'[Len(log')] = Count(usersLeft[c])
    BY <2>1, <2>2 DEF AnnounceCount, Sent
  <2> QED  BY <2>3, HoldersAreCounted DEF CountingInv
<1>2. CountIsTrue <=> [][\A c \in Conns : Told(c)]_vars
  BY PTL DEF CountIsTrue
<1> QED  BY InitTypeInv, NextTypeInv, InitNameInv, NextNameInv, InitCountingInv,
            NextCountingInv, <1>1, <1>2, PTL DEF Spec

-----------------------------------------------------------------------------
(* The room: what the server's state stands for, and how a step of the     *)
(* server looks in it.                                                     *)

RoomMembers == {<<c, username[c]>> : c \in Holders}
Listeners == {c \in Conns : Listening(c)}
Queue(c) == IF ~Listening(c) THEN <<>> ELSE SubSeq(log, Written(c) + 1, Len(log))
Queues == [c \in Conns |-> Queue(c)]

MembersKept == RoomMembers' = RoomMembers
ListenersKept == \A c \in Conns : Listening(c)' <=> Listening(c)
StandingsKept == \A c \in Conns : Listening(c) => Written(c)' = Written(c)
RoomStands == MembersKept /\ ListenersKept /\ StandingsKept /\ delivered' = delivered

\* A receiver stands within the log.
LEMMA WrittenWithin ==
  ASSUME TypeInv, NEW c \in Conns
  PROVE  Written(c) \in 0..Len(log)
<1>1. log \in Seq(Messages) /\ cursor[c] \in Nat \ {0} /\ cursor[c] <= Len(log) + 1
  BY DEF TypeInv, TypeOK
<1>2. sendTask[c] = "holding" => cursor[c] > 1  BY DEF TypeInv, HeldIsReceived
<1> QED  BY <1>1, <1>2 DEF Written

\* The names in the room change only with their holders.
LEMMA HoldersStay ==
  ASSUME \A c \in Conns : Holds(c)' <=> Holds(c),
         \A c \in Conns : Holds(c) => username'[c] = username[c]
  PROVE  MembersKept
BY DEF MembersKept, RoomMembers, Holders

\* A message more in the log is one more in the piece of it that a receiver has
\* before it.
LEMMA SuffixGrows ==
  ASSUME NEW s \in Seq(Messages), NEW m \in Messages, NEW w \in 0..Len(s)
  PROVE  SubSeq(Append(s, m), w + 1, Len(s) + 1) = Append(SubSeq(s, w + 1, Len(s)), m)
<1> DEFINE t == Append(s, m)
           u == SubSeq(s, w + 1, Len(s))
           v == SubSeq(t, w + 1, Len(s) + 1)
<1>1. /\ t \in Seq(Messages) /\ Len(t) = Len(s) + 1 /\ t[Len(s) + 1] = m
      /\ \A i \in 1..Len(s) : t[i] = s[i]
  BY AppendProperties
<1>2. /\ u \in Seq(Messages) /\ Len(u) = Len(s) - w
      /\ \A i \in 1..Len(s) - w : u[i] = s[w + i]
  <2>1. \A i \in w + 1..Len(s) : s[i] \in Messages  OBVIOUS
  <2> QED  BY <2>1, SubSeqProperties
<1>3. /\ v \in Seq(Messages) /\ Len(v) = Len(s) + 1 - w
      /\ \A i \in 1..Len(s) + 1 - w : v[i] = t[w + i]
  <2>1. \A i \in w + 1..Len(s) + 1 : t[i] \in Messages  BY <1>1
  <2> QED  BY <2>1, SubSeqProperties
<1>4. /\ Append(u, m) \in Seq(Messages) /\ Len(Append(u, m)) = Len(s) + 1 - w
      /\ \A i \in 1..Len(s) - w : Append(u, m)[i] = u[i]
      /\ Append(u, m)[Len(s) + 1 - w] = m
  <2>1. Len(s) - w + 1 = Len(s) + 1 - w  OBVIOUS
  <2> QED  BY <1>2, <2>1, AppendProperties
<1> HIDE DEF t, u, v
<1>5. \A i \in 1..Len(s) + 1 - w : v[i] = Append(u, m)[i]
  <2> SUFFICES ASSUME NEW i \in 1..Len(s) + 1 - w PROVE v[i] = Append(u, m)[i]  OBVIOUS
  <2>1. CASE i = Len(s) + 1 - w
    <3>1. w + i = Len(s) + 1  BY <2>1
    <3> QED  BY <3>1, <2>1, <1>1, <1>3, <1>4
  <2>2. CASE i # Len(s) + 1 - w
    <3>1. i \in 1..Len(s) - w /\ w + i \in 1..Len(s)  BY <2>2
    <3> QED  BY <3>1, <1>1, <1>2, <1>3, <1>4
  <2> QED  BY <2>1, <2>2
<1>6. v = Append(u, m)  BY <1>3, <1>4, <1>5, SeqEqual
<1> QED  BY <1>6 DEF t, u, v

\* A step of the server that the room does not see.
LEMMA RoomUnchanged ==
  ASSUME RoomStands, log' = log
  PROVE  UNCHANGED Room!vars
<1>1. Queues' = Queues /\ Listeners' = Listeners
  BY DEF RoomStands, ListenersKept, StandingsKept, Queues, Queue, Listeners
<1> QED  BY <1>1 DEF RoomStands, MembersKept, RoomMembers, Queues, Queue, Listeners, Room!vars

\* A step that sends a message to all.
LEMMA RoomPosts ==
  ASSUME TypeInv, RoomStands, NEW m \in Messages, log' = Append(log, m)
  PROVE  Room!Next
<1>1. log \in Seq(Messages) /\ Len(log') = Len(log) + 1  BY DEF TypeInv, TypeOK
<1>2. ASSUME NEW c \in Conns
      PROVE  Queue(c)' = IF c \in Listeners THEN Append(Queues[c], m) ELSE Queues[c]
  <2>1. CASE Listening(c)
    <3>1. Written(c)' = Written(c) /\ Listening(c)'
      BY <2>1 DEF RoomStands, ListenersKept, StandingsKept
    <3>2. SubSeq(log', Written(c) + 1, Len(log')) =
            Append(SubSeq(log, Written(c) + 1, Len(log)), m)
      BY <1>1, WrittenWithin, SuffixGrows
    <3> QED  BY <2>1, <3>1, <3>2 DEF Queue, Queues, Listeners
  <2>2. CASE ~Listening(c)
    BY <2>2 DEF RoomStands, ListenersKept, Queue, Queues, Listeners
  <2> QED  BY <2>1, <2>2
<1>3. /\ Queues' = [c \in Conns |-> IF c \in Listeners THEN Append(Queues[c], m) ELSE Queues[c]]
      /\ Listeners' = Listeners /\ RoomMembers' = RoomMembers /\ delivered' = delivered
  BY <1>2 DEF Queues, RoomStands, MembersKept, ListenersKept, Listeners
<1>4. Room!Post(m)
  BY <1>3 DEF Room!Post, Queues, Queue, Listeners, RoomMembers
<1> QED  BY <1>4 DEF Room!Next

\* A receiver that goes gives up its queue.
LEMMA RoomHangsUp ==
  ASSUME NEW c \in Conns, Listening(c), ~Listening(c)', log' = log, delivered' = delivered,
         MembersKept, \A d \in Conns \ {c} : /\ Listening(d)' <=> Listening(d)
                                             /\ Written(d)' = Written(d)
  PROVE  Room!Next
<1>1. \A d \in Conns \ {c} : Queue(d)' = Queue(d)  BY DEF Queue
<1>2. Queue(c)' = <<>>  BY DEF Queue
<1>3. Queues' = [Queues EXCEPT ![c] = <<>>]  BY <1>1, <1>2 DEF Queues
<1>4. c \in Listeners /\ Listeners' = Listeners \ {c}  BY DEF Listeners
<1>5. Room!HangUp(c)
  BY <1>3, <1>4 DEF MembersKept, Room!HangUp, Queues, Queue, Listeners, RoomMembers
<1> QED  BY <1>5 DEF Room!Next

\* The handler subscribes: a receiver at the end of the log has nothing before it.
LEMMA RoomListens ==
  ASSUME TypeInv, TasksAreSpawned, NEW c \in Conns, Subscribe(c)
  PROVE  Room!Next
<1> USE DEF Subscribe, Enter, shared, receiving, signals, TypeInv, TypeOK
<1>1. sendTask[c] = "none" /\ delivered[c] = <<>>  BY DEF TasksAreSpawned, Unnamed
<1>2. MembersKept
  <2>1. \A d \in Conns : Holds(d)' <=> Holds(d)  BY DEF Holds, Named
  <2> QED  BY <2>1, HoldersStay
<1>3. ~Listening(c) /\ Listening(c)'  BY <1>1 DEF Listening, Writing
<1>4. \A d \in Conns \ {c} : /\ Listening(d)' <=> Listening(d)
                             /\ Written(d)' = Written(d)
  BY DEF Listening, Writing, Written
<1>5. Queue(c)' = Queue(c)
  <2>1. Written(c)' = Len(log)  BY <1>1 DEF Written, SubscribeAt
  <2>2. SubSeq(log, Len(log) + 1, Len(log)) = <<>>  BY SubSeqEmpty
  <2> QED  BY <1>3, <2>1, <2>2 DEF Queue
<1>6. Queues' = Queues
  <2>1. \A d \in Conns \ {c} : Queue(d)' = Queue(d)  BY <1>4 DEF Queue
  <2> QED  BY <2>1, <1>5 DEF Queues
<1>7. c \notin Listeners /\ Listeners' = Listeners \cup {c}
  BY <1>3, <1>4 DEF Listeners
<1>8. Room!Listen(c)
  BY <1>1, <1>2, <1>6, <1>7
  DEF MembersKept, Room!Listen, Queues, Queue, Listeners, RoomMembers
<1> QED  BY <1>8 DEF Room!Next

\* The send task writes the message it holds: the head of what it had before it.
LEMMA RoomDelivers ==
  ASSUME TypeInv, NEW c \in Conns, TaskDeliver(c)
  PROVE  Room!Next
<1> USE DEF TaskDeliver, SendTaskStep, shared, handlerVars, receiving, signals,
            TypeInv, TypeOK, HeldIsReceived
<1> DEFINE p == cursor[c] - 1
<1>1. p \in 1..Len(log)  OBVIOUS
<1>2. MembersKept
  <2>1. \A d \in Conns : Holds(d)' <=> Holds(d)  BY DEF Holds
  <2> QED  BY <2>1, HoldersStay
<1>3. Listening(c) /\ Listening(c)'  BY DEF Listening, Writing
<1>4. \A d \in Conns \ {c} : /\ Listening(d)' <=> Listening(d)
                             /\ Written(d)' = Written(d)
  BY DEF Listening, Writing, Written
<1>5. Written(c) + 1 = p /\ Written(c)' = p  BY DEF Written
<1>6. Queue(c) = SubSeq(log, p, Len(log)) /\ Queue(c)' = SubSeq(log, p + 1, Len(log))
  BY <1>3, <1>5 DEF Queue
<1>7. Queue(c) # <<>> /\ Head(Queue(c)) = log[p] /\ Queue(c)' = Tail(Queue(c))
  <2>1. log \in Seq(Messages) /\ Len(log) \in p..Len(log)  BY <1>1
  <2>2. Head(SubSeq(log, p, Len(log))) = log[p]
        /\ Tail(SubSeq(log, p, Len(log))) = SubSeq(log, p + 1, Len(log))
    BY <1>1, <2>1, HeadTailOfSubSeq
  <2>3. Len(SubSeq(log, p, Len(log))) # 0
    <3>1. \A i \in p..Len(log) : log[i] \in Messages  BY <1>1, <2>1
    <3> HIDE DEF p
    <3> QED  BY <3>1, <1>1, SubSeqProperties
  <2>4. SubSeq(log, p, Len(log)) # <<>>  BY <2>3, EmptySeq
  <2> HIDE DEF p, TaskDeliver, TypeInv
  <2> QED  BY <1>6, <2>2, <2>4
<1>8. Queues' = [Queues EXCEPT ![c] = Tail(@)]
  <2>1. \A d \in Conns \ {c} : Queue(d)' = Queue(d)  BY <1>4 DEF Queue
  <2> QED  BY <2>1, <1>7 DEF Queues
<1>9. delivered' = [delivered EXCEPT ![c] = Append(@, Head(Queues[c]))]
  BY <1>7 DEF Queues
<1>10. Listeners' = Listeners  BY <1>3, <1>4 DEF Listeners
<1>11. Queues[c] # <<>>  BY <1>7 DEF Queues
<1> HIDE DEF TaskDeliver
<1>12. Room!Deliver(c)
  BY <1>2, <1>8, <1>9, <1>10, <1>11
  DEF MembersKept, Room!Deliver, Queues, Queue, Listeners, RoomMembers
<1> QED  BY <1>12 DEF Room!Next

\* Nothing of what the room shows but its members has moved.
TasksStand == UNCHANGED <<sending, log>> /\ \A c \in Conns :
                phase'[c] = "subscribed" <=> phase[c] = "subscribed"

LEMMA QueuesStand ==
  ASSUME TasksStand
  PROVE  Queues' = Queues /\ Listeners' = Listeners /\ delivered' = delivered
BY DEF TasksStand, sending, Queues, Queue, Listeners, Listening, Writing, Written

\* A name that is claimed was nobody's, and the session had none.
LEMMA RoomEntered ==
  ASSUME TypeInv, NameInv, NEW c \in Conns, NEW n \in AnyName, ReceiveName(c, n)
  PROVE  Room!Next \/ UNCHANGED Room!vars
<1> USE DEF ReceiveName, CheckUsername, Enter, sending, TypeInv, TypeOK
<1>1. username[c] = Empty /\ phase[c] = "naming"  BY DEF NameInv, UnnamedHasNoName, Unnamed
<1>2. TasksStand  BY DEF TasksStand
<1>3. Queues' = Queues /\ Listeners' = Listeners /\ delivered' = delivered
  BY <1>2, QueuesStand
<1>4. c \notin Holders  BY <1>1 DEF Holders, Holds
<1>5. CASE n \in users \/ n = Empty
  <2>1. username' = username  BY <1>1, <1>5
  <2>2. \A d \in Conns : Holds(d)' <=> Holds(d)  BY <1>1, <2>1 DEF Holds
  <2>3. RoomMembers' = RoomMembers  BY <2>1, <2>2 DEF RoomMembers, Holders
  <2>4. UNCHANGED Room!vars
    BY <1>3, <2>3 DEF RoomMembers, Queues, Queue, Listeners, Room!vars
  <2> QED  BY <2>4
<1>6. CASE n \notin users /\ n # Empty
  <2>1. n \in Names  BY <1>6 DEF AnyName
  <2>2. username' = [username EXCEPT ![c] = n] /\ phase' = [phase EXCEPT ![c] = "named"]
    BY <1>6
  <2>3. Holders' = Holders \cup {c}  BY <1>6, <2>2 DEF Holders, Holds, Named
  <2>4. RoomMembers' = RoomMembers \cup {<<c, n>>}
    <3>1. \A d \in Holders : username'[d] = username[d]
      BY <1>4, <2>2 DEF Holders
    <3>2. username'[c] = n  BY <2>2
    <3> QED  BY <2>3, <3>1, <3>2 DEF RoomMembers
  <2>5. \A m \in RoomMembers : m[1] # c /\ m[2] # n
    <3>1. \A d \in Holders : d # c /\ username[d] # n
      BY <1>4, <1>6 DEF NameInv, UsersAreHeld
    <3> QED  BY <3>1 DEF RoomMembers
  <2>6. Room!Enter(c, n)
    BY <1>3, <2>4, <2>5 DEF Room!Enter, RoomMembers, Queues, Queue, Listeners
  <2> QED  BY <2>1, <2>6 DEF Room!Next
<1> QED  BY <1>5, <1>6

\* A name that is given back leaves with its one holder.
LEMMA RoomLeft ==
  ASSUME TypeInv, NEW c \in Conns, RemoveUser(c)
  PROVE  Room!Next \/ UNCHANGED Room!vars
<1> USE DEF RemoveUser, Enter, sending, receiving, TypeInv, TypeOK
<1>1. TasksStand  BY DEF TasksStand
<1>2. Queues' = Queues /\ Listeners' = Listeners /\ delivered' = delivered
  BY <1>1, QueuesStand
<1>3. Holders' = Holders \ {c}  BY DEF Holders, Holds, Named
<1>4. RoomMembers' = {m \in RoomMembers : m[1] # c}
  BY <1>3 DEF RoomMembers
<1>5. CASE c \in Holders
  <2>1. username[c] \in Names /\ <<c, username[c]>> \in RoomMembers
    BY <1>5 DEF RoomMembers, Holders, Holds, AnyName
  <2>2. Room!Exit(c)
    BY <1>2, <1>4, <2>1 DEF Room!Exit, RoomMembers, Queues, Queue, Listeners
  <2> QED  BY <2>2 DEF Room!Next
<1>6. CASE c \notin Holders
  <2>1. RoomMembers' = RoomMembers  BY <1>3, <1>6 DEF RoomMembers
  <2>2. UNCHANGED Room!vars
    BY <1>2, <2>1 DEF RoomMembers, Queues, Queue, Listeners, Room!vars
  <2> QED  BY <2>2
<1> QED  BY <1>5, <1>6

\* Every step of the server is one of the room or none.
LEMMA RoomSteps ==
  TypeInv /\ NameInv /\ TasksAreSpawned /\ [Next]_vars => [Room!Next]_(Room!vars)
<1> SUFFICES ASSUME TypeInv, NameInv, TasksAreSpawned, [Next]_vars
             PROVE  Room!Next \/ UNCHANGED Room!vars
  OBVIOUS
<1> DEFINE Shown == Room!Next \/ UNCHANGED Room!vars
           Still == /\ UNCHANGED <<username, cursor, delivered>>
                    /\ \A c \in Conns : /\ Holds(c)' <=> Holds(c)
                                        /\ Listening(c)' <=> Listening(c)
                                        /\ Written(c)' = Written(c)
<1>1. Still => RoomStands
  <2> SUFFICES ASSUME Still PROVE RoomStands  OBVIOUS
  <2>1. MembersKept  BY HoldersStay
  <2> QED  BY <2>1 DEF RoomStands, ListenersKept, StandingsKept
<1>2. Still /\ log' = log => Shown  BY <1>1, RoomUnchanged
<1>3. ASSUME Still, NEW m \in Messages, log' = Append(log, m) PROVE Shown
  BY <1>1, <1>3, RoomPosts
<1>4. ASSUME NEW c \in Conns, log' = log, delivered' = delivered, username' = username,
             phase' = phase, \A d \in Conns \ {c} : sendTask'[d] = sendTask[d],
             cursor' = cursor, Writing(c), ~Writing(c)'
      PROVE  Shown
  <2>1. phase[c] # "subscribed"
    BY <1>4 DEF TasksAreSpawned, Unnamed, Writing
  <2>2. Listening(c) /\ ~Listening(c)'  BY <1>4, <2>1 DEF Listening
  <2>3. \A d \in Conns \ {c} : /\ Listening(d)' <=> Listening(d)
                               /\ Written(d)' = Written(d)
    BY <1>4 DEF Listening, Writing, Written
  <2>4. MembersKept
    <3>1. \A d \in Conns : Holds(d)' <=> Holds(d)  BY <1>4 DEF Holds
    <3> QED  BY <1>4, <3>1, HoldersStay
  <2> QED  BY <1>4, <2>2, <2>3, <2>4, RoomHangsUp
<1> HIDE DEF Shown
<1> USE DEF TypeInv, TypeOK, Enter, shared, handlerVars, sending, receiving, signals
<1>5. ASSUME NEW c \in Conns, Connect(c) \/ StreamEnds(c) PROVE Shown
  <2>1. Still
    BY <1>5 DEF Connect, StreamEnds, Holds, Named, Listening, Writing, Written,
                NameInv, UnnamedHasNoName, Unnamed
  <2> QED  BY <1>2, <1>5, <2>1 DEF Connect, StreamEnds
<1>6. ASSUME NEW c \in Conns, NEW n \in AnyName, ReceiveName(c, n) PROVE Shown
  BY <1>6, RoomEntered DEF Shown
<1>7. ASSUME NEW c \in Conns, Subscribe(c) PROVE Shown
  BY <1>7, RoomListens DEF Shown
<1>8. ASSUME NEW c \in Conns, AnnounceJoin(c) PROVE Shown
  <2>1. Joined(username[c]) \in Messages  BY MessageTypes, UsersAreCountable
  <2>2. sendTask[c] = "none"  BY <1>8 DEF AnnounceJoin, TasksAreSpawned, Unnamed
  <2>3. Still
    BY <1>8, <2>2 DEF AnnounceJoin, Holds, Named, Listening, Writing, Written
  <2> QED  BY <1>3, <1>8, <2>1, <2>3 DEF AnnounceJoin, Sent
<1>9. ASSUME NEW c \in Conns, TaskReceive(c) PROVE Shown
  <2>1. MembersKept
    <3>1. \A d \in Conns : Holds(d)' <=> Holds(d)
      BY <1>9 DEF TaskReceive, SendTaskStep, Holds
    <3> QED  BY <1>9, <3>1, HoldersStay DEF TaskReceive, SendTaskStep
  <2>2. ListenersKept /\ StandingsKept
    BY <1>9 DEF TaskReceive, SendTaskStep, ListenersKept, StandingsKept, Listening,
                Writing, Written
  <2>3. RoomStands  BY <1>9, <2>1, <2>2 DEF RoomStands, TaskReceive
  <2> QED  BY <1>9, <2>3, RoomUnchanged DEF Shown, TaskReceive, SendTaskStep
<1>10. ASSUME NEW c \in Conns, TaskDeliver(c) PROVE Shown
  BY <1>10, RoomDelivers DEF Shown
<1>11. ASSUME NEW c \in Conns, TaskLagged(c) \/ TaskFails(c) \/ SendTaskCancelled(c)
       PROVE  Shown
  <2>1. Writing(c) /\ ~Writing(c)'
    BY <1>11 DEF TaskLagged, TaskFails, SendTaskCancelled, SendTaskStep, Writing
  <2>2. /\ UNCHANGED <<log, delivered, username, phase, cursor>>
        /\ \A d \in Conns \ {c} : sendTask'[d] = sendTask[d]
    BY <1>11 DEF TaskLagged, TaskFails, SendTaskCancelled, SendTaskStep
  <2> QED  BY <1>4, <2>1, <2>2
<1>12. ASSUME NEW c \in Conns, ReadText(c) PROVE Shown
  <2>1. Still
    BY <1>12 DEF ReadText, RecvTaskStep, Holds, Listening, Writing, Written
  <2> QED  BY <1>2, <1>12, <2>1 DEF ReadText
<1>13. ASSUME NEW c \in Conns, RelayText(c) PROVE Shown
  <2>1. Text(username[c]) \in Messages  BY MessageTypes, UsersAreCountable
  <2>2. Still
    BY <1>13 DEF RelayText, RecvTaskStep, Holds, Listening, Writing, Written
  <2> QED  BY <1>3, <1>13, <2>1, <2>2 DEF RelayText, Sent
<1>14. ASSUME NEW c \in Conns, ReadOther(c) \/ ReadEnd(c) \/ RecvTaskCancelled(c)
       PROVE  Shown
  <2>1. RecvTaskEnds(c)  BY <1>14 DEF ReadOther, ReadEnd, RecvTaskCancelled
  <2>2. Still
    BY <2>1 DEF RecvTaskEnds, RecvTaskStep, Holds, Listening, Writing, Written
  <2> QED  BY <1>2, <2>1, <2>2 DEF RecvTaskEnds
<1>15. ASSUME NEW c \in Conns, SendTaskDone(c) \/ RecvTaskDone(c) PROVE Shown
  <2>1. Still
    BY <1>15 DEF SendTaskDone, RecvTaskDone, Select, Holds, Named, Listening, Writing,
                 Written
  <2> QED  BY <1>2, <1>15, <2>1 DEF SendTaskDone, RecvTaskDone, Select
<1>16. ASSUME NEW c \in Conns, AnnounceLeft(c) PROVE Shown
  <2>1. Left(username[c]) \in Messages  BY MessageTypes, UsersAreCountable
  <2>2. Still
    BY <1>16 DEF AnnounceLeft, Holds, Named, Listening, Writing, Written
  <2> QED  BY <1>3, <1>16, <2>1, <2>2 DEF AnnounceLeft, Sent
<1>17. ASSUME NEW c \in Conns, RemoveUser(c) PROVE Shown
  BY <1>17, RoomLeft DEF Shown
<1>18. ASSUME NEW c \in Conns, AnnounceCount(c) PROVE Shown
  <2>1. Count(usersLeft[c]) \in Messages  BY MessageTypes DEF AnyName
  <2>2. Still
    BY <1>18 DEF AnnounceCount, Holds, Named, Listening, Writing, Written
  <2> QED  BY <1>3, <1>18, <2>1, <2>2 DEF AnnounceCount, Sent
<1>19. ASSUME NEW c \in Conns, ClientGone(c) PROVE Shown
  <2>1. Still
    BY <1>19 DEF ClientGone, Holds, Listening, Writing, Written
  <2> QED  BY <1>2, <1>19, <2>1 DEF ClientGone
<1>20. CASE UNCHANGED vars
  <2>1. Still
    BY <1>20 DEF vars, Holds, Listening, Writing, Written
  <2>2. log' = log  BY <1>20 DEF vars
  <2>3. Shown  BY <1>2, <2>1, <2>2
  <2> QED  BY <2>3 DEF Shown
<1> QED
  BY <1>5, <1>6, <1>7, <1>8, <1>9, <1>10, <1>11, <1>12, <1>13, <1>14, <1>15, <1>16,
     <1>17, <1>18, <1>19, <1>20
  DEF Shown, Next, Handler, SendTask, RecvTask, Client, Finished

\* The server starts as an empty room.
LEMMA RoomInit == Init => Room!Init
BY DEF Init, Room!Init, Holders, Holds, Named, Listening, Writing

\* The server implements the room: exclusive names, and a private queue for
\* every listener in the one order of the room (main.rs 60-133).
THEOREM RoomImplemented == Spec => ImplementsRoom
<1>1. Init => Room!Init  BY RoomInit
<1>2. TypeInv /\ NameInv /\ TasksAreSpawned /\ [Next]_vars => [Room!Next]_(Room!vars)
  BY RoomSteps
<1> QED  BY InitTypeInv, NextTypeInv, InitNameInv, NextNameInv, InitDeliveryInv,
            NextTasksAreSpawned, <1>1, <1>2, PTL DEF Spec, ImplementsRoom, Room!Spec

-----------------------------------------------------------------------------
(* The end of a session, and who can be heard.                             *)

LEMMA InitTornDown == Init => SessionsAreTornDown
BY ConstantsAssumption DEF Init, SessionsAreTornDown, Departing, Running

\* A task that is over stays over, select! aborts the other one, and the lock
\* changes hands with the phase of its holder (main.rs 112-125).
LEMMA NextTornDown ==
  TypeInv /\ SessionsAreTornDown /\ [Next]_vars => SessionsAreTornDown'
<1> SUFFICES ASSUME TypeInv, SessionsAreTornDown, [Next]_vars PROVE SessionsAreTornDown'
  OBVIOUS
<1> USE ConstantsAssumption DEF TypeInv, TypeOK, SessionsAreTornDown, Departing, Running
<1> USE DEF shared, handlerVars, sending, receiving, signals, Enter
<1>1. ASSUME NEW c \in Conns, Connect(c) \/ StreamEnds(c) \/ Subscribe(c) \/ ClientGone(c)
      PROVE  SessionsAreTornDown'
  <2>1. /\ UNCHANGED <<guard, sendTask, recvTask, aborted>>
        /\ \A d \in Conns : \/ phase'[d] = phase[d]
                            \/ /\ phase[d] \in {"idle", "naming", "named"}
                               /\ phase'[d] \in {"naming", "named", "subscribed"}
    BY <1>1 DEF Connect, StreamEnds, Subscribe, ClientGone
  <2> QED  BY <2>1
<1>2. ASSUME NEW c \in Conns, NEW n \in AnyName, ReceiveName(c, n)
      PROVE  SessionsAreTornDown'
  BY <1>2 DEF ReceiveName
<1>3. ASSUME NEW c \in Conns, AnnounceJoin(c) PROVE SessionsAreTornDown'
  BY <1>3 DEF AnnounceJoin
<1>4. ASSUME NEW c \in Conns,
             \/ TaskReceive(c) \/ TaskDeliver(c) \/ TaskLagged(c) \/ TaskFails(c)
             \/ SendTaskCancelled(c)
      PROVE  SessionsAreTornDown'
  BY <1>4 DEF TaskReceive, TaskDeliver, TaskLagged, TaskFails, SendTaskCancelled, SendTaskStep
<1>5. ASSUME NEW c \in Conns,
             \/ ReadText(c) \/ RelayText(c) \/ ReadOther(c) \/ ReadEnd(c)
             \/ RecvTaskCancelled(c)
      PROVE  SessionsAreTornDown'
  BY <1>5 DEF ReadText, RelayText, ReadOther, ReadEnd, RecvTaskCancelled, RecvTaskEnds,
              RecvTaskStep
<1>6. ASSUME NEW c \in Conns, SendTaskDone(c) \/ RecvTaskDone(c)
      PROVE  SessionsAreTornDown'
  BY <1>6 DEF SendTaskDone, RecvTaskDone, Select
<1>7. ASSUME NEW c \in Conns, AnnounceLeft(c) PROVE SessionsAreTornDown'
  BY <1>7 DEF AnnounceLeft
<1>8. ASSUME NEW c \in Conns, RemoveUser(c) PROVE SessionsAreTornDown'
  BY <1>8 DEF RemoveUser
<1>9. ASSUME NEW c \in Conns, AnnounceCount(c) PROVE SessionsAreTornDown'
  BY <1>9 DEF AnnounceCount
<1>10. CASE UNCHANGED vars  BY <1>10 DEF vars
<1> QED
  BY <1>1, <1>2, <1>3, <1>4, <1>5, <1>6, <1>7, <1>8, <1>9, <1>10
  DEF Next, Handler, SendTask, RecvTask, Client, Finished

\* No session leaves a task behind that is not on its end, nor takes the lock to
\* its grave, for any number of sessions (main.rs 112-125).
THEOREM TornDown == Spec => []SessionsAreTornDown
BY InitTypeInv, NextTypeInv, InitTornDown, NextTornDown, PTL DEF Spec

SpeechInv == SpeakersHaveJoined /\ TextsFollowJoins

LEMMA InitSpeechInv == Init => SpeechInv
BY DEF Init, SpeechInv, SpeakersHaveJoined, TextsFollowJoins

\* A message more, which is no text or one of a speaker who has joined.
LEMMA SpeechKept ==
  ASSUME SpeechInv, log \in Seq(Messages), NEW m, log' = Append(log, m),
         \A n \in AnyName : m = Text(n) => \E i \in DOMAIN log : log[i] = Joined(n),
         \A c \in Conns : recvTask'[c] # "none" =>
            \E i \in DOMAIN log' : log'[i] = Joined(username'[c])
  PROVE  SpeechInv'
<1>1. /\ Len(log) \in Nat /\ DOMAIN log = 1..Len(log)
      /\ DOMAIN log' = 1..Len(log) + 1
      /\ log'[Len(log) + 1] = m
      /\ \A i \in 1..Len(log) : log'[i] = log[i]
  OBVIOUS
<1>2. ASSUME NEW j \in DOMAIN log', NEW n \in AnyName, log'[j] = Text(n)
      PROVE  \E i \in 1..j - 1 : log'[i] = Joined(n)
  <2>1. CASE j = Len(log) + 1
    BY <1>1, <1>2, <2>1
  <2>2. CASE j # Len(log) + 1
    <3>1. j \in DOMAIN log /\ log[j] = Text(n)  BY <1>1, <1>2, <2>2
    <3>2. PICK i \in 1..j - 1 : log[i] = Joined(n)
      BY <3>1 DEF SpeechInv, TextsFollowJoins
    <3>3. log'[i] = Joined(n)  BY <1>1, <3>1, <3>2
    <3> QED  BY <3>3
  <2> QED  BY <2>1, <2>2
<1>3. TextsFollowJoins'
  <2>1. \A n : Text(n)' = Text(n) /\ Joined(n)' = Joined(n)  BY DEF Text, Joined
  <2>2. AnyName' = AnyName  BY DEF AnyName
  <2> QED  BY <1>2, <2>1, <2>2 DEF TextsFollowJoins
<1> QED  BY <1>3 DEF SpeechInv, SpeakersHaveJoined, Joined

\* Only what the receive task relays is a text, and the task is spawned after the
\* announcement (main.rs 91-109).
LEMMA NextSpeechInv ==
  TypeInv /\ TasksAreSpawned /\ SpeechInv /\ [Next]_vars => SpeechInv'
<1> SUFFICES ASSUME TypeInv, TasksAreSpawned, SpeechInv, [Next]_vars PROVE SpeechInv'
  OBVIOUS
<1> USE DEF shared, handlerVars, sending, receiving, signals, Enter
<1>t. /\ log \in Seq(Messages) /\ Len(log) \in Nat /\ DOMAIN log = 1..Len(log)
      /\ username \in [Conns -> AnyName] /\ recvTask \in [Conns -> TaskStates]
  BY DEF TypeInv, TypeOK
<1>s. \A c \in Conns : recvTask[c] # "none" => \E i \in DOMAIN log : log[i] = Joined(username[c])
  BY DEF SpeechInv, SpeakersHaveJoined
<1>q. ASSUME log' = log,
             \A c \in Conns : recvTask'[c] # "none" =>
               recvTask[c] # "none" /\ username'[c] = username[c]
      PROVE  SpeechInv'
  BY <1>q DEF SpeechInv, SpeakersHaveJoined, TextsFollowJoins, Joined, Text, AnyName
<1>p. ASSUME NEW m, log' = Append(log, m), \A n \in AnyName : m # Text(n),
             UNCHANGED <<recvTask, username>>
      PROVE  SpeechInv'
  <2>1. \A i \in DOMAIN log : i \in DOMAIN log' /\ log'[i] = log[i]  BY <1>t, <1>p
  <2> QED  BY <1>t, <1>s, <1>p, <2>1, SpeechKept
<1>1. ASSUME NEW c \in Conns, NEW n \in AnyName, ReceiveName(c, n) PROVE SpeechInv'
  <2>1. recvTask[c] = "none"
    BY <1>1 DEF ReceiveName, TasksAreSpawned, Unnamed
  <2>2. \A d \in Conns : d # c => username'[d] = username[d]
    BY <1>1, <1>t DEF ReceiveName, CheckUsername
  <2> QED  BY <1>1, <1>q, <2>1, <2>2 DEF ReceiveName
<1>2. ASSUME NEW c \in Conns, AnnounceJoin(c) PROVE SpeechInv'
  <2> DEFINE m == Joined(username[c])
  <2>1. log' = Append(log, m) /\ username' = username
        /\ recvTask' = [recvTask EXCEPT ![c] = "recv"]
    BY <1>2 DEF AnnounceJoin, Sent
  <2>2. /\ \A i \in DOMAIN log : i \in DOMAIN log' /\ log'[i] = log[i]
        /\ Len(log) + 1 \in DOMAIN log' /\ log'[Len(log) + 1] = m
    BY <1>t, <2>1
  <2>3. \A n \in AnyName : m # Text(n)  BY DEF Joined, Text
  <2>4. ASSUME NEW d \in Conns, recvTask'[d] # "none"
        PROVE  \E i \in DOMAIN log' : log'[i] = Joined(username'[d])
    <3>1. CASE d = c  BY <3>1, <2>1, <2>2
    <3>2. CASE d # c
      <4>1. recvTask[d] # "none"  BY <3>2, <2>1, <2>4, <1>t
      <4> QED  BY <4>1, <1>s, <2>1, <2>2
    <3> QED  BY <3>1, <3>2
  <2> HIDE DEF m
  <2> QED  BY <1>t, <2>1, <2>3, <2>4, SpeechKept
<1>3. ASSUME NEW c \in Conns, RelayText(c) PROVE SpeechInv'
  <2> DEFINE m == Text(username[c])
  <2>1. /\ log' = Append(log, m) /\ username' = username /\ recvTask[c] = "holding"
        /\ recvTask' = [recvTask EXCEPT ![c] = "recv"]
    BY <1>3 DEF RelayText, RecvTaskStep, Sent
  <2>2. \A i \in DOMAIN log : i \in DOMAIN log' /\ log'[i] = log[i]  BY <1>t, <2>1
  <2>3. \A n \in AnyName : m = Text(n) => \E i \in DOMAIN log : log[i] = Joined(n)
    BY <1>s, <2>1 DEF Text
  <2>4. ASSUME NEW d \in Conns, recvTask'[d] # "none"
        PROVE  \E i \in DOMAIN log' : log'[i] = Joined(username'[d])
    <3>1. recvTask[d] # "none"  BY <2>1, <2>4, <1>t
    <3> QED  BY <3>1, <1>s, <2>1, <2>2
  <2> HIDE DEF m
  <2> QED  BY <1>t, <2>1, <2>3, <2>4, SpeechKept
<1>4. ASSUME NEW c \in Conns, AnnounceLeft(c) PROVE SpeechInv'
  <2>1. \A n \in AnyName : Left(username[c]) # Text(n)  BY DEF Left, Text
  <2> QED  BY <1>4, <2>1, <1>p DEF AnnounceLeft, Sent
<1>5. ASSUME NEW c \in Conns, AnnounceCount(c) PROVE SpeechInv'
  <2>1. \A n \in AnyName : Count(usersLeft[c]) # Text(n)  BY DEF Count, Text
  <2> QED  BY <1>5, <2>1, <1>p DEF AnnounceCount, Sent
<1>6. ASSUME NEW c \in Conns,
             \/ ReadText(c) \/ ReadOther(c) \/ ReadEnd(c) \/ RecvTaskCancelled(c)
      PROVE  SpeechInv'
  <2>1. /\ recvTask[c] = "recv" /\ \E s \in TaskStates : recvTask' = [recvTask EXCEPT ![c] = s]
        /\ UNCHANGED <<log, username>>
    BY <1>6 DEF ReadText, ReadOther, ReadEnd, RecvTaskCancelled, RecvTaskEnds, RecvTaskStep,
                TaskStates
  <2> QED  BY <1>t, <2>1, <1>q
<1>7. ASSUME UNCHANGED <<log, username, recvTask>> PROVE SpeechInv'
  BY <1>7, <1>q
<1>8. ASSUME NEW c \in Conns,
             \/ Connect(c) \/ StreamEnds(c) \/ Subscribe(c) \/ ClientGone(c)
             \/ SendTaskDone(c) \/ RecvTaskDone(c) \/ RemoveUser(c) \/ SendTask(c)
             \/ TaskDeliver(c)
      PROVE  SpeechInv'
  BY <1>8, <1>7 DEF Connect, StreamEnds, Subscribe, ClientGone, SendTaskDone, RecvTaskDone,
                    Select, RemoveUser, SendTask, TaskReceive, TaskDeliver, TaskLagged,
                    TaskFails, SendTaskCancelled, SendTaskStep
<1>9. CASE UNCHANGED vars  BY <1>9, <1>7 DEF vars
<1> QED
  BY <1>1, <1>2, <1>3, <1>4, <1>5, <1>6, <1>8, <1>9
  DEF Next, Handler, RecvTask, Client, Finished

\* Nobody is heard who has not been announced, for any number of sessions and
\* any capacity of the channel (main.rs 89-109).
THEOREM TextsFollow == Spec => []TextsFollowJoins
<1>1. SpeechInv => TextsFollowJoins  BY DEF SpeechInv
<1> QED  BY InitTypeInv, NextTypeInv, InitDeliveryInv, NextTasksAreSpawned, InitSpeechInv,
            NextSpeechInv, <1>1, PTL DEF Spec
=============================================================================
