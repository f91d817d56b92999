------------------------------ MODULE NetProofs ------------------------------
(***************************************************************************)
(* Proofs about Net, for any descriptors, buffers, commands and messages.  *)
(* Every invariant the runs check is proved, in this order:                *)
(*   - the loop over the clients looks at every descriptor that select has *)
(*     reported, and select looks at every descriptor of its sets;         *)
(*   - what the list of buffers, the reference counts and writev do;       *)
(*   - what handle_data cuts from the input buffer: no complete command is *)
(*     left in it, and only the clients that deserve it are dropped;       *)
(*   - the reference counts are exact, and what is queued for a client is  *)
(*     what it was sent and did not get;                                   *)
(*   - a socket is watched for writing exactly while something is queued;  *)
(*   - the types of everything.                                            *)
(***************************************************************************)
EXTENDS Net, SequenceLemmas

-----------------------------------------------------------------------------
(* The list of connections.                                                *)

\* a list in which nobody occurs twice
Lists == {list \in Seq(ClientFds) : IsInjective(list)}

\* the clients of the list that the loop has yet to look at when it is at c
Ahead(list, c) ==
    IF c = NoClient THEN {} ELSE {list[j] : j \in PlaceIn(list, c) .. Len(list)}

\* the last place but one
LEMMA NotLast ==
    ASSUME NEW N \in Nat, NEW p \in 1 .. N, p # N
    PROVE  /\ p + 1 \in 1 .. N /\ p \in 1 .. N - 1 /\ N \in p + 1 .. N
           /\ N - p # 0 /\ p + 1 <= N
OBVIOUS

\* the place of a client in the list is where it is
LEMMA PlaceIs ==
    ASSUME NEW list \in Lists, NEW i \in 1 .. Len(list)
    PROVE  PlaceIn(list, list[i]) = i
<1>1. DOMAIN list = 1 .. Len(list) /\ \A a, b \in 1 .. Len(list) : list[a] = list[b] => a = b
    BY DEF Lists, IsInjective
<1> QED
    BY <1>1 DEF PlaceIn

LEMMA PlaceOfIs ==
    ASSUME connections \in Lists, NEW c \in Connected
    PROVE  /\ PlaceOf(c) = PlaceIn(connections, c)
           /\ PlaceOf(c) \in 1 .. Len(connections) /\ connections[PlaceOf(c)] = c
           /\ c \in ClientFds /\ c # NoClient
<1>1. PICK i \in 1 .. Len(connections) : connections[i] = c
    BY DEF Connected, ToSet, Lists
<1>2. PlaceOf(c) = PlaceIn(connections, c)
    BY DEF PlaceOf
<1>3. PlaceOf(c) = i
    BY <1>1, <1>2, PlaceIs
<1>4. c \in ClientFds
    BY <1>1 DEF Lists
<1> QED
    BY <1>1, <1>2, <1>3, <1>4, NetAssumption

\* the loop starts with everybody ahead
LEMMA AheadOfFirst ==
    ASSUME connections \in Lists
    PROVE  /\ Ahead(connections, FirstOf(connections)) = Connected
           /\ FirstOf(connections) \in Connected \cup {NoClient}
<1>1. CASE connections = <<>>
    BY <1>1 DEF FirstOf, Ahead, Connected, ToSet
<1>2. CASE connections # <<>>
    <2>1. /\ Len(connections) \in Nat /\ Len(connections) >= 1
          /\ DOMAIN connections = 1 .. Len(connections)
          /\ FirstOf(connections) = connections[1]
        BY <1>2 DEF FirstOf, Lists
    <2>2. connections[1] \in Connected
        BY <2>1 DEF Connected, ToSet
    <2>3. PlaceIn(connections, connections[1]) = 1
        BY <2>1, PlaceIs
    <2>4. connections[1] # NoClient
        BY <2>2, PlaceOfIs
    <2> QED
        BY <2>1, <2>2, <2>3, <2>4 DEF Ahead, Connected, ToSet
<1> QED
    BY <1>1, <1>2

\* who comes after a client
LEMMA AfterIs ==
    ASSUME connections \in Lists, NEW p \in 1 .. Len(connections)
    PROVE  After(connections[p]) =
                IF p = Len(connections) THEN NoClient ELSE connections[p + 1]
<1>1. connections \in Seq(ClientFds) /\ Len(connections) \in Nat
    BY DEF Lists
<1>2. connections[p] \in Connected
    BY <1>1 DEF Connected, ToSet
<1>3. PlaceOf(connections[p]) = p
    BY <1>2, PlaceOfIs, PlaceIs
<1> DEFINE rest == SubSeq(connections, p + 1, Len(connections))
<1>4. CASE p = Len(connections)
    <2>1. rest = <<>>
        BY <1>1, <1>4
    <2> QED
        BY <1>3, <1>4, <2>1 DEF After, FirstOf
<1>5. CASE p # Len(connections)
    <2>1. /\ p + 1 \in 1 .. Len(connections) /\ Len(connections) \in p + 1 .. Len(connections)
          /\ Len(connections) - p # 0
        BY <1>1, <1>5, NotLast
    <2>2. Len(rest) = Len(connections) - p
        <3>1. \A i \in p + 1 .. Len(connections) : connections[i] \in ClientFds
            BY <1>1
        <3> QED
            BY <1>1, <2>1, <3>1, SubSeqProperties
    <2>3. Head(rest) = connections[p + 1]
        BY <1>1, <2>1, HeadTailOfSubSeq
    <2>4. rest # <<>>
        <3> HIDE DEF rest
        <3>1. Len(<<>>) = 0
            OBVIOUS
        <3> QED
            BY <2>1, <2>2, <3>1
    <2> QED
        BY <1>3, <1>5, <2>3, <2>4 DEF After, FirstOf
<1> QED
    BY <1>4, <1>5

\* going on to the next client leaves one fewer ahead
LEMMA AheadOfAfter ==
    ASSUME connections \in Lists, NEW c \in Connected
    PROVE  /\ c \in Ahead(connections, c) /\ Ahead(connections, c) \subseteq Connected
           /\ After(c) \in Connected \cup {NoClient}
           /\ Ahead(connections, After(c)) = Ahead(connections, c) \ {c}
<1>1. PICK p \in 1 .. Len(connections) : p = PlaceOf(c)
    BY PlaceOfIs
<1>2. /\ connections[p] = c /\ c # NoClient /\ PlaceIn(connections, c) = p
    BY <1>1, PlaceOfIs
<1>3. /\ Len(connections) \in Nat /\ DOMAIN connections = 1 .. Len(connections)
      /\ \A a, b \in 1 .. Len(connections) : connections[a] = connections[b] => a = b
    BY DEF Lists, IsInjective
<1>4. Ahead(connections, c) = {connections[j] : j \in p .. Len(connections)}
    BY <1>2 DEF Ahead
<1>5. After(c) = IF p = Len(connections) THEN NoClient ELSE connections[p + 1]
    BY <1>2, AfterIs
<1>6. c \in Ahead(connections, c) /\ Ahead(connections, c) \subseteq Connected
    BY <1>2, <1>3, <1>4 DEF Connected, ToSet
<1>7. CASE p = Len(connections)
    <2>1. Ahead(connections, c) = {c}
        BY <1>2, <1>3, <1>4, <1>7
    <2> QED
        BY <1>5, <1>6, <1>7, <2>1 DEF Ahead
<1>8. CASE p # Len(connections)
    <2>1. p + 1 \in 1 .. Len(connections) /\ After(c) = connections[p + 1]
        <3>1. p + 1 \in 1 .. Len(connections)
            BY <1>3, <1>8, NotLast
        <3> QED
            BY <1>5, <1>8, <3>1
    <2>2. After(c) \in Connected
        BY <1>3, <2>1 DEF Connected, ToSet
    <2>3. PlaceIn(connections, After(c)) = p + 1 /\ After(c) # NoClient
        BY <2>1, <2>2, PlaceIs, PlaceOfIs
    <2>4. Ahead(connections, After(c)) = {connections[j] : j \in p + 1 .. Len(connections)}
        BY <2>3 DEF Ahead
    <2>5. {connections[j] : j \in p + 1 .. Len(connections)}
            = {connections[j] : j \in p .. Len(connections)} \ {c}
        BY <1>2, <1>3
    <2> QED
        BY <1>4, <1>6, <2>2, <2>4, <2>5
<1> QED
    BY <1>7, <1>8

\* taking a client off the list leaves those ahead of it ahead
LEMMA AheadOfRemoved ==
    ASSUME connections \in Lists, NEW c \in Connected,
           NEW list, list = RemoveAt(connections, PlaceOf(c))
    PROVE  /\ list \in Lists
           /\ ToSet(list) = Connected \ {c}
           /\ Ahead(list, After(c)) = Ahead(connections, c) \ {c}
<1>1. PICK p \in 1 .. Len(connections) : p = PlaceOf(c)
    BY PlaceOfIs
<1>2. /\ connections[p] = c /\ c # NoClient /\ PlaceIn(connections, c) = p
    BY <1>1, PlaceOfIs
<1> DEFINE N == Len(connections)
<1>3. /\ N \in Nat /\ DOMAIN connections = 1 .. N /\ connections \in Seq(ClientFds)
      /\ \A a, b \in 1 .. N : connections[a] = connections[b] => a = b
    BY DEF Lists, IsInjective
<1>4. list = SubSeq(connections, 1, p - 1) \o SubSeq(connections, p + 1, N)
    BY <1>1 DEF RemoveAt
<1>5. /\ list \in Seq(ClientFds) /\ Len(list) = N - 1 /\ DOMAIN list = 1 .. N - 1
      /\ \A j \in 1 .. N - 1 : list[j] = IF j < p THEN connections[j] ELSE connections[j + 1]
    <2> DEFINE front == SubSeq(connections, 1, p - 1)
               back == SubSeq(connections, p + 1, N)
    <2>1. /\ front \in Seq(ClientFds) /\ Len(front) = p - 1
          /\ \A j \in 1 .. p - 1 : front[j] = connections[j]
        BY <1>3
    <2>6. \A i \in p + 1 .. N : connections[i] \in ClientFds
        BY <1>3
    <2>2. /\ back \in Seq(ClientFds) /\ Len(back) = N - p
          /\ \A j \in 1 .. N - p : back[j] = connections[p + j]
        <3>1. /\ back \in Seq(ClientFds)
              /\ Len(back) = IF p + 1 <= N THEN N - (p + 1) + 1 ELSE 0
              /\ \A j \in 1 .. N - (p + 1) + 1 : back[j] = connections[p + 1 + j - 1]
            BY <1>3, <2>6, SubSeqProperties
        <3>2. (IF p + 1 <= N THEN N - (p + 1) + 1 ELSE 0) = N - p /\ N - (p + 1) + 1 = N - p
            <4> HIDE DEF N
            <4> QED
                BY <1>3
        <3>3. \A j \in 1 .. N - p : p + 1 + j - 1 = p + j
            BY <1>3
        <3> HIDE DEF back
        <3> QED
            BY <3>1, <3>2, <3>3
    <2> HIDE DEF front, back
    <2>3. front \o back \in Seq(ClientFds) /\ Len(front \o back) = N - 1
        <3>1. front \o back \in Seq(ClientFds) /\ Len(front \o back) = Len(front) + Len(back)
            BY <2>1, <2>2, ConcatProperties
        <3> QED
            BY <1>3, <2>1, <2>2, <3>1
    <2>4. ASSUME NEW j \in 1 .. N - 1
          PROVE  (front \o back)[j] = IF j < p THEN connections[j] ELSE connections[j + 1]
        <3>1. CASE j < p
            BY <1>3, <2>1, <2>2, <3>1
        <3>2. CASE ~(j < p)
            <4>1. (front \o back)[j] = back[j - (p - 1)]
                BY <1>3, <2>1, <2>2, <3>2
            <4>2. j - (p - 1) \in 1 .. N - p /\ p + (j - (p - 1)) = j + 1
                BY <1>3, <3>2
            <4> QED
                BY <2>2, <3>2, <4>1, <4>2
        <3> QED
            BY <3>1, <3>2
    <2>5. list = front \o back
        BY <1>4 DEF front, back
    <2>7. DOMAIN list = 1 .. Len(list)
        BY <2>3, <2>5
    <2> QED
        BY <2>3, <2>4, <2>5, <2>7
<1>6. list \in Lists
    <2>1. ASSUME NEW a \in 1 .. N - 1, NEW b \in 1 .. N - 1, list[a] = list[b] PROVE a = b
        BY <1>3, <1>5, <2>1
    <2> QED
        BY <1>5, <2>1 DEF Lists, IsInjective
<1>7. ToSet(list) = Connected \ {c}
    <2>1. ASSUME NEW x \in ToSet(list) PROVE x \in Connected \ {c}
        <3>1. PICK j \in 1 .. N - 1 : x = list[j]
            BY <1>5 DEF ToSet
        <3>2. PICK k \in 1 .. N : x = connections[k] /\ k # p
            BY <1>2, <1>3, <1>5, <3>1
        <3>3. x \in Connected
            BY <1>3, <3>2 DEF Connected, ToSet
        <3>4. x # c
            BY <1>2, <1>3, <3>2
        <3> QED
            BY <3>3, <3>4
    <2>2. ASSUME NEW x \in Connected \ {c} PROVE x \in ToSet(list)
        <3>1. PICK j \in 1 .. N : x = connections[j] /\ j # p
            BY <1>2, <1>3 DEF Connected, ToSet
        <3>2. CASE j < p
            <4>1. j \in 1 .. N - 1 /\ list[j] = x
                BY <1>3, <1>5, <3>1, <3>2
            <4> QED
                BY <1>5, <4>1 DEF ToSet
        <3>3. CASE j > p
            <4>1. j - 1 \in 1 .. N - 1 /\ list[j - 1] = x
                BY <1>3, <1>5, <3>1, <3>3
            <4> QED
                BY <1>5, <4>1 DEF ToSet
        <3> QED
            BY <1>3, <3>1, <3>2, <3>3
    <2> QED
        BY <2>1, <2>2
<1>8. Ahead(list, After(c)) = Ahead(connections, c) \ {c}
    <2>1. Ahead(connections, c) = {connections[j] : j \in p .. N}
        BY <1>2 DEF Ahead
    <2>2. After(c) = IF p = N THEN NoClient ELSE connections[p + 1]
        BY <1>2, AfterIs
    <2>3. CASE p = N
        <3>1. Ahead(connections, c) = {c}
            BY <1>2, <1>3, <2>1, <2>3
        <3> QED
            BY <2>2, <2>3, <3>1 DEF Ahead
    <2>4. CASE p # N
        <3>7. p \in 1 .. N - 1
            BY <1>3, <2>4, NotLast
        <3>1. p \in 1 .. N - 1 /\ After(c) = list[p]
            <4>1. list[p] = connections[p + 1]
                BY <1>3, <1>5, <3>7
            <4> QED
                BY <2>2, <2>4, <3>7, <4>1
        <3>2. PlaceIn(list, After(c)) = p
            BY <1>5, <1>6, <3>1, PlaceIs
        <3>3. After(c) # NoClient
            BY <1>5, <3>1, NetAssumption
        <3>4. Ahead(list, After(c)) = {list[j] : j \in p .. N - 1}
            BY <1>5, <3>2, <3>3 DEF Ahead
        <3>5. \A j \in p .. N - 1 : list[j] = connections[j + 1]
            BY <1>3, <1>5, <3>1
        <3>6. {list[j] : j \in p .. N - 1} = {connections[j] : j \in p .. N} \ {c}
            <4>1. ASSUME NEW x \in {list[j] : j \in p .. N - 1}
                  PROVE  x \in {connections[j] : j \in p .. N} \ {c}
                <5>1. PICK j \in p .. N - 1 : x = connections[j + 1]
                    BY <3>5
                <5> QED
                    BY <1>2, <1>3, <3>1, <5>1
            <4>2. ASSUME NEW x \in {connections[j] : j \in p .. N} \ {c}
                  PROVE  x \in {list[j] : j \in p .. N - 1}
                <5>1. PICK j \in p .. N : x = connections[j] /\ j # p
                    BY <1>2
                <5>2. j - 1 \in p .. N - 1 /\ list[j - 1] = x
                    BY <1>3, <3>1, <3>5, <5>1
                <5> QED
                    BY <5>2
            <4> QED
                BY <4>1, <4>2
        <3> QED
            BY <2>1, <3>4, <3>6
    <2> QED
        BY <2>3, <2>4
<1> QED
    BY <1>6, <1>7, <1>8

\* a client accepted is put in front
LEMMA Accepted ==
    ASSUME connections \in Lists, NEW c \in ClientFds \ Connected,
           NEW list, list = <<c>> \o connections
    PROVE  list \in Lists /\ ToSet(list) = Connected \cup {c}
<1> DEFINE N == Len(connections)
<1>1. /\ N \in Nat /\ DOMAIN connections = 1 .. N /\ connections \in Seq(ClientFds)
      /\ \A a, b \in 1 .. N : connections[a] = connections[b] => a = b
    BY DEF Lists, IsInjective
<1>2. /\ list \in Seq(ClientFds) /\ Len(list) = N + 1 /\ DOMAIN list = 1 .. N + 1
      /\ list[1] = c /\ \A j \in 1 .. N : list[j + 1] = connections[j]
    BY <1>1
<1>3. \A j \in 1 .. N : connections[j] # c
    BY <1>1 DEF Connected, ToSet
<1>4. \A a \in 1 .. N + 1 : a = 1 \/ (a - 1 \in 1 .. N /\ list[a] = connections[a - 1])
    <2>1. ASSUME NEW a \in 1 .. N + 1, a # 1
          PROVE  a - 1 \in 1 .. N /\ list[a] = connections[a - 1]
        <3>1. a - 1 \in 1 .. N /\ (a - 1) + 1 = a
            BY <1>1, <2>1
        <3> QED
            BY <1>2, <3>1
    <2> QED
        BY <2>1
<1>5. list \in Lists
    <2>1. ASSUME NEW a \in 1 .. N + 1, NEW b \in 1 .. N + 1, list[a] = list[b] PROVE a = b
        BY <1>1, <1>2, <1>3, <1>4, <2>1
    <2> QED
        BY <1>2, <2>1 DEF Lists, IsInjective
<1>6. ToSet(list) = Connected \cup {c}
    <2>1. ASSUME NEW x \in ToSet(list) PROVE x \in Connected \cup {c}
        BY <1>1, <1>2, <1>4 DEF ToSet, Connected
    <2>2. ASSUME NEW x \in Connected PROVE x \in ToSet(list)
        <3>1. PICK j \in 1 .. N : x = connections[j]
            BY <1>1 DEF Connected, ToSet
        <3>2. j + 1 \in 1 .. N + 1 /\ list[j + 1] = x
            BY <1>1, <1>2, <3>1
        <3> QED
            BY <1>2, <3>2 DEF ToSet
    <2>3. c \in ToSet(list)
        BY <1>1, <1>2 DEF ToSet
    <2> QED
        BY <2>1, <2>2, <2>3
<1> QED
    BY <1>5, <1>6

-----------------------------------------------------------------------------
(* The invariant.                                                          *)

Own == {listensock, ControlPipe}

\* how many of the descriptors of S are reported, for reading and for writing
Reported(forReading, forWriting) ==
    Cardinality(readset \cap forReading) + Cardinality(writeset \cap forWriting)

Types ==
    /\ connections \in Lists
    /\ at \in Connected \cup {NoClient}
    /\ pc \in {"prepare", "select", "listen", "control", "read", "write", "next",
               "blocked"}
    /\ pc \in {"write", "next"} => at \in Connected
    /\ maxsock \in Int
    /\ readset \subseteq ClientFds \cup Own /\ writeset \subseteq ClientFds

\* only descriptors that are open are watched, and reported
OnlyOpen ==
    /\ socksetin \subseteq Own \cup Connected /\ socksetout \subseteq Connected
    /\ pc \in {"select", "listen", "control"} =>
        readset \subseteq Own \cup Connected /\ writeset \subseteq Connected

\* maxsock is either known to be out of date or above everything that is open
MaxsockAbove ==
    /\ maxsock # -1 => \A fd \in Own \cup Connected : fd < maxsock
    /\ pc \in {"select", "listen"} => maxsock # -1

\* n counts what is reported of the descriptors not looked at yet
CountExact ==
    LET ahead == Ahead(connections, at) IN
    /\ pc = "listen" => n = Cardinality(readset) + Cardinality(writeset)
    /\ pc = "control" => n = Cardinality(readset \ {listensock}) + Cardinality(writeset)
    /\ pc = "read" => n = Reported(ahead, ahead)
    /\ pc = "write" => n = Reported(ahead \ {at}, ahead)
    /\ pc = "next" => n = Reported(ahead \ {at}, ahead \ {at})

IInv == Types /\ OnlyOpen /\ MaxsockAbove /\ CountExact

\* the sets are finite, so they can be counted, and one looked at is one less
LEMMA OneLess ==
    ASSUME NEW S, S \subseteq ClientFds \cup Own, NEW T, NEW x
    PROVE  /\ Cardinality(S) \in Nat /\ Cardinality(S \cap T) \in Nat
           /\ Cardinality(S \ {x}) = IF x \in S THEN Cardinality(S) - 1 ELSE Cardinality(S)
           /\ Cardinality(S \cap (T \ {x})) =
                IF x \in S \cap T THEN Cardinality(S \cap T) - 1 ELSE Cardinality(S \cap T)
           /\ x \in S => Cardinality(S) > 0
           /\ x \in S \cap T => Cardinality(S \cap T) > 0
<1>1. IsFiniteSet(ClientFds \cup Own)
    <2>1. IsFiniteSet((ClientFds \cup {listensock}) \cup {ControlPipe})
        BY NetAssumption, FS_AddElement
    <2>2. (ClientFds \cup {listensock}) \cup {ControlPipe} = ClientFds \cup Own
        BY DEF Own
    <2> QED
        BY <2>1, <2>2
<1>2. IsFiniteSet(S) /\ IsFiniteSet(S \cap T)
    BY <1>1, FS_Subset
<1>3. S \cap (T \ {x}) = (S \cap T) \ {x}
    OBVIOUS
<1>4. /\ Cardinality(S) \in Nat /\ Cardinality(S \cap T) \in Nat
    BY <1>2, FS_CardinalityType
<1>5. /\ Cardinality(S \ {x}) = IF x \in S THEN Cardinality(S) - 1 ELSE Cardinality(S)
      /\ Cardinality((S \cap T) \ {x}) =
            IF x \in S \cap T THEN Cardinality(S \cap T) - 1 ELSE Cardinality(S \cap T)
    BY <1>2, FS_RemoveElement
<1>6. (x \in S => Cardinality(S) # 0) /\ (x \in S \cap T => Cardinality(S \cap T) # 0)
    BY <1>2, FS_EmptySet
<1>7. Cardinality(S \cap (T \ {x})) =
        IF x \in S \cap T THEN Cardinality(S \cap T) - 1 ELSE Cardinality(S \cap T)
    BY <1>3, <1>5
<1>8. x \in S => Cardinality(S) > 0
    BY <1>4, <1>6
<1>9. x \in S \cap T => Cardinality(S \cap T) > 0
    <2> DEFINE k == Cardinality(S \cap T)
    <2>1. k \in Nat /\ (x \in S \cap T => k # 0)
        BY <1>4, <1>6
    <2> HIDE DEF k
    <2>2. x \in S \cap T => k > 0
        BY <2>1
    <2> QED
        BY <2>2 DEF k
<1> QED
    BY <1>4, <1>5, <1>7, <1>8, <1>9

\* the program's own descriptors are not clients
LEMMA OwnApart ==
    /\ Own \cap ClientFds = {} /\ listensock # ControlPipe
    /\ Own \subseteq Nat /\ ClientFds \subseteq Nat
    /\ connections \in Lists => Connected \subseteq ClientFds
BY NetAssumption DEF Own, Lists, Connected, ToSet

\* at the start only its own descriptors are open
LEMMA InitIInv == Init => IInv
<1> SUFFICES ASSUME Init PROVE IInv
    OBVIOUS
<1>1. connections \in Lists /\ Connected = {}
    BY DEF Init, Lists, IsInjective, Connected, ToSet
<1>2. Own \in SUBSET Nat /\ Own # {} /\ maxsock = Max(Own) + 1
    BY OwnApart DEF Init, Own
<1>3. IsFiniteSet(Own)
    <2>1. IsFiniteSet({listensock} \cup {ControlPipe})
        BY FS_Singleton, FS_AddElement
    <2>2. {listensock} \cup {ControlPipe} = Own
        BY DEF Own
    <2> QED
        BY <2>1, <2>2
<1>4. Max(Own) \in Nat /\ \A fd \in Own : fd <= Max(Own)
    BY <1>2, <1>3, MaxIs
<1>5. maxsock \in Int /\ maxsock # -1 /\ \A fd \in Own : fd < maxsock
    BY <1>2, <1>4, OwnApart
<1>6. Types
    BY <1>1, <1>5 DEF Init, Types
<1>7. OnlyOpen /\ CountExact
    BY <1>1 DEF Init, OnlyOpen, CountExact, Own
<1>8. MaxsockAbove
    BY <1>1, <1>5 DEF MaxsockAbove
<1> QED
    BY <1>6, <1>7, <1>8 DEF IInv

\* steps that the loop does not notice
LEMMA Unnoticed ==
    ASSUME IInv, UNCHANGED <<connections, socksetin, maxsock, readset, writeset, n, at, pc>>,
           socksetout' \subseteq Connected
    PROVE  IInv'
<1>1. Connected' = Connected
    BY DEF Connected
<1>2. Types' /\ OnlyOpen' /\ MaxsockAbove'
    BY <1>1 DEF IInv, Types, OnlyOpen, MaxsockAbove
<1>3. CountExact'
    BY DEF IInv, CountExact, Reported
<1> QED
    BY <1>2, <1>3 DEF IInv

\* what the other threads and the clients do
LEMMA OthersKeep ==
    ASSUME IInv,
           \/ Broadcast \/ wakeup_select \/ Connect
           \/ \E c \in ClientFds : Submit(c) \/ Leave(c)
    PROVE  IInv'
<1>1. UNCHANGED <<connections, socksetin, maxsock, readset, writeset, n, at, pc>>
    BY DEF Broadcast, wakeup_select, Connect, Submit, Leave, selected
<1>2. socksetout \subseteq Connected
    BY DEF IInv, OnlyOpen
<1>3. socksetout' \subseteq Connected
    <2>1. CASE Broadcast
        BY <1>2, <2>1 DEF Broadcast, broadcast, sending
    <2>2. CASE \/ wakeup_select \/ Connect
               \/ \E c \in ClientFds : Submit(c) \/ Leave(c)
        BY <1>2, <2>2 DEF wakeup_select, Connect, Submit, Leave, sending
    <2> QED
        BY <2>1, <2>2
<1> QED
    BY <1>1, <1>3, Unnoticed

\* The sets are copied and maxsock is put above everything open.
LEMMA PrepareKeeps ==
    ASSUME IInv, Prepare
    PROVE  IInv'
<1>1. /\ pc' = "select" /\ readset' = socksetin /\ writeset' = socksetout
      /\ maxsock' = IF maxsock = -1 THEN Max({listensock, ControlPipe} \cup Connected) + 1
                    ELSE maxsock
      /\ UNCHANGED <<connections, socksetin, socksetout, at>>
    BY DEF Prepare, sending
<1>2. Connected' = Connected
    BY <1>1 DEF Connected
<1>3. Connected \subseteq ClientFds
    BY OwnApart DEF IInv, Types
<1>4. /\ maxsock' \in Int /\ maxsock' # -1
      /\ \A fd \in Own \cup Connected : fd < maxsock'
    <2>1. CASE maxsock = -1
        <3> DEFINE open == Own \cup Connected
        <3>1. open \in SUBSET Nat /\ open # {}
            BY <1>3, OwnApart DEF Own
        <3>2. IsFiniteSet(open)
            <4>1. IsFiniteSet((Connected \cup {listensock}) \cup {ControlPipe})
                BY <1>3, NetAssumption, FS_Subset, FS_AddElement
            <4>2. (Connected \cup {listensock}) \cup {ControlPipe} = open
                BY DEF Own
            <4> QED
                BY <4>1, <4>2
        <3>3. Max(open) \in Nat /\ \A fd \in open : fd <= Max(open)
            BY <3>1, <3>2, MaxIs
        <3>4. maxsock' = Max(open) + 1
            BY <1>1, <2>1 DEF Own
        <3> HIDE DEF open
        <3>5. \A fd \in open : fd < maxsock'
            BY <3>1, <3>3, <3>4
        <3> QED
            BY <3>3, <3>4, <3>5 DEF open
    <2>2. CASE maxsock # -1
        BY <1>1, <2>2 DEF IInv, Types, MaxsockAbove
    <2> QED
        BY <2>1, <2>2
<1>5. Types'
    BY <1>1, <1>2, <1>3, <1>4 DEF IInv, Types, OnlyOpen
<1>6. OnlyOpen' /\ MaxsockAbove' /\ CountExact'
    BY <1>1, <1>2, <1>4 DEF IInv, OnlyOpen, MaxsockAbove, CountExact
<1> QED
    BY <1>5, <1>6 DEF IInv

\* select reports some of what it was given, and counts it
LEMMA SelectKeeps ==
    ASSUME IInv, Select \/ Interrupted
    PROVE  IInv'
<1>1. /\ pc = "select" /\ UNCHANGED <<connections, socksetin, socksetout, maxsock, at>>
    BY DEF Select, SelectReports, Interrupted, sending
<1>2. Connected' = Connected
    BY <1>1 DEF Connected
<1>3. CASE Select
    <2>1. PICK writable \in SUBSET writeset : SelectReports(writable)
        BY <1>3 DEF Select
    <2>2. /\ readset' \subseteq readset /\ writeset' \subseteq writeset
          /\ pc' = "listen" /\ n' = Cardinality(readset') + Cardinality(writeset')
        BY <2>1 DEF SelectReports, Readable
    <2>3. Types' /\ OnlyOpen'
        BY <1>1, <1>2, <2>2 DEF IInv, Types, OnlyOpen
    <2>4. MaxsockAbove' /\ CountExact'
        BY <1>1, <1>2, <2>2 DEF IInv, MaxsockAbove, CountExact
    <2> QED
        BY <2>3, <2>4 DEF IInv
<1>4. CASE Interrupted
    <2>1. pc' = "prepare" /\ readset' = readset /\ writeset' = writeset
        BY <1>4 DEF Interrupted
    <2>2. Types' /\ OnlyOpen'
        BY <1>1, <1>2, <2>1 DEF IInv, Types, OnlyOpen
    <2>3. MaxsockAbove' /\ CountExact'
        BY <1>1, <1>2, <2>1 DEF IInv, MaxsockAbove, CountExact
    <2> QED
        BY <2>2, <2>3 DEF IInv
<1> QED
    BY <1>3, <1>4

\* a client accepted now is not among those that were reported
LEMMA ListenKeeps ==
    ASSUME IInv, Listen
    PROVE  IInv'
<1>1. /\ pc = "listen" /\ pc' = "control"
      /\ UNCHANGED <<readset, writeset, socksetout, at>>
      /\ n' = IF listensock \in readset THEN n - 1 ELSE n
    BY DEF Listen
<1>2. /\ readset \subseteq ClientFds \cup Own /\ writeset \subseteq ClientFds
      /\ connections \in Lists /\ at \in Connected \cup {NoClient} /\ maxsock \in Int
      /\ socksetin \subseteq Own \cup Connected /\ socksetout \subseteq Connected
      /\ readset \subseteq Own \cup Connected /\ writeset \subseteq Connected
      /\ maxsock # -1 /\ \A fd \in Own \cup Connected : fd < maxsock
      /\ n = Cardinality(readset) + Cardinality(writeset)
    BY <1>1 DEF IInv, Types, OnlyOpen, MaxsockAbove, CountExact
<1>3. n' = Cardinality(readset \ {listensock}) + Cardinality(writeset)
    <2>1. /\ Cardinality(readset) \in Nat /\ Cardinality(writeset) \in Nat
          /\ Cardinality(readset \ {listensock}) =
                IF listensock \in readset THEN Cardinality(readset) - 1 ELSE Cardinality(readset)
        BY <1>2, OneLess
    <2> QED
        BY <1>1, <1>2, <2>1
<1>4. CASE UNCHANGED <<connections, socksetin, maxsock>>
    <2>1. Connected' = Connected
        BY <1>4 DEF Connected
    <2>2. Types' /\ OnlyOpen'
        BY <1>1, <1>2, <1>4, <2>1 DEF Types, OnlyOpen
    <2>3. MaxsockAbove' /\ CountExact'
        BY <1>1, <1>2, <1>3, <1>4, <2>1 DEF MaxsockAbove, CountExact
    <2> QED
        BY <2>2, <2>3 DEF IInv
<1>5. ASSUME NEW c \in ClientFds \ Connected, accept_client(c) PROVE IInv'
    <2>1. /\ connections' = <<c>> \o connections
          /\ socksetin' = socksetin \cup {c}
          /\ maxsock' = Max({maxsock, c + 1})
        BY <1>5 DEF accept_client
    <2>2. connections' \in Lists /\ Connected' = Connected \cup {c}
        BY <1>2, <2>1, Accepted DEF Connected
    <2>3. c \in Nat /\ Own \subseteq Nat /\ Connected \subseteq Nat
        BY <1>2, OwnApart
    <2>4. /\ maxsock' \in Int /\ maxsock <= maxsock' /\ c + 1 <= maxsock'
          /\ maxsock' \in {maxsock, c + 1}
        <3>1. c + 1 \in Int
            BY <2>3
        <3> QED
            BY <1>2, <2>1, <3>1, MaxOfTwo
    <2>5. maxsock' # -1 /\ \A fd \in Own \cup Connected' : fd < maxsock'
        <3>1. c < maxsock' /\ maxsock' # -1
            BY <1>2, <2>3, <2>4
        <3>2. ASSUME NEW fd \in Own \cup Connected PROVE fd < maxsock'
            BY <1>2, <2>3, <2>4
        <3> QED
            BY <2>2, <3>1, <3>2
    <2>6. Types' /\ OnlyOpen'
        BY <1>1, <1>2, <2>1, <2>2, <2>4 DEF Types, OnlyOpen
    <2>7. MaxsockAbove' /\ CountExact'
        BY <1>1, <1>3, <2>5 DEF MaxsockAbove, CountExact
    <2> QED
        BY <2>6, <2>7 DEF IInv
<1> QED
    BY <1>4, <1>5 DEF Listen

\* then only clients are left to be looked at
LEMMA ControlKeeps ==
    ASSUME IInv, Control
    PROVE  IInv'
<1>1. /\ pc = "control" /\ pc' = "read" /\ at' = FirstOf(connections)
      /\ n' = IF n > 0 /\ ControlPipe \in readset THEN n - 1 ELSE n
      /\ UNCHANGED <<connections, socksetin, socksetout, maxsock, readset, writeset>>
    BY DEF Control, sending
<1>2. Connected' = Connected
    BY <1>1 DEF Connected
<1>3. /\ connections \in Lists
      /\ readset \subseteq Own \cup Connected /\ writeset \subseteq Connected
      /\ Connected \subseteq ClientFds
      /\ n = Cardinality(readset \ {listensock}) + Cardinality(writeset)
    BY <1>1, OwnApart DEF IInv, Types, OnlyOpen, CountExact
<1>4. /\ Ahead(connections, at') = Connected
      /\ at' \in Connected \cup {NoClient}
    BY <1>1, <1>3, AheadOfFirst
<1>5. n' = Cardinality(readset \cap Connected) + Cardinality(writeset \cap Connected)
    <2> DEFINE rest == readset \ {listensock}
    <2>1. /\ rest \ {ControlPipe} = readset \cap Connected
          /\ writeset \cap Connected = writeset
          /\ ControlPipe \in rest <=> ControlPipe \in readset
        BY <1>3, OwnApart DEF Own
    <2>2. /\ Cardinality(rest) \in Nat /\ Cardinality(writeset) \in Nat
          /\ Cardinality(rest \ {ControlPipe}) =
                IF ControlPipe \in rest THEN Cardinality(rest) - 1 ELSE Cardinality(rest)
          /\ ControlPipe \in rest => Cardinality(rest) > 0
        <3>1. rest \subseteq ClientFds \cup Own /\ writeset \subseteq ClientFds \cup Own
            BY <1>3
        <3> HIDE DEF rest
        <3> QED
            BY <3>1, OneLess
    <2> HIDE DEF rest
    <2>3. n = Cardinality(rest) + Cardinality(writeset)
        BY <1>3 DEF rest
    <2>4. n' = Cardinality(rest \ {ControlPipe}) + Cardinality(writeset)
        BY <1>1, <2>1, <2>2, <2>3
    <2> QED
        BY <2>1, <2>4
<1>6. CountExact'
    BY <1>1, <1>4, <1>5 DEF CountExact, Reported
<1>7. Types' /\ OnlyOpen' /\ MaxsockAbove'
    BY <1>1, <1>2, <1>4 DEF IInv, Types, OnlyOpen, MaxsockAbove
<1> QED
    BY <1>6, <1>7 DEF IInv

\* Steps inside the loop change neither the list nor what was reported; n has to
\* be right for where the loop goes.
LEMMA LoopStep ==
    ASSUME IInv, pc \in {"read", "write", "next"}, 
           pc' \in {"prepare", "read", "write", "next", "blocked"},
           UNCHANGED <<connections, maxsock, readset, writeset>>,
           at' \in Connected \cup {NoClient}, pc' \in {"write", "next"} => at' \in Connected,
           socksetin' \subseteq socksetin, socksetout' \subseteq Connected,
           CountExact'
    PROVE  IInv'
<1>1. Connected' = Connected
    BY DEF Connected
<1>2. Types' /\ OnlyOpen'
    BY <1>1 DEF IInv, Types, OnlyOpen
<1>3. MaxsockAbove'
    BY <1>1 DEF IInv, MaxsockAbove
<1> QED
    BY <1>2, <1>3 DEF IInv

\* the counts around the client the loop is at
LEMMA CountsAt ==
    ASSUME IInv, at \in Connected
    PROVE  LET ahead == Ahead(connections, at) IN
           /\ Reported(ahead, ahead) =
                Reported(ahead \ {at}, ahead) + (IF at \in readset THEN 1 ELSE 0)
           /\ Reported(ahead \ {at}, ahead) =
                Reported(ahead \ {at}, ahead \ {at}) + (IF at \in writeset THEN 1 ELSE 0)
<1> DEFINE ahead == Ahead(connections, at)
           r == Cardinality(readset \cap ahead)
           w == Cardinality(writeset \cap ahead)
           r1 == Cardinality(readset \cap (ahead \ {at}))
           w1 == Cardinality(writeset \cap (ahead \ {at}))
<1>1. connections \in Lists /\ at \in ahead
    BY AheadOfAfter DEF IInv, Types
<1>2. readset \subseteq ClientFds \cup Own /\ writeset \subseteq ClientFds \cup Own
    BY DEF IInv, Types
<1>3. /\ r \in Nat /\ w \in Nat
      /\ r1 = IF at \in readset THEN r - 1 ELSE r
      /\ w1 = IF at \in writeset THEN w - 1 ELSE w
    <2> HIDE DEF ahead
    <2>1. /\ Cardinality(readset \cap ahead) \in Nat
          /\ Cardinality(readset \cap (ahead \ {at})) =
                IF at \in readset \cap ahead THEN Cardinality(readset \cap ahead) - 1
                ELSE Cardinality(readset \cap ahead)
        BY <1>2, OneLess
    <2>2. /\ Cardinality(writeset \cap ahead) \in Nat
          /\ Cardinality(writeset \cap (ahead \ {at})) =
                IF at \in writeset \cap ahead THEN Cardinality(writeset \cap ahead) - 1
                ELSE Cardinality(writeset \cap ahead)
        <3>1. Cardinality(writeset \cap ahead) \in Nat
            BY <1>2, OneLess
        <3>2. Cardinality(writeset \cap (ahead \ {at})) =
                IF at \in writeset \cap ahead THEN Cardinality(writeset \cap ahead) - 1
                ELSE Cardinality(writeset \cap ahead)
            BY <1>2, OneLess
        <3> QED
            BY <3>1, <3>2
    <2> QED
        BY <1>1, <2>1, <2>2
<1> HIDE DEF ahead, r, w, r1, w1
<1>4. /\ r + w = (r1 + w) + (IF at \in readset THEN 1 ELSE 0)
      /\ r1 + w = (r1 + w1) + (IF at \in writeset THEN 1 ELSE 0)
    BY <1>3
<1> QED
    BY <1>4 DEF Reported, ahead, r, w, r1, w1

\* what is reported is a number
LEMMA ReportedType ==
    ASSUME IInv, NEW S, NEW T
    PROVE  Reported(S, T) \in Nat
<1>1. readset \subseteq ClientFds \cup Own /\ writeset \subseteq ClientFds \cup Own
    BY DEF IInv, Types
<1>2. Cardinality(readset \cap S) \in Nat /\ Cardinality(writeset \cap T) \in Nat
    BY <1>1, OneLess
<1> QED
    BY <1>2 DEF Reported

\* looking at a client for reading
LEMMA ReadKeeps ==
    ASSUME IInv,
           \/ NothingToRead \/ LoopDone
           \/ \E c \in ClientFds : ReadNothing(c) \/ ReadCommands(c) \/ ReadBlocks(c)
    PROVE  IInv'
<1> DEFINE ahead == Ahead(connections, at)
<1>1. /\ pc = "read" /\ UNCHANGED <<connections, maxsock, readset, writeset, at>>
      /\ socksetin' \subseteq socksetin
    BY DEF NothingToRead, LoopDone, ReadNothing, ReadCommands, ReadBlocks, Turn, selected
<1>2. /\ n = Reported(ahead, ahead) /\ at \in Connected \cup {NoClient}
      /\ socksetout \subseteq Connected
    BY <1>1 DEF IInv, Types, OnlyOpen, CountExact
<1>3. CASE LoopDone \/ \E c \in ClientFds : ReadBlocks(c)
    <2>1. pc' \in {"prepare", "blocked"} /\ socksetout' = socksetout
        BY <1>3 DEF LoopDone, ReadBlocks, sending
    <2>2. CountExact'
        BY <2>1 DEF CountExact
    <2> QED
        BY <1>1, <1>2, <2>1, <2>2, LoopStep
<1>4. CASE NothingToRead \/ \E c \in ClientFds : ReadNothing(c) \/ ReadCommands(c)
    <2>1. /\ pc' = "write" /\ at # NoClient
          /\ n' = IF at \in readset THEN n - 1 ELSE n
        BY <1>4 DEF NothingToRead, ReadNothing, ReadCommands, Turn, selected
    <2>2. at \in Connected
        BY <1>2, <2>1
    <2>3. n' = Reported(ahead \ {at}, ahead)
        <3>1. Reported(ahead, ahead) =
                Reported(ahead \ {at}, ahead) + (IF at \in readset THEN 1 ELSE 0)
            BY <2>2, CountsAt
        <3>2. Reported(ahead \ {at}, ahead) \in Nat
            BY ReportedType
        <3> HIDE DEF ahead
        <3> QED
            BY <1>2, <2>1, <3>1, <3>2
    <2>4. socksetout' \subseteq Connected
        <3>1. CASE NothingToRead \/ \E c \in ClientFds : ReadNothing(c)
            BY <1>2, <3>1 DEF NothingToRead, ReadNothing, sending
        <3>2. CASE \E c \in ClientFds : ReadCommands(c)
            BY <1>2, <2>2, <3>2 DEF ReadCommands, client_printf
        <3> QED
            BY <1>4, <3>1, <3>2
    <2>5. CountExact'
        BY <1>1, <2>1, <2>3 DEF CountExact, Reported
    <2> QED
        BY <1>1, <2>1, <2>2, <2>4, <2>5, LoopStep
<1> QED
    BY <1>3, <1>4

\* and for writing
LEMMA WriteKeeps ==
    ASSUME IInv, NothingToWrite \/ \E c \in ClientFds : Write(c)
    PROVE  IInv'
<1> DEFINE ahead == Ahead(connections, at)
<1>1. /\ pc = "write" /\ pc' = "next"
      /\ UNCHANGED <<connections, maxsock, readset, writeset, at, socksetin>>
      /\ n' = IF at \in writeset THEN n - 1 ELSE n
    BY DEF NothingToWrite, Write, selected
<1>2. /\ n = Reported(ahead \ {at}, ahead) /\ at \in Connected
      /\ socksetout \subseteq Connected
    BY <1>1 DEF IInv, Types, OnlyOpen, CountExact
<1>3. n' = Reported(ahead \ {at}, ahead \ {at})
    <2>1. Reported(ahead \ {at}, ahead) =
            Reported(ahead \ {at}, ahead \ {at}) + (IF at \in writeset THEN 1 ELSE 0)
        BY <1>2, CountsAt
    <2>2. Reported(ahead \ {at}, ahead \ {at}) \in Nat
        BY ReportedType
    <2> HIDE DEF ahead
    <2> QED
        BY <1>1, <1>2, <2>1, <2>2
<1>4. socksetout' \subseteq Connected
    <2>1. CASE NothingToWrite
        BY <1>2, <2>1 DEF NothingToWrite, sending
    <2>2. CASE \E c \in ClientFds : Write(c)
        <3>1. PICK c \in ClientFds : Write(c)
            BY <2>2
        <3>2. CASE flush_writes(c)
            BY <1>2, <3>2 DEF flush_writes, StillOut
        <3>3. CASE UNCHANGED sending
            BY <1>2, <3>3 DEF sending
        <3> QED
            BY <3>1, <3>2, <3>3 DEF Write
    <2> QED
        BY <2>1, <2>2
<1>5. CountExact'
    BY <1>1, <1>3 DEF CountExact, Reported
<1> QED
    BY <1>1, <1>2, <1>4, <1>5, LoopStep

\* a client that stays is behind the loop afterwards
LEMMA KeepKeeps ==
    ASSUME IInv, Keep
    PROVE  IInv'
<1>1. /\ pc = "next" /\ pc' = "read" /\ at' = After(at) /\ n' = n
      /\ UNCHANGED <<connections, maxsock, readset, writeset, socksetin, socksetout>>
    BY DEF Keep, sending, selected
<1>2. /\ connections \in Lists /\ at \in Connected /\ socksetout \subseteq Connected
      /\ n = Reported(Ahead(connections, at) \ {at}, Ahead(connections, at) \ {at})
    BY <1>1 DEF IInv, Types, OnlyOpen, CountExact
<1>3. /\ at' \in Connected \cup {NoClient}
      /\ Ahead(connections, at') = Ahead(connections, at) \ {at}
    BY <1>1, <1>2, AheadOfAfter
<1>4. CountExact'
    BY <1>1, <1>2, <1>3 DEF CountExact, Reported
<1> QED
    BY <1>1, <1>2, <1>3, <1>4, LoopStep

\* so is one that is dropped, and maxsock is known to be out of date
LEMMA DropKeeps ==
    ASSUME IInv, NEW c \in ClientFds, Drop(c)
    PROVE  IInv'
<1>1. /\ pc = "next" /\ pc' = "read" /\ at = c /\ at' = After(c) /\ n' = n
      /\ connections' = RemoveAt(connections, PlaceOf(c))
      /\ socksetin' = socksetin \ {c} /\ socksetout' = socksetout \ {c} /\ maxsock' = -1
      /\ UNCHANGED <<readset, writeset>>
    BY DEF Drop, selected
<1>2. /\ connections \in Lists /\ c \in Connected
      /\ readset \subseteq ClientFds \cup Own /\ writeset \subseteq ClientFds
      /\ socksetin \subseteq Own \cup Connected /\ socksetout \subseteq Connected
      /\ n = Reported(Ahead(connections, c) \ {c}, Ahead(connections, c) \ {c})
    BY <1>1 DEF IInv, Types, OnlyOpen, CountExact
<1>3. /\ connections' \in Lists /\ Connected' = Connected \ {c}
      /\ Ahead(connections', After(c)) = Ahead(connections, c) \ {c}
    BY <1>1, <1>2, AheadOfRemoved DEF Connected
<1>4. at' \in Connected' \cup {NoClient}
    <2>1. After(c) \in Connected \cup {NoClient}
        BY <1>2, AheadOfAfter
    <2>2. After(c) # c
        <3>1. PICK p \in 1 .. Len(connections) : connections[p] = c
            BY <1>2, PlaceOfIs
        <3>2. After(c) = IF p = Len(connections) THEN NoClient ELSE connections[p + 1]
            BY <1>2, <3>1, AfterIs
        <3>3. c # NoClient
            BY NetAssumption
        <3>4. CASE p = Len(connections)
            BY <3>2, <3>3, <3>4
        <3>5. CASE p # Len(connections)
            <4>1. Len(connections) \in Nat /\ DOMAIN connections = 1 .. Len(connections)
                BY <1>2 DEF Lists
            <4>2. p + 1 \in 1 .. Len(connections)
                BY <3>5, <4>1, NotLast
            <4>3. p + 1 # p
                OBVIOUS
            <4> QED
                BY <1>2, <3>1, <3>2, <3>5, <4>1, <4>2, <4>3 DEF Lists, IsInjective
        <3> QED
            BY <3>4, <3>5
    <2> QED
        BY <1>1, <1>3, <2>1, <2>2
<1>5. Types' /\ OnlyOpen' /\ MaxsockAbove'
    BY <1>1, <1>2, <1>3, <1>4, OwnApart DEF Types, OnlyOpen, MaxsockAbove
<1>6. CountExact'
    BY <1>1, <1>2, <1>3 DEF CountExact, Reported
<1> QED
    BY <1>5, <1>6 DEF IInv

\* no step breaks the invariant
LEMMA NextIInv == IInv /\ [Next]_vars => IInv'
<1> SUFFICES ASSUME IInv, [Next]_vars PROVE IInv'
    OBVIOUS
<1>1. CASE Prepare
    BY <1>1, PrepareKeeps
<1>2. CASE Select \/ Interrupted
    BY <1>2, SelectKeeps
<1>3. CASE Listen
    BY <1>3, ListenKeeps
<1>4. CASE Control
    BY <1>4, ControlKeeps
<1>5. CASE \/ NothingToRead \/ LoopDone
           \/ \E c \in ClientFds : ReadNothing(c) \/ ReadCommands(c) \/ ReadBlocks(c)
    BY <1>5, ReadKeeps
<1>6. CASE NothingToWrite \/ \E c \in ClientFds : Write(c)
    BY <1>6, WriteKeeps
<1>7. CASE Keep
    BY <1>7, KeepKeeps
<1>8. ASSUME NEW c \in ClientFds, Drop(c) PROVE IInv'
    BY <1>8, DropKeeps
<1>9. CASE \/ Broadcast \/ wakeup_select \/ Connect
           \/ \E c \in ClientFds : Submit(c) \/ Leave(c)
    BY <1>9, OthersKeep
<1>10. CASE UNCHANGED vars
    <2>1. UNCHANGED <<connections, socksetin, maxsock, readset, writeset, n, at, pc>>
          /\ socksetout' = socksetout
        BY <1>10 DEF vars, sending, selected
    <2> QED
        BY <2>1, Unnoticed DEF IInv, OnlyOpen
<1> QED
    BY <1>1, <1>2, <1>3, <1>4, <1>5, <1>6, <1>7, <1>8, <1>9, <1>10
       DEF Next, net_runner, ServeClient

\* the invariant holds in every reachable state
LEMMA Invariance == Spec => []IInv
BY InitIInv, NextIInv, PTL DEF Spec

-----------------------------------------------------------------------------
\* The assertion n == 0 at the end of the loop holds: accepting, dropping and
\* losing clients in the round never makes the count of reports wrong.
THEOREM ReportsServed == Spec => []EveryReportServed
<1>1. IInv => EveryReportServed
    <2> SUFFICES ASSUME IInv, pc = "read", at = NoClient PROVE n = 0
        BY DEF EveryReportServed
    <2>1. n = Reported({}, {})
        BY DEF IInv, CountExact, Ahead
    <2>2. readset \cap {} = {} /\ writeset \cap {} = {}
        OBVIOUS
    <2> QED
        BY <2>1, <2>2, FS_EmptySet DEF Reported
<1> QED
    BY <1>1, Invariance, PTL

\* select is given a maxsock above every descriptor of its sets
THEOREM MaxsockHolds == Spec => []MaxsockCovers
<1>1. IInv => MaxsockCovers
    BY DEF IInv, OnlyOpen, MaxsockAbove, MaxsockCovers
<1> QED
    BY <1>1, Invariance, PTL

-----------------------------------------------------------------------------
(* The buffers.                                                            *)

Buffers == [bytes : Seq(Bytes) \ {<<>>}, refcount : Nat \ {0}]

\* finitely many buffers are allocated
IsHeap(h) ==
    /\ DOMAIN h \in SUBSET Nat /\ IsFiniteSet(DOMAIN h)
    /\ h \in [DOMAIN h -> Buffers]

\* lists in which no buffer occurs twice
BufferLists == {list \in Seq(Nat) : IsInjective(list)}

Holders(lists, b) == {c \in ClientFds : b \in ToSet(lists[c])}

\* what is changed in the heap and in the lists
Rewritten(h, b, bytes) == [h EXCEPT ![b].bytes = bytes]
Discounted(h, b) == [h EXCEPT ![b].refcount = @ - 1]
WithList(lists, c, list) == [lists EXCEPT ![c] = list]
Headed(f, list) == <<f>> \o Tail(list)

\* the buffers of the heap are those of the lists, and are counted there
Counted(h, lists) ==
    /\ IsHeap(h)
    /\ lists \in [ClientFds -> BufferLists]
    /\ \A c \in ClientFds : ToSet(lists[c]) \subseteq DOMAIN h
    /\ \A b \in DOMAIN h : h[b].refcount = Cardinality(Holders(lists, b))

\* there are always numbers that are not in use: one more each time
LEMMA UnusedIs ==
    ASSUME NEW h, IsHeap(h), NEW count \in Nat
    PROVE  /\ Unused(h, count) \in Seq(Nat) /\ Len(Unused(h, count)) = count
           /\ IsInjective(Unused(h, count))
           /\ ToSet(Unused(h, count)) \cap DOMAIN h = {}
<1> DEFINE used == DOMAIN h
           N == Cardinality(used)
           Is(list, k) == /\ list \in [1 .. k -> 0 .. N + k - 1]
                          /\ IsInjective(list) /\ ToSet(list) \cap used = {}
           Possible == {k \in 0 .. count : \E list : Is(list, k)}
<1>1. used \in SUBSET Nat /\ IsFiniteSet(used) /\ N \in Nat
    BY FS_CardinalityType DEF IsHeap
<1>6. \A s, t \in Seq(Nat) : ToSet(s \o t) = ToSet(s) \cup ToSet(t)
    BY ToSetConcat
<1> HIDE DEF used, N
<1>2. 0 \in Possible
    <2>1. <<>> \in [1 .. 0 -> 0 .. N + 0 - 1] /\ 0 \in 0 .. count
        OBVIOUS
    <2>2. IsInjective(<<>>) /\ ToSet(<<>>) = {}
        BY DEF IsInjective, ToSet
    <2> QED
        BY <2>1, <2>2
<1>3. ASSUME NEW k \in 0 .. count - 1, k \in Possible PROVE k + 1 \in Possible
    <2>1. PICK list : Is(list, k)
        BY <1>3
    <2>2. k \in Nat /\ k + 1 \in 0 .. count
        BY <1>1
    <2>3. list \in Seq(Nat) /\ Len(list) = k
        BY <1>1, <2>1, <2>2
    <2>4. IsFiniteSet(ToSet(list)) /\ Cardinality(ToSet(list)) = k
        BY <2>1, <2>3, InjectiveCardinality
    <2> DEFINE taken == used \cup ToSet(list)
               all == 0 .. N + k
    <2>5. IsFiniteSet(taken) /\ Cardinality(taken) = N + k
        <3>1. /\ IsFiniteSet(taken)
              /\ Cardinality(taken) = Cardinality(used) + Cardinality(ToSet(list))
                                        - Cardinality(used \cap ToSet(list))
            BY <1>1, <2>4, FS_Union
        <3>2. used \cap ToSet(list) = {}
            BY <2>1
        <3>3. Cardinality(used \cap ToSet(list)) = 0
            BY <3>2, FS_EmptySet
        <3>4. Cardinality(used) = N
            BY DEF N
        <3> HIDE DEF taken
        <3> QED
            BY <1>1, <2>2, <2>4, <3>1, <3>3, <3>4
    <2>6. IsFiniteSet(all) /\ Cardinality(all) = N + k + 1
        <3>1. 0 \in Int /\ N + k \in Int
            BY <1>1, <2>2
        <3>2. IsFiniteSet(all) /\ Cardinality(all) = IF 0 > N + k THEN 0 ELSE (N + k) - 0 + 1
            BY <3>1, FS_Interval
        <3> HIDE DEF all
        <3> QED
            BY <1>1, <2>2, <3>2
    <2>7. PICK x \in all : x \notin taken
        <3>1. all \subseteq taken => Cardinality(all) <= Cardinality(taken)
            BY <2>5, FS_Subset
        <3> HIDE DEF all, taken
        <3>2. ~(Cardinality(all) <= Cardinality(taken))
            BY <1>1, <2>2, <2>5, <2>6
        <3> QED
            BY <3>1, <3>2
    <2> DEFINE longer == list \o <<x>>
    <2>8. /\ longer \in Seq(Nat) /\ Len(longer) = k + 1
          /\ \A i \in 1 .. k : longer[i] = list[i]
          /\ longer[k + 1] = x
        BY <1>1, <2>2, <2>3
    <2>9. IsInjective(longer) /\ ToSet(longer) = ToSet(list) \cup {x}
        <3>1. <<x>> \in Seq(Nat) /\ IsInjective(<<x>>) /\ ToSet(<<x>>) = {x}
            BY <1>1, <2>2 DEF IsInjective, ToSet
        <3>2. ToSet(list) \cap ToSet(<<x>>) = {}
            BY <2>7, <3>1
        <3>3. IsInjective(list)
            BY <2>1
        <3>4. IsInjective(longer)
            BY <2>3, <3>1, <3>2, <3>3, InjectiveConcat
        <3>5. ToSet(longer) = ToSet(list) \cup ToSet(<<x>>)
            BY <1>6, <2>3, <3>1
        <3> QED
            BY <3>1, <3>4, <3>5
    <2>10. longer \in [1 .. k + 1 -> 0 .. N + (k + 1) - 1]
        <3>1. \A i \in 1 .. k : list[i] \in 0 .. N + (k + 1) - 1
            BY <1>1, <2>1, <2>2
        <3>2. x \in 0 .. N + (k + 1) - 1
            BY <1>1, <2>2
        <3>3. \A i \in 1 .. k + 1 : i \in 1 .. k \/ i = k + 1
            BY <2>2
        <3>4. \A i \in 1 .. k + 1 : longer[i] \in 0 .. N + (k + 1) - 1
            BY <2>8, <3>1, <3>2, <3>3
        <3>5. DOMAIN longer = 1 .. k + 1 /\ longer = [i \in DOMAIN longer |-> longer[i]]
            BY <2>8
        <3> HIDE DEF longer
        <3> QED
            BY <3>4, <3>5
    <2>11. Is(longer, k + 1)
        BY <2>1, <2>7, <2>9, <2>10
    <2> HIDE DEF Is
    <2> QED
        BY <2>2, <2>11
<1>4. count \in Possible
    <2> HIDE DEF Possible
    <2>1. \A k \in 0 .. count : k \in Possible
        BY <1>2, <1>3, InductionUpTo
    <2> QED
        BY <2>1
<1>5. PICK list : Is(list, count)
    BY <1>4
<1>7. Is(Unused(h, count), count)
    BY <1>5 DEF Unused, used, N
<1> QED
    BY <1>1, <1>7 DEF used

\* the beginning of a list and its rest have its buffers, and none in common
LEMMA CutList ==
    ASSUME NEW list \in BufferLists, NEW k \in 0 .. Len(list)
    PROVE  LET first == SubSeq(list, 1, k)
               rest == SubSeq(list, k + 1, Len(list)) IN
           /\ first \in BufferLists /\ rest \in BufferLists /\ list = first \o rest
           /\ ToSet(list) = ToSet(first) \cup ToSet(rest)
           /\ ToSet(first) \cap ToSet(rest) = {}
<1> DEFINE first == SubSeq(list, 1, k)
           rest == SubSeq(list, k + 1, Len(list))
<1>1. list \in Seq(Nat) /\ IsInjective(list)
    BY DEF BufferLists
<1>2. first \in Seq(Nat) /\ rest \in Seq(Nat) /\ list = first \o rest
    BY <1>1, CutInTwo
<1> HIDE DEF first, rest
<1>3. IsInjective(first) /\ IsInjective(rest) /\ ToSet(first) \cap ToSet(rest) = {}
    <2>1. IsInjective(first \o rest)
        BY <1>1, <1>2
    <2> QED
        BY <1>2, <2>1, InjectiveConcat
<1>4. ToSet(first \o rest) = ToSet(first) \cup ToSet(rest)
    BY <1>2, ToSetConcat
<1> QED
    BY <1>2, <1>3, <1>4 DEF BufferLists, first, rest

\* the clients that have a buffer in their lists can be counted
LEMMA HoldersCounted ==
    ASSUME NEW lists, NEW b
    PROVE  /\ IsFiniteSet(Holders(lists, b)) /\ Cardinality(Holders(lists, b)) \in Nat
           /\ \A c \in Holders(lists, b) :
                Cardinality(Holders(lists, b) \ {c}) = Cardinality(Holders(lists, b)) - 1
           /\ \A c : \A d \in Holders(lists, b) \ {c} : Cardinality(Holders(lists, b) \ {c}) > 0
<1> DEFINE all == Holders(lists, b)
<1>1. IsFiniteSet(all)
    BY NetAssumption, FS_Subset DEF Holders
<1> HIDE DEF all
<1>2. Cardinality(all) \in Nat
    BY <1>1, FS_CardinalityType
<1>3. \A c \in all : Cardinality(all \ {c}) = Cardinality(all) - 1
    BY <1>1, FS_RemoveElement
<1>4. ASSUME NEW c, NEW d \in all \ {c} PROVE Cardinality(all \ {c}) > 0
    <2> DEFINE others == all \ {c}
    <2>1. IsFiniteSet(others)
        BY <1>1, FS_Subset
    <2>2. others # {}
        BY <1>4
    <2> HIDE DEF others
    <2>3. Cardinality(others) \in Nat /\ Cardinality(others) # 0
        BY <2>1, <2>2, FS_CardinalityType, FS_EmptySet
    <2>4. Cardinality(others) > 0
        BY <2>3
    <2> QED
        BY <2>4 DEF others
<1> QED
    BY <1>1, <1>2, <1>3, <1>4 DEF all

\* a client gives up the first k buffers of its list
GivesUp(c, k, first, rest, kept, lists) ==
    /\ k \in 0 .. Len(outbuf[c])
    /\ first = SubSeq(outbuf[c], 1, k) /\ rest = SubSeq(outbuf[c], k + 1, Len(outbuf[c]))
    /\ kept = Release(ToSet(first)) /\ lists = WithList(outbuf, c, rest)

LEMMA Released ==
    ASSUME Counted(heap, outbuf), NEW c \in ClientFds, NEW k,
           NEW first, NEW rest, NEW kept, NEW lists, GivesUp(c, k, first, rest, kept, lists)
    PROVE  /\ Counted(kept, lists)
           /\ \A b \in DOMAIN kept : b \in DOMAIN heap /\ kept[b].bytes = heap[b].bytes
<1> DEFINE F == ToSet(first)
<1>1. /\ outbuf \in [ClientFds -> BufferLists]
      /\ IsHeap(heap) /\ \A d \in ClientFds : ToSet(outbuf[d]) \subseteq DOMAIN heap
      /\ \A b \in DOMAIN heap : heap[b].refcount = Cardinality(Holders(outbuf, b))
    BY DEF Counted
<1>2. /\ first \in BufferLists /\ rest \in BufferLists
      /\ ToSet(outbuf[c]) = F \cup ToSet(rest) /\ F \cap ToSet(rest) = {}
    BY <1>1, CutList DEF F, GivesUp
<1> HIDE DEF F
<1>3. /\ lists \in [ClientFds -> BufferLists] /\ lists[c] = rest
      /\ \A d \in ClientFds \ {c} : lists[d] = outbuf[d]
    BY <1>1, <1>2 DEF WithList, GivesUp
<1>4. ASSUME NEW b \in F
      PROVE  Holders(lists, b) = Holders(outbuf, b) \ {c} /\ c \in Holders(outbuf, b)
    BY <1>2, <1>3 DEF Holders
<1>5. ASSUME NEW b, b \notin F PROVE Holders(lists, b) = Holders(outbuf, b)
    BY <1>2, <1>3, <1>5 DEF Holders
<1>6. /\ DOMAIN kept = {b \in DOMAIN heap : b \notin F \/ heap[b].refcount > 1}
      /\ \A b \in DOMAIN kept :
            kept[b] = IF b \in F THEN [heap[b] EXCEPT !.refcount = @ - 1] ELSE heap[b]
    BY DEF Release, F, GivesUp
<1>7. heap \in [DOMAIN heap -> Buffers] /\ DOMAIN heap \in SUBSET Nat /\ IsFiniteSet(DOMAIN heap)
    BY <1>1 DEF IsHeap
<1>8. ASSUME NEW b \in DOMAIN kept
      PROVE  /\ b \in DOMAIN heap /\ kept[b] \in Buffers /\ kept[b].bytes = heap[b].bytes
             /\ kept[b].refcount = Cardinality(Holders(lists, b))
    <2>1. b \in DOMAIN heap /\ heap[b] \in Buffers
        BY <1>6, <1>7
    <2>2. CASE b \in F
        <3>1. heap[b].refcount > 1 /\ kept[b] = [heap[b] EXCEPT !.refcount = @ - 1]
            BY <1>6, <2>2
        <3>2. kept[b].refcount = heap[b].refcount - 1 /\ kept[b].bytes = heap[b].bytes
            BY <2>1, <3>1 DEF Buffers
        <3>3. kept[b] \in Buffers
            BY <2>1, <3>1 DEF Buffers
        <3>4. Cardinality(Holders(lists, b)) = Cardinality(Holders(outbuf, b)) - 1
            BY <1>4, <2>2, HoldersCounted
        <3> QED
            BY <1>1, <2>1, <3>2, <3>3, <3>4
    <2>3. CASE b \notin F
        BY <1>1, <1>5, <1>6, <2>1, <2>3
    <2> QED
        BY <2>2, <2>3
<1>9. ASSUME NEW d \in ClientFds, NEW b \in ToSet(lists[d]) PROVE b \in DOMAIN kept
    <2>1. b \in DOMAIN heap
        BY <1>1, <1>2, <1>3
    <2>2. CASE b \in F
        <3>1. d \in Holders(outbuf, b) \ {c} /\ c \in Holders(outbuf, b)
            BY <1>4, <2>2 DEF Holders
        <3>2. /\ Cardinality(Holders(outbuf, b) \ {c}) > 0
              /\ Cardinality(Holders(outbuf, b) \ {c}) = Cardinality(Holders(outbuf, b)) - 1
              /\ Cardinality(Holders(outbuf, b)) \in Nat
            BY <3>1, HoldersCounted
        <3>3. heap[b].refcount > 1
            <4> DEFINE p == Cardinality(Holders(outbuf, b))
                       q == Cardinality(Holders(outbuf, b) \ {c})
            <4>1. q > 0 /\ q = p - 1 /\ p \in Nat
                BY <3>2
            <4>2. heap[b].refcount = p
                BY <1>1, <2>1
            <4> HIDE DEF p, q
            <4> QED
                BY <4>1, <4>2
        <3> QED
            BY <1>6, <2>1, <3>3
    <2>3. CASE b \notin F
        BY <1>6, <2>1, <2>3
    <2> QED
        BY <2>2, <2>3
<1>10. IsHeap(kept)
    <2>1. DOMAIN kept \in SUBSET Nat /\ IsFiniteSet(DOMAIN kept)
        BY <1>6, <1>7, FS_Subset
    <2>2. kept = [b \in DOMAIN kept |-> kept[b]]
        BY DEF Release, GivesUp
    <2> QED
        BY <1>8, <2>1, <2>2 DEF IsHeap
<1>11. Counted(kept, lists)
    BY <1>3, <1>8, <1>9, <1>10 DEF Counted
<1> QED
    BY <1>8, <1>11

\* the rest of a buffer is moved to its start
LEMMA Moved ==
    ASSUME NEW h, NEW lists, Counted(h, lists),
           NEW b \in DOMAIN h, NEW bytes \in Seq(Bytes) \ {<<>>},
           NEW g, g = Rewritten(h, b, bytes)
    PROVE  /\ Counted(g, lists) /\ g[b].bytes = bytes
           /\ \A d \in DOMAIN h \ {b} : g[d] = h[d]
<1>1. /\ DOMAIN h \in SUBSET Nat /\ IsFiniteSet(DOMAIN h) /\ h \in [DOMAIN h -> Buffers]
      /\ \A d \in DOMAIN h : h[d].refcount = Cardinality(Holders(lists, d))
      /\ lists \in [ClientFds -> BufferLists]
      /\ \A c \in ClientFds : ToSet(lists[c]) \subseteq DOMAIN h
    BY DEF Counted, IsHeap
<1>2. /\ DOMAIN g = DOMAIN h /\ g[b] = [h[b] EXCEPT !.bytes = bytes]
      /\ \A d \in DOMAIN h \ {b} : g[d] = h[d]
    BY <1>1 DEF Rewritten
<1>3. g[b] \in Buffers /\ g[b].bytes = bytes /\ g[b].refcount = h[b].refcount
    <2>1. h[b] \in Buffers /\ g[b] = [h[b] EXCEPT !.bytes = bytes]
        BY <1>1, <1>2
    <2> QED
        BY <2>1 DEF Buffers
<1>4. g = [d \in DOMAIN g |-> g[d]]
    BY <1>1 DEF Rewritten
<1>5. \A d \in DOMAIN g : g[d] \in Buffers /\ g[d].refcount = h[d].refcount
    BY <1>1, <1>2, <1>3
<1>6. IsHeap(g)
    BY <1>1, <1>2, <1>4, <1>5 DEF IsHeap
<1>7. Counted(g, lists)
    BY <1>1, <1>2, <1>5, <1>6 DEF Counted
<1> QED
    BY <1>2, <1>3, <1>7

\* one more buffer in a heap
LEMMA Allocated ==
    ASSUME NEW h, IsHeap(h), NEW bytes \in Seq(Bytes) \ {<<>>}, NEW refcount \in Nat \ {0},
           NEW g, g = Allocate(h, bytes, refcount)
    PROVE  /\ IsHeap(g) /\ Fresh(h) \in Nat /\ Fresh(h) \notin DOMAIN h
           /\ \A b : b \in DOMAIN g <=> (b \in DOMAIN h \/ b = Fresh(h))
           /\ g[Fresh(h)].bytes = bytes /\ g[Fresh(h)].refcount = refcount
           /\ \A b \in DOMAIN h : g[b] = h[b]
<1> DEFINE f == Fresh(h)
<1>1. /\ DOMAIN h \in SUBSET Nat /\ IsFiniteSet(DOMAIN h) /\ h \in [DOMAIN h -> Buffers]
    BY DEF IsHeap
<1>2. f \in Nat /\ f \notin DOMAIN h
    <2> DEFINE list == Unused(h, 1)
    <2>1. list \in Seq(Nat) /\ Len(list) = 1 /\ ToSet(list) \cap DOMAIN h = {}
        BY UnusedIs
    <2> HIDE DEF list
    <2>3. 1 \in DOMAIN list
        BY <2>1
    <2>2. list[1] \in Nat
        <3>1. 1 \in 1 .. Len(list)
            BY <2>1
        <3> QED
            BY <2>1, <3>1, ElementOfSeq
    <2>4. list[1] \in ToSet(list)
        BY <2>3 DEF ToSet
    <2> QED
        BY <2>1, <2>2, <2>4 DEF Fresh, list
<1>3. /\ DOMAIN g = DOMAIN h \cup {f}
      /\ g[f] = [bytes |-> bytes, refcount |-> refcount]
      /\ g = [b \in DOMAIN g |-> g[b]]
      /\ \A b \in DOMAIN h : g[b] = h[b]
    BY <1>2 DEF Allocate
<1>4. IsFiniteSet(DOMAIN h \cup {f})
    BY <1>1, FS_AddElement
<1> HIDE DEF f
<1>5. \A b \in DOMAIN g : g[b] \in Buffers
    BY <1>1, <1>3 DEF Buffers
<1>6. IsHeap(g)
    BY <1>1, <1>2, <1>3, <1>4, <1>5 DEF IsHeap
<1> QED
    BY <1>2, <1>3, <1>6 DEF f

\* the rest of a buffer that others refer to is copied
LEMMA Copied ==
    ASSUME NEW h, NEW lists, Counted(h, lists), NEW c \in ClientFds, lists[c] # <<>>,
           NEW b, b = lists[c][1], h[b].refcount > 1, NEW bytes \in Seq(Bytes) \ {<<>>},
           NEW g, g = Allocate(Discounted(h, b), bytes, 1),
           NEW all, all = WithList(lists, c, Headed(Fresh(h), lists[c]))
    PROVE  /\ Counted(g, all) /\ Fresh(h) \notin DOMAIN h
           /\ \A d : d \in DOMAIN g <=> (d \in DOMAIN h \/ d = Fresh(h))
           /\ g[Fresh(h)].bytes = bytes
           /\ \A d \in DOMAIN h : g[d].bytes = h[d].bytes
<1> DEFINE less == [h EXCEPT ![b].refcount = @ - 1]
           f == Fresh(h)
           list == <<f>> \o Tail(lists[c])
<1>1. /\ DOMAIN h \in SUBSET Nat /\ IsFiniteSet(DOMAIN h) /\ h \in [DOMAIN h -> Buffers]
      /\ \A d \in DOMAIN h : h[d].refcount = Cardinality(Holders(lists, d))
      /\ lists \in [ClientFds -> BufferLists]
      /\ \A d \in ClientFds : ToSet(lists[d]) \subseteq DOMAIN h
    BY DEF Counted, IsHeap
<1>2. lists[c] \in Seq(Nat) /\ IsInjective(lists[c]) /\ Len(lists[c]) >= 1
    <2>1. lists[c] \in Seq(Nat) /\ IsInjective(lists[c])
        BY <1>1 DEF BufferLists
    <2> QED
        BY <2>1
<1>0. \A s, t \in Seq(Nat) : ToSet(s \o t) = ToSet(s) \cup ToSet(t)
    BY ToSetConcat
<1> DEFINE rest == SubSeq(lists[c], 2, Len(lists[c]))
<1>3. /\ rest \in Seq(Nat) /\ IsInjective(rest) /\ Tail(lists[c]) = rest
      /\ ToSet(lists[c]) = {b} \cup ToSet(rest) /\ b \notin ToSet(rest)
    <2>1. 1 \in 0 .. Len(lists[c]) /\ 1 + 1 = 2
        BY <1>2
    <2> DEFINE first == SubSeq(lists[c], 1, 1)
    <2>2. /\ first \in Seq(Nat) /\ Len(first) = 1 /\ \A i \in 1 .. 1 : first[i] = lists[c][i]
        BY <1>2, <2>1, CutInTwo
    <2>3. ToSet(first) = {b}
        BY <2>2 DEF ToSet
    <2>4. /\ rest \in BufferLists
          /\ ToSet(lists[c]) = ToSet(first) \cup ToSet(rest)
          /\ ToSet(first) \cap ToSet(rest) = {}
        BY <1>1, <2>1, CutList
    <2>5. Tail(lists[c]) = rest
        BY <1>2
    <2> HIDE DEF first, rest
    <2> QED
        BY <2>3, <2>4, <2>5 DEF BufferLists
<1>4. b \in DOMAIN h
    BY <1>1, <1>3
<1> HIDE DEF rest
<1>5. /\ DOMAIN less = DOMAIN h /\ less = [d \in DOMAIN less |-> less[d]]
      /\ less[b].refcount = h[b].refcount - 1 /\ less[b].bytes = h[b].bytes
      /\ less[b] \in Buffers /\ h[b].refcount \in Nat
      /\ \A d \in DOMAIN h \ {b} : less[d] = h[d]
    <2>1. h[b] \in Buffers
        BY <1>1, <1>4
    <2>2. less[b] = [h[b] EXCEPT !.refcount = @ - 1]
        BY <1>1, <1>4
    <2>3. /\ DOMAIN less = DOMAIN h /\ less = [d \in DOMAIN less |-> less[d]]
          /\ \A d \in DOMAIN h \ {b} : less[d] = h[d]
        BY <1>1
    <2> HIDE DEF less
    <2>4. /\ h[b].refcount \in Nat /\ h[b].refcount > 1 /\ h[b].bytes \in Seq(Bytes) \ {<<>>}
          /\ less[b] = [bytes |-> h[b].bytes, refcount |-> h[b].refcount - 1]
        BY <2>1, <2>2 DEF Buffers
    <2>5. less[b] \in Buffers
        <3>1. h[b].refcount - 1 \in Nat \ {0}
            BY <2>4
        <3> QED
            BY <2>4, <3>1 DEF Buffers
    <2> QED
        BY <2>3, <2>4, <2>5
<1>17. g = Allocate(less, bytes, 1) /\ all = [lists EXCEPT ![c] = list]
    BY DEF Discounted, WithList, Headed
<1> HIDE DEF less
<1>6. IsHeap(less)
    BY <1>1, <1>5 DEF IsHeap
<1>7. Fresh(less) = f
    BY <1>5 DEF Fresh, Unused
<1> HIDE DEF f
<1>8. /\ IsHeap(g) /\ f \in Nat /\ f \notin DOMAIN h
      /\ \A d : d \in DOMAIN g <=> (d \in DOMAIN h \/ d = f)
      /\ g[f].bytes = bytes /\ g[f].refcount = 1 /\ \A d \in DOMAIN h : g[d] = less[d]
    <2> DEFINE one == 1
    <2>1. one \in Nat \ {0}
        OBVIOUS
    <2> HIDE DEF one
    <2>2. g = Allocate(less, bytes, one)
        BY <1>17 DEF one
    <2>3. /\ IsHeap(g) /\ Fresh(less) \in Nat /\ Fresh(less) \notin DOMAIN less
          /\ \A d : d \in DOMAIN g <=> (d \in DOMAIN less \/ d = Fresh(less))
          /\ g[Fresh(less)].bytes = bytes /\ g[Fresh(less)].refcount = one
          /\ \A d \in DOMAIN less : g[d] = less[d]
        BY <1>6, <2>1, <2>2, Allocated
    <2> QED
        BY <1>5, <1>7, <2>3 DEF one
<1>9. list \in BufferLists /\ ToSet(list) = {f} \cup ToSet(rest)
    <2>1. <<f>> \in Seq(Nat) /\ IsInjective(<<f>>) /\ ToSet(<<f>>) = {f}
        BY <1>8 DEF IsInjective, ToSet
    <2>2. {f} \cap ToSet(rest) = {}
        BY <1>1, <1>3, <1>8
    <2>3. IsInjective(list)
        BY <1>3, <2>1, <2>2, InjectiveConcat
    <2>4. ToSet(list) = ToSet(<<f>>) \cup ToSet(rest)
        BY <1>0, <1>3, <2>1
    <2>5. list \in Seq(Nat)
        BY <1>3, <2>1, ConcatProperties
    <2> QED
        BY <2>1, <2>3, <2>4, <2>5 DEF BufferLists
<1> HIDE DEF list
<1>10. /\ all \in [ClientFds -> BufferLists] /\ all[c] = list
       /\ \A d \in ClientFds \ {c} : all[d] = lists[d]
    BY <1>1, <1>9, <1>17
<1>11. /\ Holders(all, f) = {c}
       /\ Holders(all, b) = Holders(lists, b) \ {c} /\ c \in Holders(lists, b)
       /\ \A d \in DOMAIN h \ {b} : Holders(all, d) = Holders(lists, d)
    <2>1. Holders(all, f) = {c}
        BY <1>1, <1>8, <1>9, <1>10 DEF Holders
    <2>2. Holders(all, b) = Holders(lists, b) \ {c} /\ c \in Holders(lists, b)
        BY <1>3, <1>4, <1>8, <1>9, <1>10 DEF Holders
    <2>3. ASSUME NEW d \in DOMAIN h \ {b} PROVE Holders(all, d) = Holders(lists, d)
        <3>1. d \in ToSet(list) <=> d \in ToSet(lists[c])
            BY <1>3, <1>8, <1>9
        <3>2. \A e \in ClientFds : d \in ToSet(all[e]) <=> d \in ToSet(lists[e])
            BY <1>10, <3>1
        <3> QED
            BY <3>2 DEF Holders
    <2> QED
        BY <2>1, <2>2, <2>3
<1>12. ASSUME NEW d \in DOMAIN g PROVE g[d].refcount = Cardinality(Holders(all, d))
    <2>1. CASE d = f
        <3>1. Cardinality({c}) = 1
            BY FS_Singleton
        <3>2. g[f].refcount = 1
            BY <1>8
        <3> QED
            BY <1>11, <2>1, <3>1, <3>2
    <2>2. CASE d = b
        <3>1. Cardinality(Holders(lists, b) \ {c}) = Cardinality(Holders(lists, b)) - 1
            BY <1>11, HoldersCounted
        <3>2. g[b] = less[b] /\ h[b].refcount = Cardinality(Holders(lists, b))
            BY <1>1, <1>4, <1>8
        <3> QED
            BY <1>5, <1>11, <2>2, <3>1, <3>2
    <2>3. CASE d \in DOMAIN h \ {b}
        BY <1>1, <1>5, <1>8, <1>11, <2>3
    <2> QED
        BY <1>8, <2>1, <2>2, <2>3
<1>13. ASSUME NEW d \in ClientFds PROVE ToSet(all[d]) \subseteq DOMAIN g
    BY <1>1, <1>3, <1>8, <1>9, <1>10
<1>14. Counted(g, all)
    BY <1>8, <1>10, <1>12, <1>13 DEF Counted
<1>15. g[f].bytes = bytes /\ \A d \in DOMAIN h : g[d].bytes = h[d].bytes
    BY <1>5, <1>8
<1> QED
    BY <1>8, <1>14, <1>15 DEF f

\* two lists without a buffer in common make one
LEMMA JoinedList ==
    ASSUME NEW list \in BufferLists, NEW new \in BufferLists,
           ToSet(list) \cap ToSet(new) = {}
    PROVE  /\ list \o new \in BufferLists
           /\ \A b : b \in ToSet(list \o new) <=> (b \in ToSet(list) \/ b \in ToSet(new))
<1>1. list \in Seq(Nat) /\ IsInjective(list) /\ new \in Seq(Nat) /\ IsInjective(new)
    BY DEF BufferLists
<1>2. list \o new \in Seq(Nat)
    BY <1>1, ConcatProperties
<1>3. IsInjective(list \o new)
    BY <1>1, InjectiveConcat
<1>4. ToSet(list \o new) = ToSet(list) \cup ToSet(new)
    BY <1>1, ToSetConcat
<1> QED
    BY <1>2, <1>3, <1>4 DEF BufferLists

\* what a message is
LEMMA MessageIs ==
    ASSUME NEW m \in Messages
    PROVE  /\ MessageBytes(m) \in Seq(Bytes) \ {<<>>}
           /\ Len(MessageBytes(m)) = MessageLength[m]
<1> DEFINE len == MessageLength[m]
           bytes == MessageBytes(m)
<1>1. len \in Nat \ {0}
    BY NetAssumption
<1> HIDE DEF len
<1>2. bytes = [k \in 1 .. len |-> <<m, k>>]
    BY DEF MessageBytes, len
<1>3. \A k \in 1 .. len : bytes[k] \in Bytes
    <2>1. \A k \in 1 .. len : bytes[k] \in ToSet(bytes)
        BY <1>2 DEF ToSet
    <2> QED
        BY <2>1 DEF Bytes
<1> HIDE DEF bytes
<1>4. bytes \in Seq(Bytes) /\ Len(bytes) = len
    BY <1>1, <1>2, <1>3
<1> QED
    BY <1>1, <1>4 DEF bytes, len

\* a buffer that is put at the end of everybody's list
LEMMA Shared ==
    ASSUME Counted(heap, outbuf), connections \in Lists, connections # <<>>, NEW m \in Messages,
           heap' = Allocate(heap, MessageBytes(m), Len(connections)),
           outbuf' = [c \in ClientFds |->
                IF c \in Connected THEN Append(outbuf[c], Fresh(heap)) ELSE outbuf[c]]
    PROVE  /\ Counted(heap', outbuf')
           /\ \A b \in DOMAIN heap : b \in DOMAIN heap' /\ heap'[b].bytes = heap[b].bytes
           /\ Fresh(heap) \in DOMAIN heap' /\ Fresh(heap) \in Nat
           /\ heap'[Fresh(heap)].bytes = MessageBytes(m)
<1> DEFINE f == Fresh(heap)
           count == Len(connections)
<1>1. /\ IsHeap(heap) /\ outbuf \in [ClientFds -> BufferLists]
      /\ \A d \in DOMAIN heap : heap[d].refcount = Cardinality(Holders(outbuf, d))
      /\ \A c \in ClientFds : ToSet(outbuf[c]) \subseteq DOMAIN heap
    BY DEF Counted
<1>2. count \in Nat \ {0} /\ Cardinality(Connected) = count /\ Connected \subseteq ClientFds
    <2>1. connections \in Seq(ClientFds) /\ IsInjective(connections)
        BY DEF Lists
    <2>2. count \in Nat \ {0}
        BY <2>1
    <2>3. Cardinality(ToSet(connections)) = Len(connections)
        BY <2>1, InjectiveCardinality
    <2>4. ToSet(connections) \subseteq ClientFds
        BY <2>1 DEF ToSet
    <2> QED
        BY <2>2, <2>3, <2>4 DEF Connected
<1> HIDE DEF count
<1>3. /\ IsHeap(heap') /\ f \in Nat /\ f \notin DOMAIN heap
      /\ \A b : b \in DOMAIN heap' <=> (b \in DOMAIN heap \/ b = f)
      /\ heap'[f].bytes = MessageBytes(m) /\ heap'[f].refcount = count
      /\ \A b \in DOMAIN heap : heap'[b] = heap[b]
    <2>1. heap' = Allocate(heap, MessageBytes(m), count)
        BY DEF count
    <2>2. MessageBytes(m) \in Seq(Bytes) \ {<<>>}
        BY MessageIs
    <2> QED
        BY <1>1, <1>2, <2>1, <2>2, Allocated
<1> HIDE DEF f
<1>4. ASSUME NEW c \in ClientFds
      PROVE  /\ outbuf'[c] \in BufferLists
             /\ \A b : b \in ToSet(outbuf'[c]) <=>
                    (b \in ToSet(outbuf[c]) \/ (c \in Connected /\ b = f))
    <2>1. outbuf'[c] = IF c \in Connected THEN Append(outbuf[c], f) ELSE outbuf[c]
        BY DEF f
    <2>2. outbuf[c] \in BufferLists /\ f \notin ToSet(outbuf[c])
        BY <1>1, <1>3
    <2>3. Append(outbuf[c], f) = outbuf[c] \o <<f>>
        BY <1>3, <2>2 DEF BufferLists
    <2>4. <<f>> \in BufferLists /\ ToSet(<<f>>) = {f}
        BY <1>3 DEF BufferLists, IsInjective, ToSet
    <2>5. ToSet(outbuf[c]) \cap ToSet(<<f>>) = {}
        BY <2>2, <2>4
    <2>6. /\ outbuf[c] \o <<f>> \in BufferLists
          /\ \A b : b \in ToSet(outbuf[c] \o <<f>>) <=>
                (b \in ToSet(outbuf[c]) \/ b \in ToSet(<<f>>))
        BY <2>2, <2>4, <2>5, JoinedList
    <2>7. CASE c \in Connected
        <3>1. outbuf'[c] = outbuf[c] \o <<f>>
            BY <2>1, <2>3, <2>7
        <3> QED
            BY <2>4, <2>6, <2>7, <3>1
    <2>8. CASE c \notin Connected
        BY <2>1, <2>2, <2>8
    <2> QED
        BY <2>7, <2>8
<1>5. outbuf' \in [ClientFds -> BufferLists]
    BY <1>4
<1>6. Holders(outbuf', f) = Connected /\ \A b \in DOMAIN heap : Holders(outbuf', b) = Holders(outbuf, b)
    <2>1. Holders(outbuf', f) = Connected
        BY <1>1, <1>2, <1>3, <1>4 DEF Holders
    <2>2. \A b \in DOMAIN heap : Holders(outbuf', b) = Holders(outbuf, b)
        BY <1>3, <1>4 DEF Holders
    <2> QED
        BY <2>1, <2>2
<1>7. \A b \in DOMAIN heap' : heap'[b].refcount = Cardinality(Holders(outbuf', b))
    BY <1>1, <1>2, <1>3, <1>6
<1>8. \A c \in ClientFds : ToSet(outbuf'[c]) \subseteq DOMAIN heap'
    BY <1>1, <1>2, <1>3, <1>4
<1>9. Counted(heap', outbuf')
    BY <1>3, <1>5, <1>7, <1>8 DEF Counted
<1> QED
    BY <1>3, <1>9 DEF f

\* the client's list has one more buffer, of `new', for each message
Gets(c, messages, new) ==
    /\ Counted(heap', outbuf')
    /\ \A b \in DOMAIN heap : b \in DOMAIN heap' /\ heap'[b].bytes = heap[b].bytes
    /\ new \in Seq(Nat) /\ Len(new) = Len(messages) /\ ToSet(new) \subseteq DOMAIN heap'
    /\ \A i \in 1 .. Len(messages) : heap'[new[i]].bytes = MessageBytes(messages[i])
    /\ outbuf' = [outbuf EXCEPT ![c] = @ \o new]

\* buffers of its own at the end of the list of one client
LEMMA Answered ==
    ASSUME Counted(heap, outbuf), NEW c \in ClientFds, NEW messages \in Seq(Messages),
           client_printf(c, messages), NEW new, new = Unused(heap, Len(messages))
    PROVE  Gets(c, messages, new)
<1> DEFINE count == Len(messages)
<1>1. /\ IsHeap(heap) /\ outbuf \in [ClientFds -> BufferLists]
      /\ \A d \in DOMAIN heap : heap[d].refcount = Cardinality(Holders(outbuf, d))
      /\ \A d \in ClientFds : ToSet(outbuf[d]) \subseteq DOMAIN heap
    BY DEF Counted
<1>2. count \in Nat /\ \A i \in 1 .. count : messages[i] \in Messages
    OBVIOUS
<1> HIDE DEF count
<1>3. /\ new \in Seq(Nat) /\ Len(new) = count /\ IsInjective(new)
      /\ ToSet(new) \cap DOMAIN heap = {}
    <2>1. new = Unused(heap, count)
        BY DEF count
    <2> QED
        BY <1>1, <1>2, <2>1, UnusedIs
<1>4. /\ DOMAIN new = 1 .. count /\ new \in BufferLists
      /\ \A i, j \in 1 .. count : new[i] = new[j] => i = j
    BY <1>3 DEF IsInjective, BufferLists
<1>5. /\ DOMAIN heap' = DOMAIN heap \cup ToSet(new)
      /\ heap' = [b \in DOMAIN heap' |-> heap'[b]]
      /\ \A b \in DOMAIN heap : heap'[b] = heap[b]
      /\ \A b \in ToSet(new) :
            /\ heap'[b].bytes = MessageBytes(messages[PlaceIn(new, b)])
            /\ heap'[b].refcount = 1
            /\ heap'[b] = [bytes |-> MessageBytes(messages[PlaceIn(new, b)]), refcount |-> 1]
    <2>1. heap' = [b \in DOMAIN heap \cup ToSet(new) |->
            IF b \in DOMAIN heap THEN heap[b]
            ELSE [bytes |-> MessageBytes(messages[PlaceIn(new, b)]), refcount |-> 1]]
        BY DEF client_printf
    <2> QED
        BY <1>3, <2>1
<1>6. \A i \in 1 .. count : PlaceIn(new, new[i]) = i /\ new[i] \in ToSet(new)
    <2>1. \A i \in 1 .. count : PlaceIn(new, new[i]) = i
        BY <1>4 DEF PlaceIn
    <2> QED
        BY <1>4, <2>1 DEF ToSet
<1>7. \A b \in ToSet(new) : \E i \in 1 .. count : b = new[i]
    BY <1>4 DEF ToSet
<1>8. ASSUME NEW b \in ToSet(new) PROVE b \in Nat /\ heap'[b] \in Buffers
    <2>1. PICK i \in 1 .. count : b = new[i]
        BY <1>7
    <2>2. heap'[b] = [bytes |-> MessageBytes(messages[i]), refcount |-> 1]
        BY <1>5, <1>6, <2>1
    <2>3. MessageBytes(messages[i]) \in Seq(Bytes) \ {<<>>}
        BY <1>2, MessageIs
    <2>4. b \in Nat
        BY <1>3, <2>1
    <2> QED
        BY <2>2, <2>3, <2>4 DEF Buffers
<1>9. IsHeap(heap')
    <2>1. DOMAIN heap \in SUBSET Nat /\ IsFiniteSet(DOMAIN heap) /\ heap \in [DOMAIN heap -> Buffers]
        BY <1>1 DEF IsHeap
    <2>2. IsFiniteSet(ToSet(new))
        BY <1>3, InjectiveCardinality
    <2>3. IsFiniteSet(DOMAIN heap \cup ToSet(new))
        BY <2>1, <2>2, FS_Union
    <2>4. \A b \in DOMAIN heap' : b \in Nat /\ heap'[b] \in Buffers
        BY <1>5, <1>8, <2>1
    <2> QED
        BY <1>5, <2>3, <2>4 DEF IsHeap
<1>10. /\ outbuf' = [outbuf EXCEPT ![c] = @ \o new]
       /\ outbuf'[c] = outbuf[c] \o new
       /\ \A d \in ClientFds \ {c} : outbuf'[d] = outbuf[d]
    <2>1. outbuf' = [outbuf EXCEPT ![c] = @ \o new]
        BY DEF client_printf
    <2> QED
        BY <1>1, <2>1
<1>11. /\ outbuf'[c] \in BufferLists
       /\ \A b : b \in ToSet(outbuf'[c]) <=> (b \in ToSet(outbuf[c]) \/ b \in ToSet(new))
    <2>1. ToSet(outbuf[c]) \cap ToSet(new) = {} /\ outbuf[c] \in BufferLists
        BY <1>1, <1>3
    <2>2. /\ outbuf[c] \o new \in BufferLists
          /\ \A b : b \in ToSet(outbuf[c] \o new) <=> (b \in ToSet(outbuf[c]) \/ b \in ToSet(new))
        BY <1>4, <2>1, JoinedList
    <2> QED
        BY <1>10, <2>2
<1>12. outbuf' \in [ClientFds -> BufferLists]
    BY <1>1, <1>10, <1>11
<1>13. /\ \A b \in ToSet(new) : Holders(outbuf', b) = {c}
       /\ \A b \in DOMAIN heap : Holders(outbuf', b) = Holders(outbuf, b)
    <2>1. \A b \in ToSet(new) : Holders(outbuf', b) = {c}
        BY <1>1, <1>3, <1>10, <1>11 DEF Holders
    <2>2. \A b \in DOMAIN heap : Holders(outbuf', b) = Holders(outbuf, b)
        BY <1>3, <1>10, <1>11 DEF Holders
    <2> QED
        BY <2>1, <2>2
<1>14. Cardinality({c}) = 1
    BY FS_Singleton
<1>15. \A b \in DOMAIN heap' : heap'[b].refcount = Cardinality(Holders(outbuf', b))
    BY <1>1, <1>5, <1>13, <1>14
<1>16. \A d \in ClientFds : ToSet(outbuf'[d]) \subseteq DOMAIN heap'
    BY <1>1, <1>5, <1>10, <1>11
<1>17. Counted(heap', outbuf')
    BY <1>9, <1>12, <1>15, <1>16 DEF Counted
<1>18. \A i \in 1 .. count : heap'[new[i]].bytes = MessageBytes(messages[i])
    BY <1>5, <1>6
<1>19. \A b \in DOMAIN heap : b \in DOMAIN heap' /\ heap'[b].bytes = heap[b].bytes
    BY <1>5
<1>20. ToSet(new) \subseteq DOMAIN heap'
    BY <1>5
<1> QED
    BY <1>3, <1>10, <1>17, <1>18, <1>19, <1>20 DEF count, Gets

-----------------------------------------------------------------------------
(* The bytes in the buffers.                                               *)

\* every buffer of the list has bytes
Filled(h, list) == list \in Seq(Nat) /\ \A b \in ToSet(list) : h[b].bytes \in Seq(Bytes)

Parts(h, list) == [i \in DOMAIN list |-> h[list[i]].bytes]

LEMMA PartsAre ==
    ASSUME NEW h, NEW list, Filled(h, list)
    PROVE  /\ Parts(h, list) \in Seq(Seq(Bytes)) /\ Len(Parts(h, list)) = Len(list)
           /\ \A i \in 1 .. Len(list) : Parts(h, list)[i] = h[list[i]].bytes
           /\ BytesIn(h, list) = FlattenSeq(Parts(h, list))
           /\ BytesIn(h, list) \in Seq(Bytes)
<1> DEFINE len == Len(list)
           parts == Parts(h, list)
<1>1. list \in Seq(Nat) /\ len \in Nat /\ DOMAIN list = 1 .. len
    BY DEF Filled
<1>2. parts = [i \in 1 .. len |-> h[list[i]].bytes]
    BY <1>1 DEF Parts
<1>3. \A i \in 1 .. len : list[i] \in ToSet(list)
    BY <1>1 DEF ToSet
<1>4. \A i \in 1 .. len : h[list[i]].bytes \in Seq(Bytes)
    BY <1>3 DEF Filled
<1>5. BytesIn(h, list) = FlattenSeq(parts)
    BY DEF BytesIn, Parts
<1> HIDE DEF parts, len
<1>6. /\ parts \in Seq(Seq(Bytes)) /\ Len(parts) = len
      /\ \A i \in 1 .. len : parts[i] = h[list[i]].bytes
    BY <1>1, <1>2, <1>4
<1>7. FlattenSeq(parts) \in Seq(Bytes)
    BY <1>6, FlattenType
<1> QED
    BY <1>5, <1>6, <1>7 DEF parts, len

SameBytes(h, g, list) == \A b \in ToSet(list) : g[b].bytes = h[b].bytes

\* the bytes of a list depend on its buffers only
LEMMA BytesSame ==
    ASSUME NEW h, NEW g, NEW list, Filled(h, list), SameBytes(h, g, list)
    PROVE  Filled(g, list) /\ BytesIn(g, list) = BytesIn(h, list)
<1>1. \A i \in DOMAIN list : list[i] \in ToSet(list)
    BY DEF ToSet
<1>2. [i \in DOMAIN list |-> g[list[i]].bytes] = [i \in DOMAIN list |-> h[list[i]].bytes]
    BY <1>1 DEF SameBytes
<1>3. BytesIn(g, list) = BytesIn(h, list)
    BY <1>2 DEF BytesIn
<1> QED
    BY <1>3 DEF Filled, SameBytes

\* lists one after the other
LEMMA BytesJoined ==
    ASSUME NEW h, NEW list, Filled(h, list), NEW new, Filled(h, new)
    PROVE  Filled(h, list \o new) /\ BytesIn(h, list \o new) = BytesIn(h, list) \o BytesIn(h, new)
<1> DEFINE all == list \o new
           p == Parts(h, list)
           q == Parts(h, new)
           r == Parts(h, all)
<1>1. list \in Seq(Nat) /\ new \in Seq(Nat)
    BY DEF Filled
<1>2. /\ all \in Seq(Nat) /\ Len(all) = Len(list) + Len(new)
      /\ \A i \in 1 .. Len(list) + Len(new) :
            all[i] = IF i <= Len(list) THEN list[i] ELSE new[i - Len(list)]
    BY <1>1, ConcatProperties
<1>3. ToSet(all) = ToSet(list) \cup ToSet(new)
    BY <1>1, ToSetConcat
<1> HIDE DEF all
<1>4. Filled(h, all)
    BY <1>2, <1>3 DEF Filled
<1>5. /\ p \in Seq(Seq(Bytes)) /\ Len(p) = Len(list)
      /\ \A i \in 1 .. Len(list) : p[i] = h[list[i]].bytes
      /\ BytesIn(h, list) = FlattenSeq(p)
    BY PartsAre
<1>6. /\ q \in Seq(Seq(Bytes)) /\ Len(q) = Len(new)
      /\ \A i \in 1 .. Len(new) : q[i] = h[new[i]].bytes
      /\ BytesIn(h, new) = FlattenSeq(q)
    BY PartsAre
<1>7. /\ r \in Seq(Seq(Bytes)) /\ Len(r) = Len(all)
      /\ \A i \in 1 .. Len(all) : r[i] = h[all[i]].bytes
      /\ BytesIn(h, all) = FlattenSeq(r)
    BY <1>4, PartsAre
<1> HIDE DEF p, q, r
<1>8. /\ p \o q \in Seq(Seq(Bytes)) /\ Len(p \o q) = Len(p) + Len(q)
      /\ \A i \in 1 .. Len(p) + Len(q) : (p \o q)[i] = IF i <= Len(p) THEN p[i] ELSE q[i - Len(p)]
    <2>1. p \in Seq(Seq(Bytes)) /\ q \in Seq(Seq(Bytes))
        BY <1>5, <1>6
    <2> QED
        BY <2>1, ConcatProperties
<1>9. Len(list) \in Nat /\ Len(new) \in Nat
    BY <1>1
<1>10. ASSUME NEW i \in 1 .. Len(all) PROVE r[i] = (p \o q)[i]
    <2>1. i \in 1 .. Len(list) + Len(new)
        BY <1>2
    <2>2. CASE i <= Len(list)
        <3>1. i \in 1 .. Len(list)
            BY <1>9, <2>1, <2>2
        <3>2. all[i] = list[i]
            BY <1>2, <2>1, <2>2
        <3>3. (p \o q)[i] = p[i]
            BY <1>5, <1>6, <1>8, <2>1, <2>2
        <3> QED
            BY <1>5, <1>7, <3>1, <3>2, <3>3
    <2>3. CASE ~(i <= Len(list))
        <3>1. i - Len(list) \in 1 .. Len(new)
            BY <1>9, <2>1, <2>3
        <3>2. all[i] = new[i - Len(list)]
            BY <1>2, <2>1, <2>3
        <3>3. (p \o q)[i] = q[i - Len(list)]
            BY <1>5, <1>6, <1>8, <2>1, <2>3
        <3> QED
            BY <1>6, <1>7, <3>1, <3>2, <3>3
    <2> QED
        BY <2>2, <2>3
<1>11. Len(r) = Len(p \o q) /\ \A i \in 1 .. Len(r) : r[i] = (p \o q)[i]
    BY <1>2, <1>5, <1>6, <1>7, <1>8, <1>10
<1>12. r = p \o q
    BY <1>7, <1>8, <1>11, SeqEqual
<1>13. FlattenSeq(p \o q) = FlattenSeq(p) \o FlattenSeq(q)
    BY <1>5, <1>6, FlattenConcat
<1> QED
    BY <1>4, <1>5, <1>6, <1>7, <1>12, <1>13 DEF all

\* the bytes of one buffer, and of none
LEMMA BytesOfOne ==
    ASSUME NEW h, NEW b \in Nat, h[b].bytes \in Seq(Bytes)
    PROVE  /\ Filled(h, <<b>>) /\ BytesIn(h, <<b>>) = h[b].bytes
           /\ Filled(h, <<>>) /\ BytesIn(h, <<>>) = <<>>
<1>1. Filled(h, <<b>>) /\ Filled(h, <<>>)
    BY DEF Filled, ToSet
<1>2. BytesIn(h, <<b>>) = h[b].bytes
    <2>1. [i \in DOMAIN <<b>> |-> h[<<b>>[i]].bytes] = <<h[b].bytes>>
        OBVIOUS
    <2>2. FlattenSeq(<<h[b].bytes>>) = h[b].bytes
        BY FlattenSingle
    <2> QED
        BY <2>1, <2>2 DEF BytesIn
<1>3. BytesIn(h, <<>>) = <<>>
    <2>1. [i \in DOMAIN <<>> |-> h[<<>>[i]].bytes] = <<>>
        OBVIOUS
    <2> QED
        BY <2>1, FlattenEmpty DEF BytesIn
<1> QED
    BY <1>1, <1>2, <1>3

\* the lists of the clients have bytes
LEMMA ListsFilled ==
    ASSUME NEW h, NEW lists, Counted(h, lists), NEW c \in ClientFds
    PROVE  /\ Filled(h, lists[c])
           /\ \A b \in DOMAIN h : h[b].bytes \in Seq(Bytes) \ {<<>>} /\ h[b].refcount \in Nat \ {0}
<1>1. \A b \in DOMAIN h : h[b].bytes \in Seq(Bytes) \ {<<>>} /\ h[b].refcount \in Nat \ {0}
    BY DEF Counted, IsHeap, Buffers
<1>2. lists[c] \in BufferLists /\ ToSet(lists[c]) \subseteq DOMAIN h
    BY DEF Counted
<1> QED
    BY <1>1, <1>2 DEF Filled, BufferLists

\* the bytes of the beginning of a list and of its rest
LEMMA BytesCut ==
    ASSUME NEW h, NEW list, Filled(h, list), NEW k \in 0 .. Len(list)
    PROVE  LET first == SubSeq(list, 1, k)
               rest == SubSeq(list, k + 1, Len(list)) IN
           /\ Filled(h, first) /\ Filled(h, rest)
           /\ BytesIn(h, list) = BytesIn(h, first) \o BytesIn(h, rest)
           /\ Len(BytesIn(h, list)) = Len(BytesIn(h, first)) + Len(BytesIn(h, rest))
<1> DEFINE first == SubSeq(list, 1, k)
           rest == SubSeq(list, k + 1, Len(list))
<1>1. list \in Seq(Nat) /\ \A b \in ToSet(list) : h[b].bytes \in Seq(Bytes)
    BY DEF Filled
<1>2. first \in Seq(Nat) /\ rest \in Seq(Nat) /\ list = first \o rest
    BY <1>1, CutInTwo
<1> HIDE DEF first, rest
<1>3. ToSet(list) = ToSet(first) \cup ToSet(rest)
    <2>1. ToSet(first \o rest) = ToSet(first) \cup ToSet(rest)
        BY <1>2, ToSetConcat
    <2> QED
        BY <1>2, <2>1
<1>4. Filled(h, first) /\ Filled(h, rest)
    BY <1>1, <1>2, <1>3 DEF Filled
<1>5. BytesIn(h, first \o rest) = BytesIn(h, first) \o BytesIn(h, rest)
    BY <1>4, BytesJoined
<1>6. BytesIn(h, first) \in Seq(Bytes) /\ BytesIn(h, rest) \in Seq(Bytes)
    BY <1>4, PartsAre
<1>7. Len(BytesIn(h, first) \o BytesIn(h, rest))
        = Len(BytesIn(h, first)) + Len(BytesIn(h, rest))
    BY <1>6, ConcatProperties
<1> QED
    BY <1>2, <1>4, <1>5, <1>7 DEF first, rest

\* the lengths of lists that go on
LEMMA BytesOfFirst ==
    ASSUME NEW h, NEW list, Filled(h, list)
    PROVE  /\ Len(BytesIn(h, SubSeq(list, 1, 0))) = 0
           /\ SubSeq(list, 1, Len(list)) = list
           /\ \A k \in 0 .. Len(list) :
                /\ Len(BytesIn(h, SubSeq(list, 1, k))) \in Nat
                /\ Len(BytesIn(h, SubSeq(list, 1, k))) <= Len(BytesIn(h, list))
                /\ k < Len(list) => Len(BytesIn(h, SubSeq(list, 1, k + 1))) =
                        Len(BytesIn(h, SubSeq(list, 1, k))) + Len(h[list[k + 1]].bytes)
<1>1. list \in Seq(Nat) /\ Len(list) \in Nat /\ DOMAIN list = 1 .. Len(list)
      /\ \A b \in ToSet(list) : h[b].bytes \in Seq(Bytes)
    BY DEF Filled
<1>2. SubSeq(list, 1, Len(list)) = list
    BY <1>1, SubSeqFull
<1>3. Len(BytesIn(h, SubSeq(list, 1, 0))) = 0
    <2>1. SubSeq(list, 1, 0) = <<>>
        BY <1>1
    <2>2. BytesIn(h, <<>>) = <<>>
        <3>1. [i \in DOMAIN <<>> |-> h[<<>>[i]].bytes] = <<>>
            OBVIOUS
        <3> QED
            BY <3>1, FlattenEmpty DEF BytesIn
    <2>3. Len(<<>>) = 0
        OBVIOUS
    <2> QED
        BY <2>1, <2>2, <2>3
<1>4. ASSUME NEW k \in 0 .. Len(list)
      PROVE  /\ Len(BytesIn(h, SubSeq(list, 1, k))) \in Nat
             /\ Len(BytesIn(h, SubSeq(list, 1, k))) <= Len(BytesIn(h, list))
    <2> DEFINE first == SubSeq(list, 1, k)
               rest == SubSeq(list, k + 1, Len(list))
    <2>1. /\ Filled(h, first) /\ Filled(h, rest)
          /\ Len(BytesIn(h, list)) = Len(BytesIn(h, first)) + Len(BytesIn(h, rest))
        BY BytesCut
    <2> HIDE DEF first, rest
    <2>2. BytesIn(h, first) \in Seq(Bytes) /\ BytesIn(h, rest) \in Seq(Bytes)
        BY <2>1, PartsAre
    <2>3. Len(BytesIn(h, first)) \in Nat /\ Len(BytesIn(h, rest)) \in Nat
        BY <2>2, LenProperties
    <2>4. Len(BytesIn(h, first)) \in Nat /\ Len(BytesIn(h, first)) <= Len(BytesIn(h, list))
        BY <2>1, <2>3
    <2> QED
        BY <2>4 DEF first
<1>5. ASSUME NEW k \in 0 .. Len(list), k < Len(list)
      PROVE  Len(BytesIn(h, SubSeq(list, 1, k + 1))) =
                Len(BytesIn(h, SubSeq(list, 1, k))) + Len(h[list[k + 1]].bytes)
    <2> DEFINE more == SubSeq(list, 1, k + 1)
               first == SubSeq(list, 1, k)
               b == list[k + 1]
    <2>1. k \in Nat /\ k + 1 \in 1 .. Len(list) /\ k + 1 \in 0 .. Len(list)
        BY <1>1, <1>5
    <2>2. b \in ToSet(list) /\ b \in Nat /\ h[b].bytes \in Seq(Bytes)
        <3>1. b \in ToSet(list)
            BY <1>1, <2>1 DEF ToSet
        <3> QED
            BY <1>1, <2>1, <3>1, ElementOfSeq
    <2>3. /\ more \in Seq(Nat) /\ Len(more) = k + 1
          /\ \A i \in 1 .. k + 1 : more[i] = list[i]
        BY <1>1, <2>1, CutInTwo
    <2>4. /\ first \in Seq(Nat) /\ Len(first) = k
          /\ \A i \in 1 .. k : first[i] = list[i]
        BY <1>1, <2>1, CutInTwo
    <2>5. Filled(h, first)
        BY BytesCut
    <2> HIDE DEF more, first, b
    <2>6. more = first \o <<b>>
        <3>1. /\ first \o <<b>> \in Seq(Nat) /\ Len(first \o <<b>>) = k + 1
              /\ \A i \in 1 .. k : (first \o <<b>>)[i] = first[i]
              /\ (first \o <<b>>)[k + 1] = b
            BY <2>1, <2>2, <2>4
        <3>2. \A i \in 1 .. k + 1 : i \in 1 .. k \/ i = k + 1
            BY <2>1
        <3>3. more[k + 1] = b
            BY <2>1, <2>3 DEF b
        <3>4. \A i \in 1 .. Len(more) : more[i] = (first \o <<b>>)[i]
            <4>1. \A i \in 1 .. k : i \in 1 .. k + 1
                BY <2>1
            <4>2. \A i \in 1 .. k : more[i] = (first \o <<b>>)[i]
                BY <2>3, <2>4, <3>1, <4>1
            <4> QED
                BY <2>3, <3>1, <3>2, <3>3, <4>2
        <3> QED
            BY <2>3, <3>1, <3>4, SeqEqual
    <2>7. Filled(h, <<b>>) /\ BytesIn(h, <<b>>) = h[b].bytes
        BY <2>2, BytesOfOne
    <2>8. BytesIn(h, more) = BytesIn(h, first) \o h[b].bytes
        <3>1. BytesIn(h, first \o <<b>>) = BytesIn(h, first) \o BytesIn(h, <<b>>)
            BY <2>5, <2>7, BytesJoined
        <3> QED
            BY <2>6, <2>7, <3>1
    <2>9. BytesIn(h, first) \in Seq(Bytes)
        BY <2>5, PartsAre
    <2>10. Len(BytesIn(h, more)) = Len(BytesIn(h, first)) + Len(h[b].bytes)
        BY <2>2, <2>8, <2>9, ConcatProperties
    <2> QED
        BY <2>10 DEF more, first, b
<1> QED
    BY <1>2, <1>3, <1>4, <1>5

\* where writev stops: after k buffers, over bytes into the next
LEMMA WrittenIs ==
    ASSUME NEW bufs, Filled(heap, bufs), NEW m \in 0 .. Len(bufs),
           NEW size \in 1 .. LengthOf(SubSeq(bufs, 1, m))
    PROVE  LET k == Written(bufs, size)
               over == size - LengthOf(SubSeq(bufs, 1, k)) IN
           /\ k \in 0 .. Len(bufs) /\ over \in Nat
           /\ over > 0 => k < Len(bufs) /\ over < Len(heap[bufs[k + 1]].bytes)
<1> DEFINE L(j) == Len(BytesIn(heap, SubSeq(bufs, 1, j)))
           S == {j \in 0 .. Len(bufs) : L(j) <= size}
           k == Max(S)
           over == size - L(k)
<1>1. /\ L(0) = 0 /\ L(Len(bufs)) = Len(BytesIn(heap, bufs))
      /\ \A j \in 0 .. Len(bufs) : /\ L(j) \in Nat /\ L(j) <= Len(BytesIn(heap, bufs))
                                   /\ j < Len(bufs) => L(j + 1) = L(j) + Len(heap[bufs[j + 1]].bytes)
    BY BytesOfFirst
<1>2. size \in 1 .. L(m) /\ k = Written(bufs, size)
      /\ over = size - LengthOf(SubSeq(bufs, 1, k))
    BY DEF LengthOf, BytesOf, Written
<1>3. Len(bufs) \in Nat
    BY DEF Filled
<1> HIDE DEF L
<1>4. size \in Nat \ {0} /\ size <= L(m)
    BY <1>1, <1>2
<1>5. k \in S /\ \A j \in S : j <= k
    <2>1. 0 \in S
        BY <1>1, <1>3, <1>4
    <2>2. S \in SUBSET (0 .. Len(bufs)) /\ S # {}
        BY <2>1
    <2> HIDE DEF S
    <2> QED
        BY <1>3, <2>2, MaxUpTo
<1> HIDE DEF k
<1>6. k \in 0 .. Len(bufs) /\ L(k) <= size /\ L(k) \in Nat
    BY <1>1, <1>5
<1>7. over \in Nat
    BY <1>4, <1>6
<1>8. ASSUME over > 0 PROVE k < Len(bufs) /\ over < Len(heap[bufs[k + 1]].bytes)
    <2>1. k # Len(bufs)
        <3>1. ASSUME k = Len(bufs) PROVE FALSE
            <4>1. L(k) = Len(BytesIn(heap, bufs)) /\ L(m) <= Len(BytesIn(heap, bufs))
                  /\ L(m) \in Nat
                BY <1>1, <3>1
            <4>2. size <= L(k)
                BY <1>4, <1>6, <4>1
            <4> QED
                BY <1>4, <1>6, <1>8, <4>2
        <3> QED
            BY <3>1
    <2>2. k < Len(bufs) /\ k + 1 \in 0 .. Len(bufs) /\ ~(k + 1 <= k)
        BY <1>3, <1>6, <2>1
    <2>3. ~(L(k + 1) <= size)
        BY <1>5, <2>2
    <2>4. L(k + 1) = L(k) + Len(heap[bufs[k + 1]].bytes) /\ L(k + 1) \in Nat
        BY <1>1, <1>6, <2>2
    <2> DEFINE len == Len(heap[bufs[k + 1]].bytes)
    <2>5. len \in Nat
        <3>1. bufs \in Seq(Nat) /\ DOMAIN bufs = 1 .. Len(bufs) /\ k + 1 \in 1 .. Len(bufs)
            BY <1>6, <2>2 DEF Filled
        <3>2. bufs[k + 1] \in ToSet(bufs)
            BY <3>1 DEF ToSet
        <3>3. heap[bufs[k + 1]].bytes \in Seq(Bytes)
            BY <3>2 DEF Filled
        <3> QED
            BY <3>3, LenProperties
    <2> HIDE DEF len
    <2>6. L(k + 1) = L(k) + len
        BY <2>4 DEF len
    <2>7. over < len
        BY <1>4, <1>6, <2>3, <2>4, <2>5, <2>6
    <2> QED
        BY <2>2, <2>7 DEF len
<1> QED
    BY <1>2, <1>6, <1>7, <1>8

-----------------------------------------------------------------------------
(* Writing.                                                                *)

\* the list is the buffer and a tail without it
Starts(h, list, b, tail) ==
    /\ list = <<b>> \o tail
    /\ b \in DOMAIN h /\ b \in ToSet(list) /\ b \notin ToSet(tail) /\ b \in Nat
    /\ \A x \in ToSet(tail) : x \in ToSet(list)
    /\ Filled(h, tail) /\ h[b].bytes \in Seq(Bytes)
    /\ BytesIn(h, list) = h[b].bytes \o BytesIn(h, tail)

\* a list that is not empty starts with a buffer that is in it once
LEMMA FirstBuffer ==
    ASSUME NEW h, NEW lists, Counted(h, lists), NEW c \in ClientFds, lists[c] # <<>>
    PROVE  Starts(h, lists[c], lists[c][1], Tail(lists[c]))
<1> DEFINE list == lists[c]
           b == list[1]
           tail == Tail(list)
           first == SubSeq(list, 1, 1)
           rest == SubSeq(list, 2, Len(list))
<1>1. list \in BufferLists /\ list \in Seq(Nat) /\ list # <<>> /\ ToSet(list) \subseteq DOMAIN h
    BY DEF Counted, BufferLists
<1>2. Filled(h, list)
    BY ListsFilled
<1> HIDE DEF list
<1>3. 1 \in 1 .. Len(list) /\ 1 \in 0 .. Len(list) /\ 1 + 1 = 2
    BY <1>1
<1>4. Tail(list) = rest
    BY <1>1
<1>5. first = <<b>>
    <2>1. first \in Seq(Nat) /\ Len(first) = 1 /\ \A i \in 1 .. 1 : first[i] = list[i]
        BY <1>1, <1>3, CutInTwo
    <2> HIDE DEF first
    <2>2. b \in Nat
        BY <1>1, <1>3, ElementOfSeq
    <2>3. \A i \in 1 .. Len(first) : first[i] = <<b>>[i]
        BY <2>1
    <2>4. <<b>> \in Seq(Nat) /\ Len(<<b>>) = 1
        BY <2>2
    <2> QED
        BY <2>1, <2>3, <2>4, SeqEqual
<1>6. /\ ToSet(list) = ToSet(first) \cup ToSet(rest)
      /\ ToSet(first) \cap ToSet(rest) = {} /\ list = first \o rest
    BY <1>1, <1>3, CutList
<1>7. ToSet(<<b>>) = {b}
    BY DEF ToSet
<1>8. b \in ToSet(list) /\ b \in Nat
    <2>1. b \in Nat
        BY <1>1, <1>3, ElementOfSeq
    <2> QED
        BY <1>5, <1>6, <1>7, <2>1
<1>9. h[b].bytes \in Seq(Bytes)
    BY <1>2, <1>8 DEF Filled
<1>10. Filled(h, rest) /\ BytesIn(h, list) = BytesIn(h, first) \o BytesIn(h, rest)
    BY <1>2, <1>3, BytesCut
<1>11. BytesIn(h, <<b>>) = h[b].bytes
    BY <1>8, <1>9, BytesOfOne
<1> HIDE DEF b, first, rest
<1>12. /\ b \notin ToSet(rest) /\ \A x \in ToSet(rest) : x \in ToSet(list)
       /\ b \in DOMAIN h
    BY <1>1, <1>5, <1>6, <1>7, <1>8
<1>13. BytesIn(h, list) = h[b].bytes \o BytesIn(h, rest) /\ list = <<b>> \o rest
    BY <1>5, <1>6, <1>10, <1>11
<1> QED
    BY <1>4, <1>8, <1>9, <1>10, <1>12, <1>13 DEF Starts, list, b

\* what was the list of c has become these bytes and those of the tail
Shortened(h, lists, g, all, c, bytes, tail) ==
    /\ Counted(g, all)
    /\ BytesIn(g, all[c]) = bytes \o BytesIn(h, tail)
    /\ \A d \in ClientFds \ {c} : /\ all[d] = lists[d]
                                  /\ BytesIn(g, all[d]) = BytesIn(h, lists[d])

\* the rest of a buffer of one client is moved to its start: the others' bytes stay
LEMMA MovedBytes ==
    ASSUME NEW h, NEW lists, Counted(h, lists), NEW c \in ClientFds,
           NEW b, NEW tail, Starts(h, lists[c], b, tail), h[b].refcount = 1,
           NEW bytes \in Seq(Bytes) \ {<<>>}, NEW g, g = Rewritten(h, b, bytes)
    PROVE  Shortened(h, lists, g, lists, c, bytes, tail)
<1>1. /\ b \in DOMAIN h /\ b \in ToSet(lists[c]) /\ b \notin ToSet(tail) /\ b \in Nat
      /\ \A x \in ToSet(tail) : x \in ToSet(lists[c])
      /\ Filled(h, tail)
      /\ lists[c] = <<b>> \o tail
    BY DEF Starts
<1>2. /\ \A d \in DOMAIN h : h[d].refcount = Cardinality(Holders(lists, d))
      /\ \A d \in ClientFds : ToSet(lists[d]) \subseteq DOMAIN h
    BY DEF Counted
<1>3. /\ Counted(g, lists) /\ g[b].bytes = bytes
      /\ \A d \in DOMAIN h \ {b} : g[d] = h[d]
    BY <1>1, Moved
<1>4. BytesIn(g, tail) = BytesIn(h, tail) /\ Filled(g, tail)
    <2>1. SameBytes(h, g, tail)
        <3>1. ASSUME NEW x \in ToSet(tail) PROVE g[x].bytes = h[x].bytes
            <4>1. x \in DOMAIN h \ {b}
                BY <1>1, <1>2
            <4> QED
                BY <1>3, <4>1
        <3> QED
            BY <3>1 DEF SameBytes
    <2> QED
        BY <1>1, <2>1, BytesSame
<1>5. BytesIn(g, lists[c]) = bytes \o BytesIn(h, tail)
    <2>1. Filled(g, <<b>>) /\ BytesIn(g, <<b>>) = bytes
        <3>1. g[b].bytes \in Seq(Bytes)
            BY <1>3
        <3> QED
            BY <1>1, <1>3, <3>1, BytesOfOne
    <2>2. BytesIn(g, <<b>> \o tail) = BytesIn(g, <<b>>) \o BytesIn(g, tail)
        BY <1>4, <2>1, BytesJoined
    <2> QED
        BY <1>1, <1>4, <2>1, <2>2
<1>6. ASSUME NEW d \in ClientFds \ {c} PROVE BytesIn(g, lists[d]) = BytesIn(h, lists[d])
    <2>1. b \notin ToSet(lists[d])
        <3>1. ASSUME b \in ToSet(lists[d]) PROVE FALSE
            <4>1. c \in Holders(lists, b) /\ d \in Holders(lists, b) \ {c}
                BY <1>1, <3>1 DEF Holders
            <4> DEFINE p == Cardinality(Holders(lists, b))
                       q == Cardinality(Holders(lists, b) \ {c})
            <4>2. q = p - 1 /\ q > 0
                BY <4>1, HoldersCounted
            <4>3. p = 1
                BY <1>1, <1>2
            <4> HIDE DEF p, q
            <4> QED
                BY <4>2, <4>3
        <3> QED
            BY <3>1
    <2>4. ToSet(lists[d]) \subseteq DOMAIN h
        BY <1>2
    <2>2. SameBytes(h, g, lists[d])
        <3>1. ASSUME NEW x \in ToSet(lists[d]) PROVE g[x].bytes = h[x].bytes
            <4>1. x \in DOMAIN h /\ x # b
                BY <2>1, <2>4
            <4> QED
                BY <1>3, <4>1
        <3> QED
            BY <3>1 DEF SameBytes
    <2>3. Filled(h, lists[d])
        BY ListsFilled
    <2> QED
        BY <2>2, <2>3, BytesSame
<1> QED
    BY <1>3, <1>5, <1>6 DEF Shortened

\* the rest of a shared buffer is copied
LEMMA CopiedBytes ==
    ASSUME NEW h, NEW lists, Counted(h, lists), NEW c \in ClientFds, lists[c] # <<>>,
           NEW b, NEW tail, Starts(h, lists[c], b, tail), h[b].refcount > 1,
           b = lists[c][1], tail = Tail(lists[c]),
           NEW bytes \in Seq(Bytes) \ {<<>>},
           NEW g, g = Allocate(Discounted(h, b), bytes, 1),
           NEW all, all = WithList(lists, c, Headed(Fresh(h), lists[c]))
    PROVE  Shortened(h, lists, g, all, c, bytes, tail)
<1> DEFINE f == Fresh(h)
<1>1. /\ b \in DOMAIN h /\ \A x \in ToSet(tail) : x \in ToSet(lists[c])
      /\ Filled(h, tail)
    BY DEF Starts
<1>2. /\ lists \in [ClientFds -> BufferLists]
      /\ \A d \in ClientFds : ToSet(lists[d]) \subseteq DOMAIN h
    BY DEF Counted
<1>3. /\ all[c] = <<f>> \o tail /\ \A d \in ClientFds \ {c} : all[d] = lists[d]
    BY <1>2 DEF WithList, Headed
<1>4. /\ Counted(g, all) /\ f \notin DOMAIN h
      /\ \A d : d \in DOMAIN g <=> (d \in DOMAIN h \/ d = f)
      /\ g[f].bytes = bytes /\ \A d \in DOMAIN h : g[d].bytes = h[d].bytes
    BY Copied
<1> HIDE DEF f
<1>5. f \in Nat
    BY <1>4 DEF Counted, IsHeap
<1>6. BytesIn(g, tail) = BytesIn(h, tail) /\ Filled(g, tail)
    <2>1. SameBytes(h, g, tail)
        <3>1. ASSUME NEW x \in ToSet(tail) PROVE g[x].bytes = h[x].bytes
            BY <1>1, <1>2, <1>4
        <3> QED
            BY <3>1 DEF SameBytes
    <2> QED
        BY <1>1, <2>1, BytesSame
<1>7. BytesIn(g, all[c]) = bytes \o BytesIn(h, tail)
    <2>1. Filled(g, <<f>>) /\ BytesIn(g, <<f>>) = bytes
        <3>1. g[f].bytes \in Seq(Bytes)
            BY <1>4
        <3> QED
            BY <1>4, <1>5, <3>1, BytesOfOne
    <2>2. BytesIn(g, <<f>> \o tail) = BytesIn(g, <<f>>) \o BytesIn(g, tail)
        <3> DEFINE one == <<f>>
        <3>1. Filled(g, one) /\ Filled(g, tail)
            BY <1>6, <2>1
        <3> HIDE DEF one
        <3>2. \A s, t : Filled(g, s) /\ Filled(g, t)
                            => BytesIn(g, s \o t) = BytesIn(g, s) \o BytesIn(g, t)
            BY Zenon, BytesJoined
        <3> QED
            BY <3>1, <3>2 DEF one
    <2> QED
        BY <1>3, <1>6, <2>1, <2>2
<1>8. ASSUME NEW d \in ClientFds \ {c} PROVE BytesIn(g, all[d]) = BytesIn(h, lists[d])
    <2>1. SameBytes(h, g, lists[d])
        <3>1. ASSUME NEW x \in ToSet(lists[d]) PROVE g[x].bytes = h[x].bytes
            BY <1>2, <1>4
        <3> QED
            BY <3>1 DEF SameBytes
    <2>2. Filled(h, lists[d])
        BY ListsFilled
    <2> QED
        BY <1>3, <2>1, <2>2, BytesSame
<1> QED
    BY <1>3, <1>4, <1>7, <1>8 DEF Shortened

\* bytes taken off the front of a buffer's bytes and those behind them
FrontCut(a, old, t, over, size) ==
    LET all == a \o (old \o t)
        left == SubSeq(old, over + 1, Len(old)) \o t IN
    /\ SubSeq(all, size + 1, Len(all)) = left
    /\ Len(all) = Len(a) + Len(old) + Len(t)
    /\ Len(left) = Len(all) - size
    /\ size \in 0 .. Len(all)

LEMMA CutBytes ==
    ASSUME NEW a \in Seq(Bytes), NEW old \in Seq(Bytes), NEW t \in Seq(Bytes),
           NEW over \in 0 .. Len(old), NEW size, size = Len(a) + over
    PROVE  FrontCut(a, old, t, over, size)
<1> DEFINE r == old \o t
           cut == SubSeq(old, over + 1, Len(old))
<1>1. r \in Seq(Bytes) /\ Len(r) = Len(old) + Len(t)
    BY ConcatProperties
<1>2. Len(a) \in Nat /\ Len(old) \in Nat /\ Len(t) \in Nat
    OBVIOUS
<1>3. over \in 0 .. Len(r)
    BY <1>1, <1>2
<1>4. cut \in Seq(Bytes) /\ Len(cut) = Len(old) - over
    BY CutInTwo
<1>5. SubSeq(r, over + 1, Len(r)) = cut \o t
    BY CutConcat
<1> HIDE DEF r, cut
<1>6. SubSeq(a \o r, Len(a) + over + 1, Len(a \o r)) = SubSeq(r, over + 1, Len(r))
    BY <1>1, <1>3, CutBeyond
<1>7. Len(a \o r) = Len(a) + Len(r) /\ Len(cut \o t) = Len(cut) + Len(t)
    BY <1>1, <1>4, ConcatProperties
<1>8. /\ Len(a \o r) = Len(a) + Len(old) + Len(t)
      /\ Len(cut \o t) = Len(a \o r) - size /\ size \in 0 .. Len(a \o r)
    <2> DEFINE x == Len(a)
               y == Len(old)
               z == Len(t)
    <2>1. /\ x \in Nat /\ y \in Nat /\ z \in Nat /\ over \in 0 .. y /\ size = x + over
          /\ Len(a \o r) = x + (y + z) /\ Len(cut \o t) = (y - over) + z
        BY <1>1, <1>2, <1>4, <1>7
    <2> HIDE DEF x, y, z
    <2>2. /\ Len(a \o r) = x + y + z
          /\ Len(cut \o t) = Len(a \o r) - size /\ size \in 0 .. Len(a \o r)
        BY <2>1
    <2> QED
        BY <2>2 DEF x, y, z
<1> QED
    BY <1>5, <1>6, <1>8 DEF r, cut, FrontCut

\* what a write of size bytes to the client has done to the buffers
Taken(c, size) ==
    /\ Counted(heap', outbuf')
    /\ size \in 0 .. LengthOf(outbuf[c])
    /\ \A d \in ClientFds \ {c} : /\ outbuf'[d] = outbuf[d]
                                  /\ BytesIn(heap', outbuf'[d]) = BytesOf(outbuf[d])
    /\ Len(BytesIn(heap', outbuf'[c])) = LengthOf(outbuf[c]) - size
    /\ \/ /\ shared_cut' = shared_cut
          /\ BytesIn(heap', outbuf'[c])
                = SubSeq(BytesOf(outbuf[c]), size + 1, Len(BytesOf(outbuf[c])))
       \/ shared_cut' = [shared_cut EXCEPT ![c] = TRUE]

\* what is left when the buffers of `first' are given up and those of `rest' stay
GivenUp(c, first, rest, kept, lists) ==
    /\ Counted(kept, lists) /\ lists[c] = rest
    /\ \A d \in ClientFds \ {c} : /\ lists[d] = outbuf[d]
                                  /\ BytesIn(kept, lists[d]) = BytesOf(outbuf[d])
    /\ BytesOf(outbuf[c]) = BytesOf(first) \o BytesIn(kept, rest)
    /\ BytesOf(first) \in Seq(Bytes) /\ BytesIn(kept, rest) \in Seq(Bytes)
    /\ \A b \in DOMAIN kept : kept[b].bytes = heap[b].bytes

\* the buffers that are written whole are given up
LEMMA Flushing ==
    ASSUME Counted(heap, outbuf), NEW c \in ClientFds, NEW k,
           NEW first, NEW rest, NEW kept, NEW lists, GivesUp(c, k, first, rest, kept, lists)
    PROVE  GivenUp(c, first, rest, kept, lists)
<1>1. outbuf \in [ClientFds -> BufferLists]
    BY DEF Counted
<1>2. lists[c] = rest /\ \A d \in ClientFds \ {c} : lists[d] = outbuf[d]
    BY <1>1 DEF WithList, GivesUp
<1>3. /\ Counted(kept, lists)
      /\ \A b \in DOMAIN kept : b \in DOMAIN heap /\ kept[b].bytes = heap[b].bytes
    BY Released
<1>4. \A d \in ClientFds : ToSet(lists[d]) \subseteq DOMAIN kept
    BY <1>3 DEF Counted
<1>5. Filled(heap, outbuf[c])
    BY ListsFilled
<1>6. /\ Filled(heap, first) /\ Filled(heap, rest)
      /\ BytesIn(heap, outbuf[c]) = BytesIn(heap, first) \o BytesIn(heap, rest)
    BY <1>5, BytesCut DEF GivesUp
<1>7. BytesIn(kept, rest) = BytesIn(heap, rest)
    <2>1. SameBytes(heap, kept, rest)
        <3>1. ToSet(rest) \subseteq DOMAIN kept
            BY <1>2, <1>4
        <3> QED
            BY <1>3, <3>1 DEF SameBytes
    <2> QED
        BY <1>6, <2>1, BytesSame
<1>8. ASSUME NEW d \in ClientFds \ {c} PROVE BytesIn(kept, lists[d]) = BytesOf(outbuf[d])
    <2>1. SameBytes(heap, kept, outbuf[d])
        <3>1. ToSet(outbuf[d]) \subseteq DOMAIN kept
            BY <1>2, <1>4
        <3> QED
            BY <1>3, <3>1 DEF SameBytes
    <2>2. Filled(heap, outbuf[d])
        BY ListsFilled
    <2>3. BytesIn(kept, outbuf[d]) = BytesIn(heap, outbuf[d])
        BY <2>1, <2>2, BytesSame
    <2> QED
        BY <1>2, <2>3 DEF BytesOf
<1>9. BytesIn(heap, first) \in Seq(Bytes) /\ BytesIn(heap, rest) \in Seq(Bytes)
    BY <1>6, PartsAre
<1>10. /\ BytesOf(outbuf[c]) = BytesOf(first) \o BytesIn(kept, rest)
       /\ BytesOf(first) \in Seq(Bytes) /\ BytesIn(kept, rest) \in Seq(Bytes)
    BY <1>6, <1>7, <1>9 DEF BytesOf
<1> QED
    BY <1>2, <1>3, <1>8, <1>10 DEF GivenUp

\* writev stopped between two buffers
LEMMA TakenWhole ==
    ASSUME NEW c \in ClientFds, NEW first, NEW rest, NEW kept, NEW lists,
           GivenUp(c, first, rest, kept, lists),
           heap' = kept, outbuf' = lists, shared_cut' = shared_cut,
           NEW size, size = Len(BytesOf(first))
    PROVE  Taken(c, size)
<1> DEFINE A == BytesOf(first)
           R == BytesIn(kept, rest)
           none == <<>>
           over == 0
<1>1. BytesOf(outbuf[c]) = A \o R /\ A \in Seq(Bytes) /\ R \in Seq(Bytes)
    BY DEF GivenUp
<1>2. /\ none \in Seq(Bytes) /\ over \in 0 .. Len(none) /\ none \o R = R
      /\ SubSeq(none, over + 1, Len(none)) = none /\ size = Len(A) + over
    BY <1>1
<1>3. Counted(heap', outbuf') /\ BytesIn(heap', outbuf'[c]) = R
    BY DEF GivenUp
<1>4. \A d \in ClientFds \ {c} : /\ outbuf'[d] = outbuf[d]
                                 /\ BytesIn(heap', outbuf'[d]) = BytesOf(outbuf[d])
    BY DEF GivenUp
<1> HIDE DEF A, R, none, over
<1>5. /\ SubSeq(A \o (none \o R), size + 1, Len(A \o (none \o R)))
            = SubSeq(none, over + 1, Len(none)) \o R
      /\ Len(SubSeq(none, over + 1, Len(none)) \o R) = Len(A \o (none \o R)) - size
      /\ size \in 0 .. Len(A \o (none \o R))
    <2>1. FrontCut(A, none, R, over, size)
        BY <1>1, <1>2, CutBytes
    <2> QED
        BY <2>1 DEF FrontCut
<1>6. /\ R = SubSeq(A \o R, size + 1, Len(A \o R)) /\ Len(R) = Len(A \o R) - size
      /\ size \in 0 .. Len(A \o R)
    BY <1>2, <1>5
<1> QED
    BY <1>1, <1>3, <1>4, <1>6 DEF Taken, LengthOf

\* the bytes behind the first `over' ones, and all but the last ones
Behind(bytes, over) == SubSeq(bytes, over + 1, Len(bytes))
AllBut(bytes, over) == SubSeq(bytes, 1, Len(bytes) - over)

\* writev took `over' bytes of the first buffer that stays
StopsInside(first, rest, b, over, size) ==
    /\ rest # <<>> /\ b = rest[1]
    /\ over \in Nat \ {0} /\ over < Len(heap[b].bytes)
    /\ size = Len(BytesOf(first)) + over

\* writev stopped inside a buffer that is the client's alone
LEMMA TakenOwn ==
    ASSUME NEW c \in ClientFds, NEW first, NEW rest, NEW kept, NEW lists,
           GivenUp(c, first, rest, kept, lists),
           NEW b, NEW over, NEW size, StopsInside(first, rest, b, over, size),
           kept[b].refcount = 1, NEW bytes, bytes = Behind(heap[b].bytes, over),
           heap' = Rewritten(kept, b, bytes), outbuf' = lists, shared_cut' = shared_cut
    PROVE  Taken(c, size)
<1> DEFINE A == BytesOf(first)
           R == BytesIn(kept, rest)
           tail == Tail(rest)
           old == kept[b].bytes
           t == BytesIn(kept, tail)
<1>1. BytesOf(outbuf[c]) = A \o R /\ A \in Seq(Bytes) /\ Counted(kept, lists) /\ lists[c] = rest
    BY DEF GivenUp
<1>2. Starts(kept, lists[c], b, tail)
    BY <1>1, FirstBuffer DEF StopsInside
<1>3. b \in DOMAIN kept /\ Filled(kept, tail) /\ old \in Seq(Bytes) /\ R = old \o t
    BY <1>1, <1>2 DEF Starts
<1>4. old = heap[b].bytes
    BY <1>3 DEF GivenUp
<1>5. t \in Seq(Bytes)
    BY <1>3, PartsAre
<1>6. bytes = SubSeq(old, over + 1, Len(old)) /\ over \in 0 .. Len(old) /\ size = Len(A) + over
    BY <1>3, <1>4 DEF StopsInside, Behind
<1>7. \A d \in ClientFds \ {c} : /\ outbuf'[d] = outbuf[d]
                                 /\ BytesIn(kept, lists[d]) = BytesOf(outbuf[d])
    BY DEF GivenUp
<1> HIDE DEF A, R, tail, old, t
<1>8. /\ SubSeq(A \o (old \o t), size + 1, Len(A \o (old \o t)))
            = SubSeq(old, over + 1, Len(old)) \o t
      /\ Len(SubSeq(old, over + 1, Len(old)) \o t) = Len(A \o (old \o t)) - size
      /\ size \in 0 .. Len(A \o (old \o t))
    <2>1. FrontCut(A, old, t, over, size)
        BY <1>1, <1>3, <1>5, <1>6, CutBytes
    <2> QED
        BY <2>1 DEF FrontCut
<1>9. bytes \in Seq(Bytes) \ {<<>>}
    <2>1. /\ SubSeq(old, over + 1, Len(old)) \in Seq(Bytes)
          /\ Len(SubSeq(old, over + 1, Len(old))) = Len(old) - over
        BY <1>3, <1>6, CutInTwo
    <2>2. Len(old) - over # 0
        <3>1. over \in Nat /\ over < Len(old)
            BY <1>4 DEF StopsInside
        <3>2. Len(old) \in Nat
            BY <1>3
        <3> QED
            BY <3>1, <3>2
    <2>3. bytes = SubSeq(old, over + 1, Len(old))
        BY <1>6
    <2>4. bytes \in Seq(Bytes) /\ Len(bytes) # 0
        BY <2>1, <2>2, <2>3
    <2> QED
        BY <2>4, EmptySeq
<1>10. /\ Counted(heap', lists)
       /\ BytesIn(heap', lists[c]) = bytes \o t
       /\ \A d \in ClientFds \ {c} : BytesIn(heap', lists[d]) = BytesIn(kept, lists[d])
    <2>1. Shortened(kept, lists, heap', lists, c, bytes, tail)
        BY <1>1, <1>2, <1>9, MovedBytes
    <2> QED
        BY <2>1 DEF t, Shortened
<1>11. /\ BytesIn(heap', outbuf'[c]) = SubSeq(BytesOf(outbuf[c]), size + 1, Len(BytesOf(outbuf[c])))
       /\ Len(BytesIn(heap', outbuf'[c])) = LengthOf(outbuf[c]) - size
       /\ size \in 0 .. LengthOf(outbuf[c])
    BY <1>1, <1>3, <1>6, <1>8, <1>10 DEF LengthOf
<1> QED
    BY <1>7, <1>10, <1>11 DEF Taken

\* writev stopped inside a buffer that others have yet to get
LEMMA TakenShared ==
    ASSUME NEW c \in ClientFds, NEW first, NEW rest, NEW kept, NEW lists,
           GivenUp(c, first, rest, kept, lists),
           NEW b, NEW over, NEW size, StopsInside(first, rest, b, over, size),
           kept[b].refcount > 1, NEW bytes, bytes = AllBut(heap[b].bytes, over),
           heap' = Allocate(Discounted(kept, b), bytes, 1),
           outbuf' = WithList(lists, c, Headed(Fresh(kept), rest)),
           shared_cut' = [shared_cut EXCEPT ![c] = TRUE]
    PROVE  Taken(c, size)
<1> DEFINE A == BytesOf(first)
           R == BytesIn(kept, rest)
           tail == Tail(rest)
           old == kept[b].bytes
           t == BytesIn(kept, tail)
           keep == Len(old) - over
<1>1. BytesOf(outbuf[c]) = A \o R /\ A \in Seq(Bytes) /\ Counted(kept, lists) /\ lists[c] = rest
    BY DEF GivenUp
<1>2. Starts(kept, lists[c], b, tail)
    BY <1>1, FirstBuffer DEF StopsInside
<1>3. b \in DOMAIN kept /\ Filled(kept, tail) /\ old \in Seq(Bytes) /\ R = old \o t
    BY <1>1, <1>2 DEF Starts
<1>4. old = heap[b].bytes
    BY <1>3 DEF GivenUp
<1>5. t \in Seq(Bytes)
    BY <1>3, PartsAre
<1>6. /\ bytes = SubSeq(old, 1, keep) /\ over \in 0 .. Len(old) /\ size = Len(A) + over
      /\ keep \in 0 .. Len(old) /\ keep # 0
    BY <1>3, <1>4 DEF StopsInside, AllBut
<1>7. \A d \in ClientFds \ {c} : /\ lists[d] = outbuf[d]
                                 /\ BytesIn(kept, lists[d]) = BytesOf(outbuf[d])
    BY DEF GivenUp
<1>8. /\ lists[c] # <<>> /\ b = lists[c][1] /\ tail = Tail(lists[c])
      /\ outbuf' = WithList(lists, c, Headed(Fresh(kept), lists[c]))
    BY <1>1 DEF StopsInside
<1> HIDE DEF A, R, tail, old, t
<1>9. /\ Len(SubSeq(old, over + 1, Len(old)) \o t) = Len(A \o (old \o t)) - size
      /\ size \in 0 .. Len(A \o (old \o t))
    <2>1. FrontCut(A, old, t, over, size)
        BY <1>1, <1>3, <1>5, <1>6, CutBytes
    <2> QED
        BY <2>1 DEF FrontCut
<1>10. SubSeq(old, over + 1, Len(old)) \in Seq(Bytes) /\ Len(SubSeq(old, over + 1, Len(old))) = keep
    BY <1>3, <1>6, CutInTwo
<1> HIDE DEF keep
<1>11. bytes \in Seq(Bytes) \ {<<>>} /\ Len(bytes) = keep
    <2>1. SubSeq(old, 1, keep) \in Seq(Bytes) /\ Len(SubSeq(old, 1, keep)) = keep
        BY <1>3, <1>6, CutInTwo
    <2>2. bytes = SubSeq(old, 1, keep) /\ keep # 0
        BY <1>6
    <2>3. bytes \in Seq(Bytes) /\ Len(bytes) = keep
        BY <2>1, <2>2
    <2>4. ASSUME bytes = <<>> PROVE FALSE
        <3>1. Len(<<>>) = keep
            BY <2>3, <2>4
        <3> QED
            BY <2>2, <3>1
    <2> QED
        BY <2>3, <2>4
<1>12. Len(bytes \o t) = Len(SubSeq(old, over + 1, Len(old)) \o t)
    <2> DEFINE cut == SubSeq(old, over + 1, Len(old))
    <2>1. cut \in Seq(Bytes) /\ Len(cut) = keep
        BY <1>10
    <2> HIDE DEF cut
    <2>2. Len(bytes \o t) = Len(bytes) + Len(t) /\ Len(cut \o t) = Len(cut) + Len(t)
        BY <1>5, <1>11, <2>1, ConcatProperties
    <2>3. Len(bytes \o t) = Len(cut \o t)
        BY <1>11, <2>1, <2>2
    <2> QED
        BY <2>3 DEF cut
<1>13. /\ Counted(heap', outbuf')
       /\ BytesIn(heap', outbuf'[c]) = bytes \o t
       /\ \A d \in ClientFds \ {c} : /\ outbuf'[d] = lists[d]
                                     /\ BytesIn(heap', outbuf'[d]) = BytesIn(kept, lists[d])
    <2>1. Shortened(kept, lists, heap', outbuf', c, bytes, tail)
        BY <1>1, <1>2, <1>8, <1>11, CopiedBytes
    <2> QED
        BY <2>1 DEF t, Shortened
<1>14. /\ Len(BytesIn(heap', outbuf'[c])) = LengthOf(outbuf[c]) - size
       /\ size \in 0 .. LengthOf(outbuf[c])
    BY <1>1, <1>3, <1>9, <1>12, <1>13 DEF LengthOf
<1> QED
    BY <1>7, <1>13, <1>14 DEF Taken

\* what flush_writes does when writev took size bytes of the first m buffers
FlushStep(c, m, size, k, over, rest, kept) ==
    /\ size \in 1 .. LengthOf(SubSeq(outbuf[c], 1, m))
    /\ k = Written(outbuf[c], size)
    /\ over = size - LengthOf(SubSeq(outbuf[c], 1, k))
    /\ rest = SubSeq(outbuf[c], k + 1, Len(outbuf[c]))
    /\ kept = Release(ToSet(SubSeq(outbuf[c], 1, k)))
    /\ \/ /\ over = 0
          /\ heap' = kept
          /\ outbuf' = [outbuf EXCEPT ![c] = rest]
          /\ UNCHANGED shared_cut
       \/ over > 0 /\ kept[rest[1]].refcount = 1 /\ CutOwn(c, rest[1], rest, over, kept)
       \/ over > 0 /\ kept[rest[1]].refcount > 1 /\ CutShared(c, rest[1], rest, over, kept)
    /\ owed' = [owed EXCEPT ![c] = SubSeq(@, size + 1, Len(@))]
    /\ socksetout' = StillOut(c, rest)

LEMMA FlushIs ==
    ASSUME NEW c \in ClientFds, outbuf[c] \in Seq(Nat), flush_writes(c)
    PROVE  \E m \in 0 .. Len(outbuf[c]) : \E size, k, over, rest, kept :
                FlushStep(c, m, size, k, over, rest, kept)
<1> DEFINE bufs == outbuf[c]
           len == Len(bufs)
           m == Min({len, PERSISTENT_IOVS})
<1>1. PICK size \in 1 .. LengthOf(SubSeq(bufs, 1, m)) :
        FlushStep(c, m, size, Written(bufs, size),
                  size - LengthOf(SubSeq(bufs, 1, Written(bufs, size))),
                  SubSeq(bufs, Written(bufs, size) + 1, Len(bufs)),
                  Release(ToSet(SubSeq(bufs, 1, Written(bufs, size)))))
    BY DEF flush_writes, FlushStep
<1>2. m \in 0 .. len
    <2>1. len \in Nat /\ PERSISTENT_IOVS \in Nat
        BY NetAssumption
    <2> HIDE DEF len
    <2>2. len \in Int /\ PERSISTENT_IOVS \in Int
        BY <2>1
    <2>3. m \in {len, PERSISTENT_IOVS} /\ m <= len
        BY <2>2, MinOfTwo
    <2> QED
        BY <2>1, <2>3
<1> HIDE DEF m
<1> QED
    BY <1>1, <1>2

\* however writev stops, the lists of the others are as they were
LEMMA Flushed ==
    ASSUME Counted(heap, outbuf), NEW c \in ClientFds, flush_writes(c)
    PROVE  \E size \in Nat \ {0} :
                /\ Taken(c, size)
                /\ owed' = [owed EXCEPT ![c] = SubSeq(@, size + 1, Len(@))]
                /\ socksetout' = IF outbuf'[c] = <<>> THEN socksetout \ {c} ELSE socksetout
<1> DEFINE bufs == outbuf[c]
<1>1. /\ Filled(heap, bufs) /\ bufs \in Seq(Nat) /\ outbuf \in [ClientFds -> BufferLists]
    BY ListsFilled DEF Counted, BufferLists
<1>2. PICK m \in 0 .. Len(bufs) : \E size, k, over, rest, kept :
                FlushStep(c, m, size, k, over, rest, kept)
    BY <1>1, FlushIs
<1>3. PICK size, k, over, rest, kept : FlushStep(c, m, size, k, over, rest, kept)
    BY <1>2
<1> DEFINE first == SubSeq(bufs, 1, k)
           lists == WithList(outbuf, c, rest)
           b == rest[1]
<1>4. /\ k \in 0 .. Len(bufs) /\ over \in Nat
      /\ over > 0 => k < Len(bufs) /\ over < Len(heap[bufs[k + 1]].bytes)
    <2>1. /\ size \in 1 .. LengthOf(SubSeq(bufs, 1, m)) /\ k = Written(bufs, size)
          /\ over = size - LengthOf(SubSeq(bufs, 1, k))
        BY <1>3 DEF FlushStep
    <2> QED
        BY <1>1, <1>2, <2>1, WrittenIs
<1>5. /\ \/ /\ over = 0
            /\ heap' = kept
            /\ outbuf' = [outbuf EXCEPT ![c] = rest]
            /\ UNCHANGED shared_cut
         \/ over > 0 /\ kept[b].refcount = 1 /\ CutOwn(c, b, rest, over, kept)
         \/ over > 0 /\ kept[b].refcount > 1 /\ CutShared(c, b, rest, over, kept)
      /\ owed' = [owed EXCEPT ![c] = SubSeq(@, size + 1, Len(@))]
      /\ socksetout' = IF rest = <<>> THEN socksetout \ {c} ELSE socksetout
    BY <1>3 DEF FlushStep, StillOut
<1>6. GivesUp(c, k, first, rest, kept, lists)
    BY <1>3, <1>4 DEF FlushStep, GivesUp
<1>7. /\ size \in Nat /\ size # 0 /\ over = size - Len(BytesOf(first))
      /\ rest = SubSeq(bufs, k + 1, Len(bufs))
    BY <1>3 DEF FlushStep, LengthOf
<1>8. over > 0 => rest # <<>> /\ b = bufs[k + 1]
    <2>1. /\ Len(rest) = Len(bufs) - k
          /\ \A i \in 1 .. Len(bufs) - k : rest[i] = bufs[k + i]
        BY <1>1, <1>4, <1>7, CutInTwo
    <2>2. over > 0 => 1 \in 1 .. Len(bufs) - k /\ Len(bufs) - k # 0
        BY <1>1, <1>4
    <2> QED
        BY <2>1, <2>2
<1> HIDE DEF first, lists, b
<1>9. GivenUp(c, first, rest, kept, lists)
    BY <1>6, Flushing
<1>10. lists = [outbuf EXCEPT ![c] = rest] /\ lists[c] = rest
    BY <1>1 DEF lists, WithList
<1>11. Len(BytesOf(first)) \in Nat
    BY <1>9 DEF GivenUp
<1>12. over = 0 => size = Len(BytesOf(first))
    BY <1>7, <1>11
<1>13. over > 0 => StopsInside(first, rest, b, over, size)
    <2> DEFINE p == Len(BytesOf(first))
    <2>1. p \in Nat /\ over = size - p /\ size \in Nat /\ over \in Nat
        BY <1>4, <1>7, <1>11
    <2> HIDE DEF p
    <2>2. size = p + over
        BY <2>1
    <2>3. ASSUME over > 0
          PROVE  /\ rest # <<>> /\ b = rest[1] /\ over \in Nat \ {0}
                 /\ over < Len(heap[b].bytes)
        BY <1>4, <1>8, <2>1, <2>3 DEF b
    <2> QED
        BY <2>2, <2>3 DEF p, StopsInside
<1>14. Taken(c, size) /\ (outbuf'[c] = <<>> <=> rest = <<>>)
    <2>1. CASE over = 0
        <3>1. heap' = kept /\ outbuf' = lists /\ shared_cut' = shared_cut
            BY <1>5, <1>10, <2>1
        <3>2. Taken(c, size)
            BY <1>9, <1>12, <2>1, <3>1, TakenWhole
        <3> QED
            BY <1>10, <3>1, <3>2
    <2>2. CASE over > 0 /\ kept[b].refcount = 1 /\ CutOwn(c, b, rest, over, kept)
        <3>1. StopsInside(first, rest, b, over, size)
            BY <1>13, <2>2
        <3>2. b \in DOMAIN kept /\ kept[b].bytes = heap[b].bytes
            <4>1. Starts(kept, lists[c], b, Tail(lists[c]))
                BY <1>9, <1>10, <3>1, FirstBuffer DEF GivenUp, StopsInside
            <4> QED
                BY <1>9, <4>1 DEF GivenUp, Starts
        <3> DEFINE bytes == Behind(heap[b].bytes, over)
        <3>3. heap' = Rewritten(kept, b, bytes) /\ outbuf' = lists /\ shared_cut' = shared_cut
            BY <1>10, <2>2, <3>2 DEF CutOwn, Rewritten, Behind
        <3> HIDE DEF bytes
        <3>4. bytes = Behind(heap[b].bytes, over)
            BY DEF bytes
        <3>5. Taken(c, size)
            BY <1>9, <2>2, <3>1, <3>3, <3>4, TakenOwn
        <3> QED
            BY <1>10, <3>3, <3>5
    <2>3. CASE over > 0 /\ kept[b].refcount > 1 /\ CutShared(c, b, rest, over, kept)
        <3>1. StopsInside(first, rest, b, over, size)
            BY <1>13, <2>3
        <3> DEFINE bytes == AllBut(heap[b].bytes, over)
        <3>2. /\ heap' = Allocate(Discounted(kept, b), bytes, 1)
              /\ outbuf' = [outbuf EXCEPT ![c] = Headed(Fresh(kept), rest)]
              /\ shared_cut' = [shared_cut EXCEPT ![c] = TRUE]
            BY <2>3 DEF CutShared, Discounted, AllBut, Headed
        <3>3. outbuf' = WithList(lists, c, Headed(Fresh(kept), rest))
            BY <1>1, <1>10, <3>2 DEF WithList
        <3> HIDE DEF bytes
        <3>4. bytes = AllBut(heap[b].bytes, over)
            BY DEF bytes
        <3>5. Taken(c, size)
            BY <1>9, <2>3, <3>1, <3>2, <3>3, <3>4, TakenShared
        <3>6. outbuf'[c] # <<>>
            <4> DEFINE tail == Tail(rest)
                       f == Fresh(kept)
            <4>1. outbuf'[c] = <<f>> \o tail
                BY <1>1, <3>2 DEF Headed
            <4>2. outbuf'[c] \in Seq(Nat)
                BY <3>5 DEF Taken, Counted, BufferLists
            <4>3. tail \in Seq(Nat)
                <5>1. Starts(kept, lists[c], b, Tail(lists[c]))
                    BY <1>9, <1>10, <3>1, FirstBuffer DEF GivenUp, StopsInside
                <5> QED
                    BY <1>10, <5>1 DEF Starts, Filled
            <4> HIDE DEF tail, f
            <4>4. Len(<<f>> \o tail) = Len(<<f>>) + Len(tail) /\ Len(<<f>>) = 1 /\ Len(tail) \in Nat
                <5>1. <<f>> \in Seq({f} \cup Nat) /\ tail \in Seq({f} \cup Nat)
                    BY <4>3
                <5> QED
                    BY <4>3, <5>1, ConcatProperties
            <4>5. Len(outbuf'[c]) # 0
                BY <4>1, <4>4
            <4> QED
                BY <4>5
        <3> QED
            BY <3>1, <3>5, <3>6 DEF StopsInside
    <2> QED
        BY <1>5, <2>1, <2>2, <2>3
<1> QED
    BY <1>5, <1>7, <1>14

-----------------------------------------------------------------------------
(* The commands in the input buffers.                                      *)

\* f[k] are the bytes of the first k commands
Running(f, cmds) ==
    f[0] = 0 /\ \A i \in 1 .. Len(cmds) : f[i] = f[i - 1] + CommandLength[cmds[i]]

LEMMA RunningExists ==
    ASSUME NEW cmds \in Seq(Commands)
    PROVE  \E f \in [0 .. Len(cmds) -> Nat] : Running(f, cmds)
<1> DEFINE N == Len(cmds)
           step == [i \in 1 .. N |-> [x \in Nat |-> x + CommandLength[cmds[i]]]]
<1>1. N \in Nat /\ 0 \in Nat
    OBVIOUS
<1>2. step \in [1 .. N -> [Nat -> Nat]]
    <2>1. ASSUME NEW i \in 1 .. N, NEW x \in Nat PROVE x + CommandLength[cmds[i]] \in Nat
        <3>1. cmds[i] \in Commands
            BY ElementOfSeq
        <3>2. CommandLength[cmds[i]] \in Nat
            BY <3>1, NetAssumption
        <3> QED
            BY <3>2
    <2> QED
        BY <2>1
<1>3. PICK f \in [0 .. N -> Nat] : Computed(f, N, 0, step)
    <2> HIDE DEF N, step
    <2> QED
        BY <1>1, <1>2, Recursion
<1>4. \A i \in 1 .. N : f[i] = f[i - 1] + CommandLength[cmds[i]]
    <2> SUFFICES ASSUME NEW i \in 1 .. N PROVE f[i] = f[i - 1] + CommandLength[cmds[i]]
        OBVIOUS
    <2>1. i - 1 \in 0 .. N
        BY <1>1
    <2>2. f[i - 1] \in Nat
        BY <2>1
    <2>3. f[i] = step[i][f[i - 1]]
        BY <1>3 DEF Computed
    <2> QED
        BY <2>2, <2>3
<1> QED
    BY <1>3, <1>4 DEF Running, Computed

LEMMA RunningIs ==
    ASSUME NEW cmds \in Seq(Commands), NEW f \in [0 .. Len(cmds) -> Int], Running(f, cmds)
    PROVE  CommandBytes(cmds) = f[Len(cmds)]
<1> DEFINE N == Len(cmds)
           Step(g) == [i \in 0 .. N |-> IF i = 0 THEN 0 ELSE g[i - 1] + CommandLength[cmds[i]]]
           chosen == CHOOSE g : g = Step(g)
<1>1. N \in Nat /\ f = [i \in 0 .. N |-> f[i]]
    OBVIOUS
<1>2. f[0] = 0 /\ \A i \in 1 .. N : f[i] = f[i - 1] + CommandLength[cmds[i]]
    BY DEF Running
<1>3. CommandBytes(cmds) = chosen[N]
    BY DEF CommandBytes
<1> HIDE DEF N
<1>4. \A i \in 0 .. N : f[i] = IF i = 0 THEN 0 ELSE f[i - 1] + CommandLength[cmds[i]]
    <2> SUFFICES ASSUME NEW i \in 0 .. N
                 PROVE  f[i] = IF i = 0 THEN 0 ELSE f[i - 1] + CommandLength[cmds[i]]
        OBVIOUS
    <2>1. i = 0 \/ i \in 1 .. N
        BY <1>1
    <2> QED
        BY <1>2, <2>1
<1>5. f = Step(f)
    BY <1>1, <1>4
<1>6. chosen = Step(chosen)
    <2> HIDE DEF Step
    <2> QED
        BY <1>5
<1> HIDE DEF chosen
<1>7. \A i \in 0 .. N : chosen[i] = IF i = 0 THEN 0 ELSE chosen[i - 1] + CommandLength[cmds[i]]
    BY <1>6
<1> DEFINE Alike == {k \in 0 .. N : chosen[k] = f[k]}
<1>8. 0 \in Alike
    <2>1. 0 \in 0 .. N
        BY <1>1
    <2> QED
        BY <1>2, <1>7, <2>1
<1>9. ASSUME NEW k \in 0 .. N - 1, k \in Alike PROVE k + 1 \in Alike
    <2>1. k + 1 \in 1 .. N /\ k + 1 \in 0 .. N /\ k + 1 # 0 /\ (k + 1) - 1 = k
        BY <1>1
    <2>2. /\ f[k + 1] = f[(k + 1) - 1] + CommandLength[cmds[k + 1]]
          /\ chosen[k + 1] = chosen[(k + 1) - 1] + CommandLength[cmds[k + 1]]
        BY <1>2, <1>7, <2>1
    <2>3. chosen[k] = f[k]
        BY <1>9
    <2>4. chosen[k + 1] = f[k + 1]
        BY <2>1, <2>2, <2>3
    <2> QED
        BY <2>1, <2>4
<1>10. N \in Alike
    <2> HIDE DEF Alike
    <2>1. \A k \in 0 .. N : k \in Alike
        BY <1>1, <1>8, <1>9, InductionUpTo
    <2> QED
        BY <1>1, <2>1
<1> QED
    BY <1>3, <1>10 DEF N

\* the bytes of the first commands and of the others
LEMMA CommandsCut ==
    ASSUME NEW cmds \in Seq(Commands), NEW k \in 0 .. Len(cmds)
    PROVE  /\ CommandBytes(SubSeq(cmds, 1, k)) \in Nat
           /\ CommandBytes(SubSeq(cmds, k + 1, Len(cmds))) \in Nat
           /\ CommandBytes(cmds) = CommandBytes(SubSeq(cmds, 1, k))
                                    + CommandBytes(SubSeq(cmds, k + 1, Len(cmds)))
           /\ k = 0 => CommandBytes(SubSeq(cmds, 1, k)) = 0
           /\ k < Len(cmds) => CommandBytes(SubSeq(cmds, 1, k + 1)) =
                    CommandBytes(SubSeq(cmds, 1, k)) + CommandLength[cmds[k + 1]]
<1> DEFINE N == Len(cmds)
<1>1. PICK f \in [0 .. N -> Nat] : Running(f, cmds)
    BY RunningExists
<1>2. /\ N \in Nat /\ f[0] = 0 /\ f[N] \in Nat
      /\ \A i \in 1 .. N : f[i] = f[i - 1] + CommandLength[cmds[i]]
    BY <1>1 DEF Running
<1>3. CommandBytes(cmds) = f[N]
    BY <1>1, RunningIs
<1>4. ASSUME NEW j \in 0 .. N PROVE CommandBytes(SubSeq(cmds, 1, j)) = f[j]
    <2> DEFINE first == SubSeq(cmds, 1, j)
               g == [i \in 0 .. j |-> f[i]]
    <2>1. first \in Seq(Commands) /\ Len(first) = j /\ \A i \in 1 .. j : first[i] = cmds[i]
        BY CutInTwo
    <2> HIDE DEF first, N
    <2>2. \A i \in 0 .. j : i \in 0 .. N /\ f[i] \in Int
        BY <1>1, <1>2
    <2>3. g \in [0 .. Len(first) -> Int] /\ g[j] = f[j]
        BY <1>2, <2>1, <2>2
    <2>4. Running(g, first)
        <3>1. g[0] = 0
            BY <1>2
        <3>2. ASSUME NEW i \in 1 .. j PROVE g[i] = g[i - 1] + CommandLength[first[i]]
            <4>1. i \in 1 .. N /\ i \in 0 .. j /\ i - 1 \in 0 .. j
                BY <1>2
            <4>2. g[i] = f[i] /\ g[i - 1] = f[i - 1] /\ first[i] = cmds[i]
                BY <2>1, <4>1
            <4> QED
                BY <1>2, <4>1, <4>2
        <3> HIDE DEF g
        <3> QED
            BY <2>1, <3>1, <3>2 DEF Running
    <2> HIDE DEF g
    <2>5. CommandBytes(first) = g[Len(first)]
        BY <2>1, <2>3, <2>4, RunningIs
    <2> QED
        BY <2>1, <2>3, <2>5 DEF first
<1>5. CommandBytes(SubSeq(cmds, k + 1, Len(cmds))) = f[N] - f[k]
    <2> DEFINE rest == SubSeq(cmds, k + 1, Len(cmds))
               m == N - k
               g == [i \in 0 .. m |-> f[k + i] - f[k]]
    <2>1. rest \in Seq(Commands) /\ Len(rest) = m /\ \A i \in 1 .. m : rest[i] = cmds[k + i]
        BY CutInTwo
    <2> HIDE DEF rest
    <2>2. m \in 0 .. N /\ k \in 0 .. N /\ N = k + m
        BY <1>2
    <2> HIDE DEF m, N
    <2>3. f[k] \in Nat /\ \A i \in 0 .. m : k + i \in 0 .. N /\ f[k + i] \in Nat
        <3>1. \A i \in 0 .. m : k + i \in 0 .. N
            BY <1>2, <2>2
        <3> QED
            BY <1>1, <2>2, <3>1
    <2>4. ASSUME NEW i \in 0 .. m PROVE f[k + i] - f[k] \in Int
        BY <2>3
    <2>5. g \in [0 .. Len(rest) -> Int] /\ g[m] = f[N] - f[k]
        BY <1>2, <2>1, <2>2, <2>4
    <2>6. Running(g, rest)
        <3>1. g[0] = 0
            <4>1. 0 \in 0 .. m /\ k + 0 = k
                BY <1>2, <2>2
            <4>2. g[0] = f[k] - f[k]
                BY <4>1
            <4> HIDE DEF g
            <4> QED
                BY <2>3, <4>2
        <3>2. ASSUME NEW i \in 1 .. m PROVE g[i] = g[i - 1] + CommandLength[rest[i]]
            <4>1. /\ k + i \in 1 .. N /\ i \in 0 .. m /\ i - 1 \in 0 .. m
                  /\ k + (i - 1) = (k + i) - 1
                BY <1>2, <2>2
            <4>2. /\ g[i] = f[k + i] - f[k] /\ g[i - 1] = f[(k + i) - 1] - f[k]
                  /\ rest[i] = cmds[k + i]
                BY <2>1, <4>1
            <4>3. f[k + i] = f[(k + i) - 1] + CommandLength[cmds[k + i]]
                BY <1>2, <4>1
            <4>4. CommandLength[cmds[k + i]] \in Nat
                <5>1. cmds[k + i] \in Commands
                    BY <4>1, ElementOfSeq DEF N
                <5> QED
                    BY <5>1, NetAssumption
            <4> DEFINE a == f[k + i]
                       b == f[(k + i) - 1]
                       d == f[k]
                       len == CommandLength[cmds[k + i]]
            <4>5. b \in Nat /\ d \in Nat /\ len \in Nat /\ a = b + len
                BY <2>3, <4>1, <4>3, <4>4
            <4>6. g[i] = a - d /\ g[i - 1] = b - d
                BY <4>2
            <4> HIDE DEF a, b, d, g, len
            <4>7. g[i] = g[i - 1] + len
                BY <4>5, <4>6
            <4> QED
                BY <4>2, <4>7 DEF len
        <3> HIDE DEF g
        <3> QED
            BY <2>1, <3>1, <3>2 DEF Running
    <2> HIDE DEF g
    <2>7. CommandBytes(rest) = g[Len(rest)]
        BY <2>1, <2>5, <2>6, RunningIs
    <2> QED
        BY <2>1, <2>5, <2>7 DEF rest
<1>6. f[k] \in Nat /\ CommandBytes(SubSeq(cmds, 1, k)) = f[k]
    BY <1>1, <1>4
<1>7. f[k] <= f[N]
    <2> DEFINE Below == {j \in 0 .. N : j < k \/ f[k] <= f[j]}
    <2>1. 0 \in Below
        BY <1>2, <1>6
    <2>2. ASSUME NEW j \in 0 .. N - 1, j \in Below PROVE j + 1 \in Below
        <3>1. j + 1 \in 1 .. N /\ (j + 1) - 1 = j /\ j \in 0 .. N /\ j + 1 \in 0 .. N
            BY <1>2
        <3>2. f[j + 1] = f[j] + CommandLength[cmds[j + 1]]
            BY <1>2, <3>1
        <3>3. CommandLength[cmds[j + 1]] \in Nat /\ f[j] \in Nat
            <4>1. cmds[j + 1] \in Commands
                BY <3>1, ElementOfSeq
            <4> QED
                BY <1>1, <3>1, <4>1, NetAssumption
        <3>4. f[j] <= f[j + 1]
            BY <3>2, <3>3
        <3>5. j + 1 < k \/ f[k] <= f[j + 1]
            <4>1. CASE j + 1 < k
                BY <4>1
            <4>2. CASE j + 1 = k
                BY <1>6, <4>2
            <4>3. CASE j + 1 > k
                <5>1. f[k] <= f[j]
                    BY <2>2, <4>3
                <5>2. f[j + 1] \in Nat
                    BY <1>1, <3>1
                <5> QED
                    BY <1>6, <3>3, <3>4, <5>1, <5>2
            <4> QED
                BY <4>1, <4>2, <4>3
        <3> QED
            BY <3>1, <3>5
    <2>3. N \in Below
        <3> HIDE DEF Below, N
        <3>1. \A j \in 0 .. N : j \in Below
            BY <1>2, <2>1, <2>2, InductionUpTo
        <3> QED
            BY <1>2, <3>1
    <2> QED
        BY <2>3
<1>8. f[N] - f[k] \in Nat /\ f[N] = f[k] + (f[N] - f[k])
    BY <1>2, <1>6, <1>7
<1>9. ASSUME k < N
      PROVE CommandBytes(SubSeq(cmds, 1, k + 1)) = f[k] + CommandLength[cmds[k + 1]]
    <2>1. k + 1 \in 1 .. N /\ k + 1 \in 0 .. N /\ (k + 1) - 1 = k
        BY <1>2, <1>9
    <2> QED
        BY <1>2, <1>4, <2>1
<1> QED
    BY <1>2, <1>3, <1>5, <1>6, <1>8, <1>9

LEMMA CommandsAppended ==
    /\ CommandBytes(<<>>) = 0
    /\ \A cmds \in Seq(Commands) :
        /\ CommandBytes(cmds) \in Nat
        /\ \A cmd \in Commands :
            CommandBytes(Append(cmds, cmd)) = CommandBytes(cmds) + CommandLength[cmd]
<1> DEFINE none == <<>>
<1>1. CommandBytes(none) = 0
    <2>1. none \in Seq(Commands) /\ 0 \in 0 .. Len(none) /\ SubSeq(none, 1, 0) = none
        OBVIOUS
    <2> DEFINE zero == 0
    <2> HIDE DEF none
    <2>2. zero \in 0 .. Len(none) /\ zero = 0
        BY <2>1
    <2> HIDE DEF zero
    <2>3. CommandBytes(SubSeq(none, 1, zero)) = 0
        BY <2>1, <2>2, CommandsCut
    <2> QED
        BY <2>1, <2>2, <2>3
<1>2. ASSUME NEW cmds \in Seq(Commands)
      PROVE  /\ CommandBytes(cmds) \in Nat
             /\ \A cmd \in Commands :
                    CommandBytes(Append(cmds, cmd)) = CommandBytes(cmds) + CommandLength[cmd]
    <2>1. CommandBytes(cmds) \in Nat
        <3> DEFINE N == Len(cmds)
        <3>1. N \in 0 .. Len(cmds) /\ SubSeq(cmds, 1, N) = cmds
            BY SubSeqFull
        <3> HIDE DEF N
        <3>2. CommandBytes(SubSeq(cmds, 1, N)) \in Nat
            BY <3>1, CommandsCut
        <3> QED
            BY <3>1, <3>2
    <2>2. ASSUME NEW cmd \in Commands
          PROVE  CommandBytes(Append(cmds, cmd)) = CommandBytes(cmds) + CommandLength[cmd]
        <3> DEFINE all == Append(cmds, cmd)
                   k == Len(cmds)
        <3>1. /\ all \in Seq(Commands) /\ Len(all) = k + 1 /\ k \in Nat /\ all[k + 1] = cmd
              /\ SubSeq(all, 1, k) = cmds
            OBVIOUS
        <3>2. SubSeq(all, 1, Len(all)) = all
            BY <3>1, SubSeqFull
        <3> HIDE DEF all, k
        <3>3. k \in 0 .. Len(all) /\ k < Len(all)
            BY <3>1
        <3>4. CommandBytes(SubSeq(all, 1, k + 1)) =
                CommandBytes(SubSeq(all, 1, k)) + CommandLength[all[k + 1]]
            BY <3>1, <3>3, CommandsCut
        <3>5. CommandBytes(all) = CommandBytes(cmds) + CommandLength[cmd]
            BY <3>1, <3>2, <3>4
        <3> QED
            BY <3>5 DEF all
    <2> QED
        BY <2>1, <2>2
<1> QED
    BY <1>1, <1>2

\* What handle_data leaves of the first `size' bytes: less than a command,
\* unless the command is refused.
LeavesPart(c, size, h, r) ==
    /\ h = Handled(c, size) /\ h \in 0 .. Len(unread[c])
    /\ r = Rest(c, size) /\ r \in Nat /\ r <= size
    /\ r <= CommandBytes(SubSeq(unread[c], h + 1, Len(unread[c])))
    /\ r > 0 => h < Len(unread[c])
    /\ h < Len(unread[c]) => /\ unread[c][h + 1] \in Commands
                             /\ unread[c][h + 1] \in Refused \/ r < CommandLength[unread[c][h + 1]]

LEMMA PartLeft ==
    ASSUME NEW c, unread[c] \in Seq(Commands), NEW size \in Nat, size <= CommandBytes(unread[c])
    PROVE  LeavesPart(c, size, Handled(c, size), Rest(c, size))
<1> DEFINE u == unread[c]
           N == Len(u)
           S == Complete(c, size)
           h == Handled(c, size)
           first == SubSeq(u, 1, h)
           rest == SubSeq(u, h + 1, Len(u))
           r == Rest(c, size)
<1>1. u \in Seq(Commands) /\ N \in Nat
    OBVIOUS
<1>2. \A k : k \in S <=> /\ k \in 0 .. N /\ CommandBytes(SubSeq(u, 1, k)) <= size
                         /\ \A i \in 1 .. k : u[i] \notin Refused
    BY DEF Complete
<1>3. 0 \in S
    <2> DEFINE zero == 0
    <2>1. zero \in 0 .. Len(u) /\ zero = 0
        BY <1>1
    <2> HIDE DEF zero, u
    <2>2. CommandBytes(SubSeq(u, 1, zero)) = 0
        BY <1>1, <2>1, CommandsCut
    <2>3. zero \in S
        BY <1>1, <1>2, <2>1, <2>2
    <2> QED
        BY <2>1, <2>3
<1>4. S \in SUBSET (0 .. N)
    BY <1>2
<1>5. h \in S /\ \A k \in S : k <= h
    <2>1. h = Max(S)
        BY DEF Handled
    <2> HIDE DEF S, N, h
    <2> QED
        BY <1>1, <1>3, <1>4, <2>1, MaxUpTo
<1>6. h \in 0 .. N /\ CommandBytes(first) <= size /\ \A i \in 1 .. h : u[i] \notin Refused
    BY <1>2, <1>5
<1>7. r = size - CommandBytes(first)
    BY DEF Rest
<1> HIDE DEF u, S, h, r
<1>8. /\ CommandBytes(first) \in Nat /\ CommandBytes(rest) \in Nat
      /\ CommandBytes(u) = CommandBytes(first) + CommandBytes(rest)
      /\ h < Len(u) => CommandBytes(SubSeq(u, 1, h + 1)) = CommandBytes(first) + CommandLength[u[h + 1]]
    BY <1>1, <1>6, CommandsCut
<1>9. size <= CommandBytes(u)
    BY DEF u
<1> DEFINE a == CommandBytes(first)
           b == CommandBytes(rest)
<1>10. r \in Nat /\ r <= size /\ r <= b
    <2>1. a \in Nat /\ b \in Nat /\ a <= size /\ size <= a + b /\ r = size - a
        BY <1>6, <1>7, <1>8, <1>9
    <2> HIDE DEF a, b
    <2> QED
        BY <2>1
<1>11. r > 0 => h < N
    <2>1. ASSUME h = N PROVE b = 0
        <3>1. rest = <<>>
            <4>1. Len(rest) = Len(u) - h /\ rest \in Seq(Commands)
                BY <1>1, <1>6, CutInTwo
            <4>2. Len(rest) = 0
                BY <1>1, <2>1, <4>1
            <4> HIDE DEF rest
            <4> QED
                BY <4>1, <4>2, EmptySeq
        <3> QED
            BY <3>1, CommandsAppended
    <2> QED
        BY <1>1, <1>6, <1>10, <2>1
<1>12. ASSUME h < N
       PROVE  u[h + 1] \in Commands /\ (u[h + 1] \in Refused \/ r < CommandLength[u[h + 1]])
    <2>1. h + 1 \in 1 .. N /\ h + 1 \in 0 .. N /\ ~(h + 1 <= h)
        BY <1>1, <1>6, <1>12
    <2>2. u[h + 1] \in Commands /\ CommandLength[u[h + 1]] \in Nat
        <3>1. u[h + 1] \in Commands
            BY <1>1, <2>1, ElementOfSeq
        <3> QED
            BY <3>1, NetAssumption
    <2>3. h + 1 \notin S
        BY <1>5, <2>1
    <2>4. ASSUME u[h + 1] \notin Refused PROVE r < CommandLength[u[h + 1]]
        <3>1. \A i \in 1 .. h + 1 : u[i] \notin Refused
            <4>1. \A i \in 1 .. h + 1 : i \in 1 .. h \/ i = h + 1
                BY <1>6
            <4> QED
                BY <1>6, <2>4, <4>1
        <3>2. ~(CommandBytes(SubSeq(u, 1, h + 1)) <= size)
            BY <1>2, <2>1, <2>3, <3>1
        <3> DEFINE len == CommandLength[u[h + 1]]
        <3>3. len \in Nat /\ a \in Nat /\ r = size - a /\ ~(a + len <= size)
            BY <1>7, <1>8, <1>12, <2>2, <3>2
        <3> HIDE DEF len, a
        <3>4. r < len
            BY <3>3
        <3> QED
            BY <3>4 DEF len
    <2> QED
        BY <2>2, <2>4
<1> QED
    BY <1>6, <1>10, <1>11, <1>12 DEF LeavesPart, u, h, r

\* the first command of the client is not complete in its input buffer
Waits(c) == unread[c] = <<>> \/ inbuf_pos[c] < CommandLength[unread[c][1]]

\* the client may be dropped for what it did
Excused(c) ==
    \/ gone[c]
    \/ /\ unread[c] # <<>>
       /\ unread[c][1] \in Refused \/ CommandLength[unread[c][1]] > INBUF_SIZE

\* the loop is about to drop the client
Doomed(c) == lost /\ at = c /\ pc \in {"write", "next"}

InputTypes ==
    /\ unread \in [ClientFds -> Seq(Commands)]
    /\ inbuf_pos \in [ClientFds -> 0 .. INBUF_SIZE]
    /\ gone \in [ClientFds -> BOOLEAN] /\ lost \in BOOLEAN

\* what is in an input buffer was sent; it is the beginning of a command only
InputRight ==
    \A c \in ClientFds : /\ inbuf_pos[c] <= CommandBytes(unread[c])
                         /\ Waits(c) \/ Doomed(c)

LostRight ==
    /\ pc = "read" => ~lost
    /\ pc = "write" /\ lost => Excused(at)

InputInv == InputTypes /\ InputRight /\ LostRight

LEMMA InitInput == Init => InputInv
<1> SUFFICES ASSUME Init PROVE InputInv
    OBVIOUS
<1>1. /\ unread = [c \in ClientFds |-> <<>>] /\ inbuf_pos = [c \in ClientFds |-> 0]
      /\ gone = [c \in ClientFds |-> FALSE] /\ lost = FALSE /\ pc = "prepare"
    BY DEF Init
<1>2. 0 \in 0 .. INBUF_SIZE /\ <<>> \in Seq(Commands)
    BY NetAssumption
<1>3. InputTypes
    BY <1>1, <1>2 DEF InputTypes
<1>4. InputRight
    <2>1. ASSUME NEW c \in ClientFds
          PROVE  unread[c] = <<>> /\ inbuf_pos[c] <= CommandBytes(unread[c])
        <3>1. unread[c] = <<>> /\ inbuf_pos[c] = 0 /\ CommandBytes(<<>>) = 0
            BY <1>1, CommandsAppended
        <3> QED
            BY <3>1
    <2> QED
        BY <2>1 DEF InputRight, Waits
<1>5. LostRight
    BY <1>1 DEF LostRight
<1> QED
    BY <1>3, <1>4, <1>5 DEF InputInv

\* steps that leave the input alone: a doomed client stays doomed
LEMMA InputLeft ==
    ASSUME InputInv, unread' = unread, inbuf_pos' = inbuf_pos, gone' = gone,
           lost' \in BOOLEAN, \A c : Doomed(c) => Doomed(c)', LostRight'
    PROVE  InputInv'
<1>1. InputTypes'
    BY DEF InputInv, InputTypes
<1>2. InputRight'
    BY DEF InputInv, InputRight, Waits
<1> QED
    BY <1>1, <1>2 DEF InputInv

\* so do those that do not come near a client
LEMMA InputElsewhere ==
    ASSUME InputInv, unread' = unread, inbuf_pos' = inbuf_pos, gone' = gone,
           lost' = lost, at' = at,
           \/ pc' = pc
           \/ pc \notin {"read", "write", "next"} /\ pc' \notin {"read", "write", "next"}
    PROVE  InputInv'
<1>1. /\ lost' \in BOOLEAN /\ \A c : Doomed(c) => Doomed(c)'
    BY DEF InputInv, InputTypes, Doomed
<1>2. LostRight'
    BY DEF InputInv, LostRight, Excused
<1> QED
    BY <1>1, <1>2, InputLeft

\* a new client's input buffer is empty
LEMMA ListenInput ==
    ASSUME InputInv, Listen
    PROVE  InputInv'
<1>1. /\ pc = "listen" /\ pc' = "control" /\ unread' = unread /\ gone' = gone
      /\ lost' = lost /\ at' = at
    BY DEF Listen
<1>2. CASE inbuf_pos' = inbuf_pos
    BY <1>1, <1>2, InputElsewhere
<1>3. ASSUME NEW c \in ClientFds, inbuf_pos' = [inbuf_pos EXCEPT ![c] = 0] PROVE InputInv'
    <2>1. /\ inbuf_pos \in [ClientFds -> 0 .. INBUF_SIZE]
          /\ unread \in [ClientFds -> Seq(Commands)]
          /\ \A d \in ClientFds : /\ inbuf_pos[d] <= CommandBytes(unread[d])
                                  /\ Waits(d)
        BY <1>1 DEF InputInv, InputTypes, InputRight, Doomed
    <2>2. 0 \in 0 .. INBUF_SIZE
        BY NetAssumption
    <2>3. InputTypes'
        BY <1>1, <1>3, <2>1, <2>2 DEF InputInv, InputTypes
    <2>4. ASSUME NEW d \in ClientFds
          PROVE  /\ inbuf_pos'[d] <= CommandBytes(unread'[d])
                 /\ unread'[d] = <<>> \/ inbuf_pos'[d] < CommandLength[unread'[d][1]]
        <3>1. CASE d # c
            BY <1>1, <1>3, <2>1, <3>1 DEF Waits
        <3>2. CASE d = c
            <4>1. inbuf_pos'[d] = 0 /\ unread'[d] = unread[d] /\ unread[d] \in Seq(Commands)
                BY <1>1, <1>3, <2>1, <3>2
            <4>2. CommandBytes(unread[d]) \in Nat
                BY <4>1, CommandsAppended
            <4>3. unread[d] # <<>> => CommandLength[unread[d][1]] \in Nat \ {0}
                <5>1. unread[d] # <<>> => unread[d][1] \in Commands
                    BY <4>1
                <5> QED
                    BY <5>1, NetAssumption
            <4> QED
                BY <4>1, <4>2, <4>3
        <3> QED
            BY <3>1, <3>2
    <2>5. InputRight'
        BY <2>4 DEF InputRight, Waits
    <2>6. LostRight'
        BY <1>1 DEF LostRight
    <2> QED
        BY <2>3, <2>5, <2>6 DEF InputInv
<1> QED
    BY <1>2, <1>3 DEF Listen, accept_client

\* commands that are sent come after those that are there
LEMMA SubmitInput ==
    ASSUME InputInv, NEW c \in ClientFds, Submit(c)
    PROVE  InputInv'
<1>1. PICK cmd \in Commands : unread' = [unread EXCEPT ![c] = Append(@, cmd)]
    BY DEF Submit
<1>2. UNCHANGED <<inbuf_pos, gone, lost, at, pc>>
    BY DEF Submit
<1>3. /\ inbuf_pos \in [ClientFds -> 0 .. INBUF_SIZE]
      /\ unread \in [ClientFds -> Seq(Commands)]
      /\ \A d \in ClientFds : /\ inbuf_pos[d] <= CommandBytes(unread[d])
                              /\ Waits(d) \/ Doomed(d)
    BY DEF InputInv, InputTypes, InputRight
<1> DEFINE u == unread[c]
           all == Append(u, cmd)
<1>4. /\ u \in Seq(Commands) /\ all \in Seq(Commands) /\ all # <<>>
      /\ u # <<>> => all[1] = u[1]
      /\ u = <<>> => all[1] = cmd
    <2>1. u \in Seq(Commands)
        BY <1>3
    <2> HIDE DEF u
    <2> QED
        BY <2>1
<1>5. unread'[c] = all /\ \A d \in ClientFds \ {c} : unread'[d] = unread[d]
    BY <1>1, <1>3
<1>6. unread' \in [ClientFds -> Seq(Commands)]
    BY <1>1, <1>3, <1>4
<1> HIDE DEF all
<1>7. InputTypes'
    BY <1>2, <1>6 DEF InputInv, InputTypes
<1>8. /\ CommandBytes(u) \in Nat /\ CommandBytes(all) = CommandBytes(u) + CommandLength[cmd]
      /\ CommandLength[cmd] \in Nat \ {0} /\ inbuf_pos[c] \in Nat /\ CommandBytes(<<>>) = 0
    <2>1. CommandLength[cmd] \in Nat \ {0} /\ inbuf_pos[c] \in Nat
        BY <1>3, NetAssumption
    <2> QED
        BY <1>4, <2>1, CommandsAppended DEF all
<1>9. inbuf_pos[c] <= CommandBytes(u) /\ (Waits(c) \/ Doomed(c))
    BY <1>3
<1>10. inbuf_pos[c] <= CommandBytes(all)
    BY <1>8, <1>9
<1>11. Waits(c) => inbuf_pos[c] < CommandLength[all[1]]
    <2>1. CASE u = <<>>
        <3>1. inbuf_pos[c] <= 0 /\ all[1] = cmd
            BY <1>4, <1>8, <1>9, <2>1
        <3> QED
            BY <1>8, <3>1
    <2>2. CASE u # <<>>
        BY <1>4, <2>2 DEF Waits
    <2> QED
        BY <2>1, <2>2
<1>12. InputRight'
    <2>1. ASSUME NEW d \in ClientFds
          PROVE  /\ inbuf_pos'[d] <= CommandBytes(unread'[d])
                 /\ \/ unread'[d] = <<>> \/ inbuf_pos'[d] < CommandLength[unread'[d][1]]
                    \/ Doomed(d)'
        <3>0. Doomed(d) => Doomed(d)'
            BY <1>2 DEF Doomed
        <3>1. CASE d = c
            BY <1>2, <1>5, <1>9, <1>10, <1>11, <3>0, <3>1
        <3>2. CASE d # c
            BY <1>2, <1>3, <1>5, <3>0, <3>2 DEF Waits
        <3> QED
            BY <3>1, <3>2
    <2> QED
        BY <2>1 DEF InputRight, Waits
<1>13. LostRight'
    <2>1. \A d : Excused(d) /\ d \in ClientFds => Excused(d)'
        BY <1>2, <1>4, <1>5 DEF Excused
    <2>2. ASSUME pc = "write", lost, Excused(at) PROVE Excused(at)'
        <3>1. CASE at = c
            BY <1>2, <2>1, <2>2, <3>1 DEF Excused
        <3>2. CASE at # c
            BY <1>1, <1>2, <1>3, <2>2, <3>2 DEF Excused
        <3> QED
            BY <3>1, <3>2
    <2> QED
        BY <1>2, <2>2 DEF InputInv, LostRight
<1> QED
    BY <1>7, <1>12, <1>13 DEF InputInv

\* what a read of size bytes leaves: the rest of a command in an input buffer
LEMMA ReadInput ==
    ASSUME InputInv, NEW c \in ClientFds, ReadCommands(c)
    PROVE  InputInv'
<1>1. PICK size \in Sizes(c) :
        /\ unread' = [unread EXCEPT ![c] = SubSeq(@, Len(SubSeq(unread[c], 1, Handled(c, size))) + 1, Len(@))]
        /\ inbuf_pos' = [inbuf_pos EXCEPT ![c] = Rest(c, size)]
        /\ lost' = (Refuses(c, size) \/ Full(c, size))
    BY DEF ReadCommands
<1>2. pc = "read" /\ pc' = "write" /\ at = c /\ at' = at /\ gone' = gone
    BY DEF ReadCommands, Turn
<1>3. /\ inbuf_pos \in [ClientFds -> 0 .. INBUF_SIZE]
      /\ unread \in [ClientFds -> Seq(Commands)] /\ gone \in [ClientFds -> BOOLEAN]
      /\ \A d \in ClientFds : inbuf_pos[d] <= CommandBytes(unread[d]) /\ Waits(d)
    BY <1>2 DEF InputInv, InputTypes, InputRight, Doomed
<1> DEFINE u == unread[c]
           N == Len(u)
           h == Handled(c, size)
           r == Rest(c, size)
           left == SubSeq(u, h + 1, N)
<1>4. u \in Seq(Commands) /\ N \in Nat /\ inbuf_pos[c] \in Nat /\ INBUF_SIZE \in Nat
    BY <1>3, NetAssumption
<1>5. size \in Nat /\ size <= CommandBytes(u) /\ size <= INBUF_SIZE
    <2> DEFINE pos == inbuf_pos[c]
               all == CommandBytes(u)
               here == pos + Arrived(c)
               most == Min({here, INBUF_SIZE})
    <2>1. all \in Nat
        BY <1>4, CommandsAppended
    <2>2. Arrived(c) = all - pos
        BY DEF Arrived
    <2>3. size \in (pos + 1) .. most
        BY <1>1 DEF Sizes
    <2> HIDE DEF pos, all, u
    <2>4. pos \in Nat
        BY <1>4 DEF pos
    <2>5. here = all
        BY <2>1, <2>2, <2>4
    <2> HIDE DEF here
    <2>6. here \in Int /\ INBUF_SIZE \in Int
        BY <1>4, <2>1, <2>5
    <2>7. most \in {here, INBUF_SIZE} /\ most <= here /\ most <= INBUF_SIZE
        BY <2>6, MinOfTwo
    <2> HIDE DEF most
    <2>8. size \in Nat /\ size <= all /\ size <= INBUF_SIZE
        BY <1>4, <2>1, <2>3, <2>4, <2>5, <2>7
    <2> QED
        BY <2>8 DEF all
<1>6. LeavesPart(c, size, h, r)
    BY <1>4, <1>5, PartLeft
<1>7. /\ h \in 0 .. N /\ r \in Nat /\ r <= size /\ r <= CommandBytes(left)
      /\ r > 0 => h < N
      /\ h < N => /\ u[h + 1] \in Commands
                  /\ u[h + 1] \in Refused \/ r < CommandLength[u[h + 1]]
    BY <1>6 DEF LeavesPart
<1>8. /\ left \in Seq(Commands) /\ Len(left) = N - h
      /\ \A i \in 1 .. N - h : left[i] = u[h + i]
      /\ Len(SubSeq(u, 1, h)) = h
    <2> HIDE DEF u, h, r
    <2>1. /\ SubSeq(u, h + 1, Len(u)) \in Seq(Commands) /\ Len(SubSeq(u, h + 1, Len(u))) = Len(u) - h
          /\ \A i \in 1 .. Len(u) - h : SubSeq(u, h + 1, Len(u))[i] = u[h + i]
          /\ Len(SubSeq(u, 1, h)) = h
        <3>1. u \in Seq(Commands) /\ h \in 0 .. Len(u)
            BY <1>4, <1>7
        <3> QED
            BY <3>1, CutInTwo
    <2> QED
        BY <2>1
<1>9. lost' = (Refuses(c, size) \/ Full(c, size))
    BY <1>1
<1>10. (Refuses(c, size) <=> (r > 0 /\ u[h + 1] \in Refused)) /\ (Full(c, size) <=> r = INBUF_SIZE)
    BY DEF Refuses, Full
<1>11. unread' = [unread EXCEPT ![c] = left] /\ inbuf_pos' = [inbuf_pos EXCEPT ![c] = r]
    <2>1. unread' = [unread EXCEPT ![c] = SubSeq(@, Len(SubSeq(u, 1, h)) + 1, Len(@))]
        BY <1>1
    <2> QED
        BY <1>1, <1>3, <1>8, <2>1
<1> HIDE DEF u, N, h, r, left
<1>12. /\ unread'[c] = left /\ inbuf_pos'[c] = r
       /\ \A d \in ClientFds \ {c} : unread'[d] = unread[d] /\ inbuf_pos'[d] = inbuf_pos[d]
    BY <1>3, <1>11
<1>13. InputTypes'
    <2>1. r \in 0 .. INBUF_SIZE
        BY <1>4, <1>5, <1>7
    <2>2. lost' \in BOOLEAN
        BY <1>9
    <2> QED
        BY <1>2, <1>3, <1>8, <1>11, <2>1, <2>2 DEF InputTypes
<1>14. h < N => left # <<>> /\ left[1] = u[h + 1] /\ CommandLength[left[1]] \in Nat \ {0}
    <2>1. h < N => 1 \in 1 .. N - h /\ N - h # 0
        BY <1>4, <1>7
    <2>2. h < N => left # <<>> /\ left[1] = u[h + 1]
        BY <1>8, <2>1
    <2> QED
        BY <1>7, <2>2, NetAssumption
<1>15. h = N => left = <<>>
    <2>1. h = N => Len(left) = 0
        BY <1>4, <1>8
    <2> QED
        BY <1>8, <2>1, EmptySeq
<1>16. left = <<>> \/ r < CommandLength[left[1]] \/ (r > 0 /\ u[h + 1] \in Refused)
    <2>1. CASE h = N
        BY <1>15, <2>1
    <2>2. CASE h < N
        BY <1>7, <1>14, <2>2
    <2> QED
        BY <1>4, <1>7, <2>1, <2>2
<1>17. InputRight'
    <2>1. ASSUME NEW d \in ClientFds
          PROVE  /\ inbuf_pos'[d] <= CommandBytes(unread'[d])
                 /\ \/ unread'[d] = <<>> \/ inbuf_pos'[d] < CommandLength[unread'[d][1]]
                    \/ Doomed(d)'
        <3>1. CASE d = c
            <4>1. r > 0 /\ u[h + 1] \in Refused => Doomed(c)'
                BY <1>2, <1>9, <1>10 DEF Doomed
            <4> QED
                BY <1>7, <1>12, <1>16, <3>1, <4>1
        <3>2. CASE d # c
            BY <1>3, <1>12, <3>2 DEF Waits
        <3> QED
            BY <3>1, <3>2
    <2> QED
        BY <2>1 DEF InputRight, Waits
<1>18. LostRight'
    <2>1. ASSUME lost'
          PROVE  /\ unread'[c] # <<>>
                 /\ unread'[c][1] \in Refused \/ CommandLength[unread'[c][1]] > INBUF_SIZE
        <3>1. (r > 0 /\ u[h + 1] \in Refused) \/ r = INBUF_SIZE
            BY <1>9, <1>10, <2>1
        <3>2. INBUF_SIZE > 0
            BY NetAssumption
        <3>3. r > 0
            BY <1>4, <3>1, <3>2
        <3>4. h < N /\ left # <<>> /\ left[1] = u[h + 1] /\ CommandLength[left[1]] \in Nat
            BY <1>7, <1>14, <3>3
        <3>5. left[1] \in Refused \/ CommandLength[left[1]] > INBUF_SIZE
            <4>1. CASE u[h + 1] \in Refused
                BY <3>4, <4>1
            <4>2. CASE u[h + 1] \notin Refused
                <5>1. r = INBUF_SIZE /\ r < CommandLength[left[1]]
                    BY <1>7, <3>1, <3>4, <4>2
                <5> QED
                    BY <1>4, <3>4, <5>1
            <4> QED
                BY <4>1, <4>2
        <3> QED
            BY <1>12, <3>4, <3>5
    <2> QED
        BY <1>2, <2>1 DEF LostRight, Excused
<1> QED
    BY <1>13, <1>17, <1>18 DEF InputInv

\* a client that is dropped leaves nothing
LEMMA DropInput ==
    ASSUME InputInv, NEW c \in ClientFds, Drop(c)
    PROVE  InputInv'
<1>1. /\ pc = "next" /\ pc' = "read" /\ at = c /\ lost' = FALSE
      /\ inbuf_pos' = [inbuf_pos EXCEPT ![c] = 0]
      /\ unread' = [unread EXCEPT ![c] = <<>>]
      /\ gone' = [gone EXCEPT ![c] = FALSE]
    BY DEF Drop
<1>2. /\ inbuf_pos \in [ClientFds -> 0 .. INBUF_SIZE]
      /\ unread \in [ClientFds -> Seq(Commands)] /\ gone \in [ClientFds -> BOOLEAN]
      /\ \A d \in ClientFds : /\ inbuf_pos[d] <= CommandBytes(unread[d])
                              /\ d # c => Waits(d)
    BY <1>1 DEF InputInv, InputTypes, InputRight, Doomed
<1>3. InputTypes'
    <2>1. 0 \in 0 .. INBUF_SIZE /\ <<>> \in Seq(Commands)
        BY NetAssumption
    <2> QED
        BY <1>1, <1>2, <2>1 DEF InputTypes
<1>4. InputRight'
    <2>1. ASSUME NEW d \in ClientFds
          PROVE  /\ inbuf_pos'[d] <= CommandBytes(unread'[d])
                 /\ unread'[d] = <<>> \/ inbuf_pos'[d] < CommandLength[unread'[d][1]]
        <3>1. CASE d = c
            <4>1. inbuf_pos'[d] = 0 /\ unread'[d] = <<>> /\ CommandBytes(<<>>) = 0
                BY <1>1, <1>2, <3>1, CommandsAppended
            <4> QED
                BY <4>1
        <3>2. CASE d # c
            BY <1>1, <1>2, <3>2 DEF Waits
        <3> QED
            BY <3>1, <3>2
    <2> QED
        BY <2>1 DEF InputRight, Waits
<1>5. LostRight'
    BY <1>1 DEF LostRight
<1> QED
    BY <1>3, <1>4, <1>5 DEF InputInv

\* no step breaks it
LEMMA NextInput == InputInv /\ [Next]_vars => InputInv'
<1> SUFFICES ASSUME InputInv, [Next]_vars PROVE InputInv'
    OBVIOUS
<1>1. CASE \/ Prepare \/ Select \/ Interrupted \/ Broadcast \/ wakeup_select \/ Connect
           \/ UNCHANGED vars \/ LoopDone \/ \E c \in ClientFds : ReadBlocks(c)
    <2> DEFINE stops == LoopDone \/ \E c \in ClientFds : ReadBlocks(c)
    <2>1. UNCHANGED <<unread, inbuf_pos, gone, lost, at>>
        BY <1>1 DEF Prepare, Select, SelectReports, Interrupted, Broadcast, wakeup_select,
                    Connect, vars, clients, LoopDone, ReadBlocks
    <2>2. CASE stops
        <3>1. ~lost /\ pc' \in {"prepare", "blocked"}
            BY <2>2 DEF InputInv, LostRight, LoopDone, ReadBlocks, Turn
        <3>2. /\ lost' \in BOOLEAN /\ \A c : Doomed(c) => Doomed(c)'
            BY <2>1, <3>1 DEF InputInv, InputTypes, Doomed
        <3>3. LostRight'
            BY <3>1 DEF LostRight
        <3> QED
            BY <2>1, <3>2, <3>3, InputLeft
    <2>3. CASE ~stops
        <3>1. \/ pc' = pc
              \/ pc \notin {"read", "write", "next"} /\ pc' \notin {"read", "write", "next"}
            BY <1>1, <2>3 DEF Prepare, Select, SelectReports, Interrupted, Broadcast,
                    wakeup_select, Connect, vars
        <3> QED
            BY <2>1, <3>1, InputElsewhere
    <2> QED
        BY <2>2, <2>3
<1>2. CASE Listen
    BY <1>2, ListenInput
<1>3. CASE Control
    <2>1. UNCHANGED <<unread, inbuf_pos, gone>> /\ pc = "control" /\ lost' = FALSE
        BY <1>3 DEF Control, clients
    <2>2. lost' \in BOOLEAN /\ (\A c : Doomed(c) => Doomed(c)') /\ LostRight'
        BY <2>1 DEF Doomed, LostRight
    <2> QED
        BY <2>1, <2>2, InputLeft
<1>4. CASE NothingToRead \/ \E c \in ClientFds : ReadNothing(c)
    <2>1. UNCHANGED <<unread, inbuf_pos, gone, at>> /\ pc = "read" /\ pc' = "write"
        BY <1>4 DEF NothingToRead, ReadNothing, Turn, clients
    <2>2. ~lost
        BY <2>1 DEF InputInv, LostRight
    <2>3. lost' = lost \/ (lost' = TRUE /\ gone[at])
        BY <1>4 DEF NothingToRead, ReadNothing
    <2>4. lost' \in BOOLEAN /\ \A c : Doomed(c) => Doomed(c)'
        BY <2>2, <2>3 DEF Doomed, InputInv, InputTypes
    <2>5. LostRight'
        BY <2>1, <2>2, <2>3 DEF LostRight, Excused
    <2> QED
        BY <2>1, <2>4, <2>5, InputLeft
<1>5. ASSUME NEW c \in ClientFds, ReadCommands(c) PROVE InputInv'
    BY <1>5, ReadInput
<1>6. CASE NothingToWrite \/ \E c \in ClientFds : Write(c)
    <2>1. UNCHANGED <<unread, inbuf_pos, gone, at>> /\ pc' = "next"
        BY <1>6 DEF NothingToWrite, Write, clients
    <2>2. lost' = lost \/ lost' = TRUE
        BY <1>6 DEF NothingToWrite, Write
    <2>3. lost' \in BOOLEAN /\ \A c : Doomed(c) => Doomed(c)'
        BY <2>1, <2>2 DEF Doomed, InputInv, InputTypes
    <2>4. LostRight'
        BY <2>1 DEF LostRight
    <2> QED
        BY <2>1, <2>3, <2>4, InputLeft
<1>7. CASE Keep
    <2>1. UNCHANGED <<unread, inbuf_pos, gone, lost>> /\ ~lost
        BY <1>7 DEF Keep, clients
    <2>2. lost' \in BOOLEAN /\ (\A c : Doomed(c) => Doomed(c)') /\ LostRight'
        BY <2>1 DEF Doomed, LostRight, InputInv, InputTypes
    <2> QED
        BY <2>1, <2>2, InputLeft
<1>8. ASSUME NEW c \in ClientFds, Drop(c) PROVE InputInv'
    BY <1>8, DropInput
<1>9. ASSUME NEW c \in ClientFds, Submit(c) PROVE InputInv'
    BY <1>9, SubmitInput
<1>10. ASSUME NEW c \in ClientFds, Leave(c) PROVE InputInv'
    <2>1. /\ UNCHANGED <<unread, inbuf_pos, lost, at, pc>>
          /\ gone' = [gone EXCEPT ![c] = TRUE]
        BY <1>10 DEF Leave
    <2>2. InputTypes'
        BY <2>1 DEF InputInv, InputTypes
    <2>3. InputRight'
        BY <2>1 DEF InputInv, InputRight, Waits, Doomed
    <2>4. \A d : gone[d] => gone'[d]
        BY <2>1 DEF InputInv, InputTypes
    <2>5. LostRight'
        BY <2>1, <2>4 DEF InputInv, LostRight, Excused
    <2> QED
        BY <2>2, <2>3, <2>5 DEF InputInv
<1> QED
    BY <1>1, <1>2, <1>3, <1>4, <1>5, <1>6, <1>7, <1>8, <1>9, <1>10
       DEF Next, net_runner, ServeClient

LEMMA InputInvariance == Spec => []InputInv
BY InitInput, NextInput, PTL DEF Spec

\* Whatever pieces commands come in, while the thread waits in select no
\* complete command is left in an input buffer.
THEOREM NoneStranded == Spec => []NoCommandStranded
<1>1. IInv /\ InputInv => NoCommandStranded
    <2> SUFFICES ASSUME IInv, InputInv, pc = "select", NEW c \in Connected
                 PROVE  unread[c] = <<>> \/ inbuf_pos[c] < CommandLength[unread[c][1]]
        BY DEF NoCommandStranded
    <2>1. c \in ClientFds
        BY OwnApart DEF IInv, Types
    <2> QED
        BY <2>1 DEF InputInv, InputRight, Doomed, Waits
<1> QED
    BY <1>1, Invariance, InputInvariance, PTL

\* Reading drops a client only for what it did itself.
THEOREM GoodClientsKept == Spec => []OnlyBadClientsDropped
<1>1. InputInv => OnlyBadClientsDropped
    BY DEF InputInv, LostRight, Excused, OnlyBadClientsDropped
<1> QED
    BY <1>1, InputInvariance, PTL

-----------------------------------------------------------------------------
(* What is queued.                                                         *)

\* what is queued for the client is what it is owed
StreamOf(c) ==
    /\ Len(BytesOf(outbuf[c])) = Len(owed[c])
    /\ ~shared_cut[c] => BytesOf(outbuf[c]) = owed[c]

Streams == \A c \in ClientFds : StreamOf(c)

SendTypes == owed \in [ClientFds -> Seq(Bytes)] /\ shared_cut \in [ClientFds -> BOOLEAN]

OnlyConnected == \A c \in ClientFds \ Connected : outbuf[c] = <<>>

OutWatched == \A c \in ClientFds : c \in socksetout <=> (c \in Connected /\ outbuf[c] # <<>>)

SendInv == Counted(heap, outbuf) /\ SendTypes /\ OnlyConnected /\ OutWatched /\ Streams

LEMMA InitSend == Init => SendInv
<1> SUFFICES ASSUME Init PROVE SendInv
    OBVIOUS
<1>1. /\ connections = <<>> /\ outbuf = [c \in ClientFds |-> <<>>] /\ heap = <<>>
      /\ socksetout = {} /\ owed = [c \in ClientFds |-> <<>>]
      /\ shared_cut = [c \in ClientFds |-> FALSE]
    BY DEF Init
<1>2. <<>> \in BufferLists /\ ToSet(<<>>) = {} /\ <<>> \in Seq(Bytes)
    BY DEF BufferLists, IsInjective, ToSet
<1>3. IsHeap(heap) /\ DOMAIN heap = {}
    <2>1. DOMAIN heap = {} /\ heap = [b \in DOMAIN heap |-> heap[b]]
        BY <1>1
    <2> QED
        BY <2>1, FS_EmptySet DEF IsHeap
<1>4. Counted(heap, outbuf)
    BY <1>1, <1>2, <1>3 DEF Counted
<1>5. SendTypes /\ OnlyConnected /\ OutWatched
    BY <1>1, <1>2 DEF SendTypes, OnlyConnected, OutWatched
<1>6. ASSUME NEW c \in ClientFds PROVE StreamOf(c)
    <2>1. BytesIn(heap, <<>>) = <<>>
        <3>1. [i \in DOMAIN <<>> |-> heap[<<>>[i]].bytes] = <<>>
            OBVIOUS
        <3> QED
            BY <3>1, FlattenEmpty DEF BytesIn
    <2>2. BytesOf(outbuf[c]) = <<>> /\ owed[c] = <<>>
        BY <1>1, <2>1 DEF BytesOf
    <2> QED
        BY <2>2 DEF StreamOf
<1> QED
    BY <1>4, <1>5, <1>6 DEF SendInv, Streams

\* every buffer is still there, with its bytes
AllStay(h, g) == \A b \in DOMAIN h : b \in DOMAIN g /\ g[b].bytes = h[b].bytes

\* a list that got longer
LEMMA BytesExtended ==
    ASSUME Counted(heap, outbuf), AllStay(heap, heap'), NEW c \in ClientFds,
           NEW new, Filled(heap', new), outbuf'[c] = outbuf[c] \o new
    PROVE  BytesIn(heap', outbuf'[c]) = BytesOf(outbuf[c]) \o BytesIn(heap', new)
<1>1. Filled(heap, outbuf[c])
    BY ListsFilled
<1>2. SameBytes(heap, heap', outbuf[c])
    BY DEF Counted, AllStay, SameBytes
<1>3. Filled(heap', outbuf[c]) /\ BytesIn(heap', outbuf[c]) = BytesIn(heap, outbuf[c])
    BY <1>1, <1>2, BytesSame
<1>4. BytesIn(heap', outbuf[c] \o new) = BytesIn(heap', outbuf[c]) \o BytesIn(heap', new)
    BY <1>3, BytesJoined
<1> QED
    BY <1>3, <1>4 DEF BytesOf

\* or that stayed
LEMMA BytesStay ==
    ASSUME Counted(heap, outbuf), AllStay(heap, heap'), NEW c \in ClientFds,
           outbuf'[c] = outbuf[c]
    PROVE  BytesIn(heap', outbuf'[c]) = BytesOf(outbuf[c])
<1>1. Filled(heap, outbuf[c])
    BY ListsFilled
<1>2. SameBytes(heap, heap', outbuf[c])
    BY DEF Counted, AllStay, SameBytes
<1>3. BytesIn(heap', outbuf[c]) = BytesIn(heap, outbuf[c])
    BY <1>1, <1>2, BytesSame
<1> QED
    BY <1>3 DEF BytesOf

LEMMA StreamStays ==
    ASSUME NEW c \in ClientFds, StreamOf(c), BytesIn(heap', outbuf'[c]) = BytesOf(outbuf[c]),
           owed'[c] = owed[c], shared_cut'[c] = shared_cut[c]
    PROVE  StreamOf(c)'
<1>1. (BytesOf(outbuf[c]))' = BytesIn(heap', outbuf'[c])
    BY DEF BytesOf
<1> QED
    BY <1>1 DEF StreamOf

LEMMA StreamGrows ==
    ASSUME Counted(heap, outbuf), SendTypes, NEW c \in ClientFds, StreamOf(c),
           NEW more \in Seq(Bytes), BytesIn(heap', outbuf'[c]) = BytesOf(outbuf[c]) \o more,
           owed'[c] = owed[c] \o more, shared_cut'[c] = shared_cut[c]
    PROVE  StreamOf(c)'
<1> DEFINE old == BytesOf(outbuf[c])
           due == owed[c]
<1>1. (BytesOf(outbuf[c]))' = old \o more /\ owed'[c] = due \o more
    BY DEF BytesOf
<1>2. old \in Seq(Bytes) /\ due \in Seq(Bytes)
    <2>1. Filled(heap, outbuf[c])
        BY ListsFilled
    <2> QED
        BY <2>1, PartsAre DEF SendTypes, BytesOf
<1>3. Len(old) = Len(due) /\ (~shared_cut[c] => old = due)
    BY DEF StreamOf
<1> HIDE DEF old, due
<1>4. Len(old \o more) = Len(old) + Len(more) /\ Len(due \o more) = Len(due) + Len(more)
    BY <1>2, ConcatProperties
<1> QED
    BY <1>1, <1>3, <1>4 DEF StreamOf

LEMMA StreamShrinks ==
    ASSUME SendTypes, Counted(heap, outbuf), NEW c \in ClientFds, NEW size \in Nat, StreamOf(c),
           Taken(c, size), owed'[c] = SubSeq(owed[c], size + 1, Len(owed[c]))
    PROVE  StreamOf(c)'
<1> DEFINE old == BytesOf(outbuf[c])
           due == owed[c]
           new == BytesIn(heap', outbuf'[c])
           left == SubSeq(due, size + 1, Len(due))
<1>1. (BytesOf(outbuf[c]))' = new /\ owed'[c] = left
    BY DEF BytesOf
<1>2. old \in Seq(Bytes) /\ due \in Seq(Bytes)
    <2>1. Filled(heap, outbuf[c])
        BY ListsFilled
    <2> QED
        BY <2>1, PartsAre DEF SendTypes, BytesOf
<1>3. Len(old) = Len(due) /\ (~shared_cut[c] => old = due)
    BY DEF StreamOf
<1>4. /\ size \in 0 .. Len(old) /\ Len(new) = Len(old) - size
      /\ \/ shared_cut' = shared_cut /\ new = SubSeq(old, size + 1, Len(old))
         \/ shared_cut' = [shared_cut EXCEPT ![c] = TRUE]
    BY DEF Taken, LengthOf
<1>5. Len(left) = Len(due) - size
    <2>1. size \in 0 .. Len(due)
        BY <1>3, <1>4
    <2> HIDE DEF due
    <2> QED
        BY <1>2, <2>1, CutInTwo
<1>6. Len(new) = Len(left)
    BY <1>3, <1>4, <1>5
<1>7. ~shared_cut'[c] => new = left
    <2>1. CASE shared_cut' = shared_cut /\ new = SubSeq(old, size + 1, Len(old))
        BY <1>3, <2>1
    <2>2. CASE shared_cut' = [shared_cut EXCEPT ![c] = TRUE]
        BY <2>2 DEF SendTypes
    <2> QED
        BY <1>4, <2>1, <2>2
<1> HIDE DEF old, due, new, left
<1> QED
    BY <1>1, <1>6, <1>7 DEF StreamOf

\* steps that have nothing to do with what is queued
LEMMA SendLeft ==
    ASSUME SendInv, UNCHANGED <<connections, outbuf, heap, socksetout, owed, shared_cut>>
    PROVE  SendInv'
<1>1. Connected' = Connected
    BY DEF Connected
<1>2. Counted(heap', outbuf')
    BY DEF SendInv
<1>3. SendTypes' /\ OnlyConnected' /\ OutWatched'
    BY <1>1 DEF SendInv, SendTypes, OnlyConnected, OutWatched
<1>4. ASSUME NEW c \in ClientFds PROVE StreamOf(c)'
    BY DEF SendInv, Streams, StreamOf, BytesOf
<1>5. Streams'
    BY <1>4 DEF Streams
<1> QED
    BY <1>2, <1>3, <1>5 DEF SendInv

\* a broadcast
LEMMA BroadcastSend ==
    ASSUME IInv, SendInv, NEW m \in Snapshots, broadcast(m), connections' = connections
    PROVE  SendInv'
<1>1. UNCHANGED sending \/ (connections # <<>> /\ ~UNCHANGED sending)
    BY DEF broadcast
<1>2. CASE connections # <<>> /\ ~UNCHANGED sending
    <2> DEFINE f == Fresh(heap)
               bytes == MessageBytes(m)
    <2>1. /\ heap' = Allocate(heap, MessageBytes(m), Len(connections))
          /\ outbuf' = [c \in ClientFds |->
                IF c \in Connected THEN Append(outbuf[c], Fresh(heap)) ELSE outbuf[c]]
          /\ owed' = [c \in ClientFds |->
                IF c \in Connected THEN owed[c] \o MessageBytes(m) ELSE owed[c]]
          /\ socksetout' = socksetout \cup Connected
          /\ shared_cut' = shared_cut
        BY <1>2 DEF broadcast
    <2>2. m \in Messages /\ connections \in Lists /\ Connected' = Connected
        BY DEF Messages, IInv, Types, Connected
    <2>3. /\ Counted(heap, outbuf) /\ SendTypes /\ outbuf \in [ClientFds -> BufferLists]
          /\ Connected \subseteq ClientFds
        BY <2>2, OwnApart DEF SendInv, Counted
    <2>4. /\ Counted(heap', outbuf')
          /\ \A b \in DOMAIN heap : b \in DOMAIN heap' /\ heap'[b].bytes = heap[b].bytes
          /\ f \in DOMAIN heap' /\ f \in Nat /\ heap'[f].bytes = bytes
        BY <1>2, <2>1, <2>2, <2>3, Shared
    <2>5. AllStay(heap, heap')
        BY <2>4 DEF AllStay
    <2>6. bytes \in Seq(Bytes)
        BY <2>2, MessageIs
    <2>7. /\ \A c \in Connected : /\ outbuf'[c] = Append(outbuf[c], f)
                                  /\ owed'[c] = owed[c] \o bytes
          /\ \A c \in ClientFds \ Connected : /\ outbuf'[c] = outbuf[c]
                                              /\ owed'[c] = owed[c]
        BY <2>1, <2>3
    <2> HIDE DEF f, bytes
    <2>8. ASSUME NEW c \in Connected PROVE outbuf'[c] = outbuf[c] \o <<f>> /\ outbuf'[c] # <<>>
        <3>1. outbuf[c] \in Seq(Nat) /\ outbuf'[c] = Append(outbuf[c], f)
            BY <2>3, <2>7 DEF BufferLists
        <3>2. f \in Nat
            BY <2>4
        <3>3. Append(outbuf[c], f) = outbuf[c] \o <<f>>
            BY <3>1, <3>2, AppendIsConcat
        <3>4. Append(outbuf[c], f) # <<>>
            BY <3>1, <3>2, AppendProperties
        <3> QED
            BY <3>1, <3>3, <3>4
    <2>9. SendTypes'
        <3>1. ASSUME NEW c \in ClientFds PROVE owed'[c] \in Seq(Bytes)
            <4>1. owed[c] \in Seq(Bytes)
                BY <2>3 DEF SendTypes
            <4>2. owed[c] \o bytes \in Seq(Bytes)
                BY <2>6, <4>1, ConcatProperties
            <4> QED
                BY <2>7, <4>1, <4>2
        <3> QED
            BY <2>1, <2>3, <3>1 DEF SendTypes
    <2>10. OnlyConnected' /\ OutWatched'
        BY <2>1, <2>2, <2>3, <2>7, <2>8 DEF SendInv, OnlyConnected, OutWatched
    <2>11. ASSUME NEW c \in ClientFds PROVE StreamOf(c)'
        <3>1. StreamOf(c) /\ shared_cut'[c] = shared_cut[c]
            BY <2>1 DEF SendInv, Streams
        <3>2. CASE c \in Connected
            <4>1. Filled(heap', <<f>>) /\ BytesIn(heap', <<f>>) = bytes
                BY <2>4, <2>6, BytesOfOne
            <4>2. BytesIn(heap', outbuf'[c]) = BytesOf(outbuf[c]) \o BytesIn(heap', <<f>>)
                BY <2>3, <2>5, <2>8, <3>2, <4>1, BytesExtended
            <4>3. BytesIn(heap', outbuf'[c]) = BytesOf(outbuf[c]) \o bytes /\ owed'[c] = owed[c] \o bytes
                BY <2>7, <3>2, <4>1, <4>2
            <4> QED
                BY <2>3, <2>6, <3>1, <4>3, StreamGrows
        <3>3. CASE c \notin Connected
            <4>1. BytesIn(heap', outbuf'[c]) = BytesOf(outbuf[c]) /\ owed'[c] = owed[c]
                BY <2>3, <2>5, <2>7, <3>3, BytesStay
            <4> QED
                BY <3>1, <4>1, StreamStays
        <3> QED
            BY <3>2, <3>3
    <2>12. Streams'
        BY <2>11 DEF Streams
    <2> QED
        BY <2>4, <2>9, <2>10, <2>12 DEF SendInv
<1>3. CASE UNCHANGED sending
    BY <1>3, SendLeft DEF sending
<1> QED
    BY <1>1, <1>2, <1>3

\* the answers to what was read
LEMMA AnswersAre ==
    ASSUME NEW handled \in Seq(Commands), NEW answers,
           answers = [i \in DOMAIN handled |-> IF handled[i] \in Queries THEN Settings ELSE <<>>]
    PROVE  FlattenSeq(answers) \in Seq(Messages)
<1>1. Settings \in Seq(Messages) /\ <<>> \in Seq(Messages)
    BY NetAssumption
<1> DEFINE N == Len(handled)
<1>2. N \in Nat /\ DOMAIN handled = 1 .. N
    OBVIOUS
<1>3. answers \in [1 .. N -> Seq(Messages)]
    <2> HIDE DEF N
    <2> QED
        BY <1>1, <1>2
<1> HIDE DEF N
<1>4. answers \in Seq(Seq(Messages))
    <2>1. \A T : \A k \in Nat : \A s \in [1 .. k -> T] : s \in Seq(T)
        OBVIOUS
    <2> QED
        BY <1>2, <1>3, <2>1
<1> QED
    BY <1>4, FlattenType

LEMMA ReadSend ==
    ASSUME IInv, InputInv, SendInv, NEW c \in ClientFds, ReadCommands(c)
    PROVE  SendInv'
<1>1. PICK size \in Sizes(c) :
        LET handled == SubSeq(unread[c], 1, Handled(c, size))
            answers == [i \in DOMAIN handled |->
                            IF handled[i] \in Queries THEN Settings ELSE <<>>] IN
        client_printf(c, FlattenSeq(answers))
    BY DEF ReadCommands
<1>2. pc = "read" /\ at = c /\ connections' = connections
    BY DEF ReadCommands, Turn
<1>3. c \in Connected /\ Connected' = Connected /\ Connected \subseteq ClientFds
    <2>1. at \in Connected \cup {NoClient} /\ c # NoClient
        BY <1>2, NetAssumption DEF IInv, Types
    <2> QED
        BY <1>2, <2>1, OwnApart DEF Connected, IInv, Types
<1> DEFINE handled == SubSeq(unread[c], 1, Handled(c, size))
           answers == [i \in DOMAIN handled |-> IF handled[i] \in Queries THEN Settings ELSE <<>>]
           messages == FlattenSeq(answers)
<1>4. handled \in Seq(Commands)
    <2>1. /\ unread[c] \in Seq(Commands) /\ inbuf_pos[c] \in Nat
          /\ inbuf_pos[c] <= CommandBytes(unread[c])
        BY DEF InputInv, InputTypes, InputRight
    <2>2. CommandBytes(unread[c]) \in Nat /\ INBUF_SIZE \in Nat
        BY <2>1, CommandsAppended, NetAssumption
    <2> DEFINE here == inbuf_pos[c] + Arrived(c)
               most == Min({here, INBUF_SIZE})
    <2>3. here = CommandBytes(unread[c])
        BY <2>1, <2>2 DEF Arrived
    <2>4. size \in (inbuf_pos[c] + 1) .. most
        BY <1>1 DEF Sizes
    <2> HIDE DEF here
    <2>5. here \in Int /\ INBUF_SIZE \in Int
        BY <2>2, <2>3
    <2>6. most \in {here, INBUF_SIZE} /\ most <= here
        BY <2>5, MinOfTwo
    <2> HIDE DEF most
    <2>7. size \in Nat /\ size <= CommandBytes(unread[c])
        BY <2>1, <2>2, <2>3, <2>4, <2>5, <2>6
    <2> DEFINE h == Handled(c, size)
    <2>8. LeavesPart(c, size, h, Rest(c, size))
        BY <2>1, <2>7, PartLeft
    <2>9. h \in 0 .. Len(unread[c])
        BY <2>8 DEF LeavesPart
    <2> HIDE DEF h
    <2>10. SubSeq(unread[c], 1, h) \in Seq(Commands)
        BY <2>1, <2>9, CutInTwo
    <2> QED
        BY <2>10 DEF h
<1>5. client_printf(c, messages)
    BY <1>1
<1> HIDE DEF handled
<1>6. messages \in Seq(Messages)
    BY <1>4, AnswersAre
<1> HIDE DEF messages
<1> DEFINE new == Unused(heap, Len(messages))
           all == [i \in DOMAIN messages |-> MessageBytes(messages[i])]
           more == FlattenSeq(all)
<1>7. /\ socksetout' = socksetout \cup (IF messages = <<>> THEN {} ELSE {c})
      /\ owed' = [owed EXCEPT ![c] = @ \o more]
      /\ shared_cut' = shared_cut
    BY <1>5 DEF client_printf
<1>8. Counted(heap, outbuf) /\ SendTypes /\ outbuf \in [ClientFds -> BufferLists]
    BY DEF SendInv, Counted
<1>9. new = Unused(heap, Len(messages))
    OBVIOUS
<1> HIDE DEF new
<1>10. /\ Counted(heap', outbuf')
       /\ \A b \in DOMAIN heap : b \in DOMAIN heap' /\ heap'[b].bytes = heap[b].bytes
       /\ new \in Seq(Nat) /\ Len(new) = Len(messages) /\ ToSet(new) \subseteq DOMAIN heap'
       /\ \A i \in 1 .. Len(messages) : heap'[new[i]].bytes = MessageBytes(messages[i])
       /\ outbuf' = [outbuf EXCEPT ![c] = @ \o new]
    <2>1. Counted(heap, outbuf)
        BY <1>8
    <2>2. Gets(c, messages, new)
        BY <1>5, <1>6, <1>9, <2>1, Answered
    <2> QED
        BY <2>2 DEF Gets
<1>11. AllStay(heap, heap')
    BY <1>10 DEF AllStay
<1>12. Filled(heap', new)
    <2>1. \A b \in DOMAIN heap' : heap'[b].bytes \in Seq(Bytes)
        BY <1>10 DEF Counted, IsHeap, Buffers
    <2> QED
        BY <1>10, <2>1 DEF Filled
<1>13. BytesIn(heap', new) = more /\ more \in Seq(Bytes)
    <2>1. DOMAIN new = 1 .. Len(messages) /\ DOMAIN messages = 1 .. Len(messages)
        BY <1>6, <1>10
    <2>2. [i \in DOMAIN new |-> heap'[new[i]].bytes] = all
        BY <1>10, <2>1
    <2>3. BytesIn(heap', new) = more
        BY <2>2 DEF BytesIn
    <2>4. BytesIn(heap', new) \in Seq(Bytes)
        BY <1>12, PartsAre
    <2> QED
        BY <2>3, <2>4
<1> HIDE DEF more
<1>14. /\ outbuf'[c] = outbuf[c] \o new /\ owed'[c] = owed[c] \o more
       /\ \A d \in ClientFds \ {c} : outbuf'[d] = outbuf[d] /\ owed'[d] = owed[d]
    BY <1>7, <1>8, <1>10 DEF SendTypes
<1>15. outbuf'[c] = <<>> <=> (outbuf[c] = <<>> /\ messages = <<>>)
    <2> DEFINE list == outbuf[c]
    <2>1. list \in Seq(Nat) /\ new \in Seq(Nat)
        BY <1>8, <1>10 DEF BufferLists
    <2> HIDE DEF list
    <2>2. list \o new \in Seq(Nat) /\ Len(list \o new) = Len(list) + Len(new)
        BY <2>1, ConcatProperties
    <2>3. list \o new = <<>> <=> (Len(list) = 0 /\ Len(new) = 0)
        <3>1. list \o new = <<>> <=> Len(list \o new) = 0
            BY <2>2, EmptySeq
        <3>2. Len(list) \in Nat /\ Len(new) \in Nat
            BY <2>1, LenProperties
        <3> QED
            BY <2>2, <3>1, <3>2
    <2>4. (Len(list) = 0 <=> list = <<>>) /\ (Len(messages) = 0 <=> messages = <<>>)
        BY <1>6, <2>1, EmptySeq
    <2>5. list \o new = <<>> <=> (list = <<>> /\ messages = <<>>)
        BY <1>10, <2>3, <2>4
    <2> QED
        BY <1>14, <2>5 DEF list
<1>16. SendTypes'
    <2>1. owed[c] \o more \in Seq(Bytes)
        BY <1>8, <1>13, ConcatProperties DEF SendTypes
    <2> QED
        BY <1>7, <1>8, <2>1 DEF SendTypes
<1>17. OnlyConnected'
    BY <1>3, <1>14 DEF SendInv, OnlyConnected
<1>18. OutWatched'
    <2>1. ASSUME NEW d \in ClientFds
          PROVE  d \in socksetout' <=> (d \in Connected /\ outbuf'[d] # <<>>)
        <3>1. d \in socksetout <=> (d \in Connected /\ outbuf[d] # <<>>)
            BY DEF SendInv, OutWatched
        <3>2. d \in socksetout' <=> (d \in socksetout \/ (d = c /\ messages # <<>>))
            BY <1>7
        <3> QED
            BY <1>3, <1>14, <1>15, <3>1, <3>2
    <2> QED
        BY <1>3, <2>1 DEF OutWatched
<1>19. ASSUME NEW d \in ClientFds PROVE StreamOf(d)'
    <2>1. StreamOf(d) /\ shared_cut'[d] = shared_cut[d]
        BY <1>7 DEF SendInv, Streams
    <2>2. CASE d = c
        <3>1. BytesIn(heap', outbuf'[c]) = BytesOf(outbuf[c]) \o BytesIn(heap', new)
            BY <1>8, <1>11, <1>12, <1>14, BytesExtended
        <3>2. /\ BytesIn(heap', outbuf'[c]) = BytesOf(outbuf[c]) \o more
              /\ StreamOf(c) /\ shared_cut'[c] = shared_cut[c]
            BY <1>13, <2>1, <2>2, <3>1
        <3>3. StreamOf(c)'
            BY <1>8, <1>13, <1>14, <3>2, StreamGrows
        <3> QED
            BY <2>2, <3>3
    <2>3. CASE d # c
        <3>1. BytesIn(heap', outbuf'[d]) = BytesOf(outbuf[d]) /\ owed'[d] = owed[d]
            BY <1>8, <1>11, <1>14, <2>3, BytesStay
        <3> QED
            BY <2>1, <3>1, StreamStays
    <2> QED
        BY <2>2, <2>3
<1>20. Streams'
    BY <1>19 DEF Streams
<1> QED
    BY <1>10, <1>16, <1>17, <1>18, <1>20 DEF SendInv

\* what writev took is off the list of the client, and of no other
LEMMA FlushSend ==
    ASSUME IInv, SendInv, NEW c \in Connected, flush_writes(c), connections' = connections
    PROVE  SendInv'
<1>1. /\ Counted(heap, outbuf) /\ SendTypes /\ outbuf \in [ClientFds -> BufferLists]
      /\ c \in ClientFds /\ Connected' = Connected /\ Connected \subseteq ClientFds
    BY OwnApart DEF SendInv, Counted, Connected, IInv, Types
<1>2. PICK size \in Nat \ {0} :
        /\ Taken(c, size)
        /\ owed' = [owed EXCEPT ![c] = SubSeq(@, size + 1, Len(@))]
        /\ socksetout' = IF outbuf'[c] = <<>> THEN socksetout \ {c} ELSE socksetout
    BY <1>1, Flushed
<1>3. /\ Counted(heap', outbuf') /\ size \in 0 .. LengthOf(outbuf[c])
      /\ \A d \in ClientFds \ {c} : /\ outbuf'[d] = outbuf[d]
                                    /\ BytesIn(heap', outbuf'[d]) = BytesOf(outbuf[d])
      /\ shared_cut' = shared_cut \/ shared_cut' = [shared_cut EXCEPT ![c] = TRUE]
    BY <1>2 DEF Taken
<1>4. /\ owed'[c] = SubSeq(owed[c], size + 1, Len(owed[c]))
      /\ \A d \in ClientFds \ {c} : owed'[d] = owed[d] /\ shared_cut'[d] = shared_cut[d]
    BY <1>1, <1>2, <1>3 DEF SendTypes
<1>5. ASSUME NEW d \in ClientFds PROVE StreamOf(d)'
    <2>1. StreamOf(d)
        BY DEF SendInv, Streams
    <2>2. CASE d = c
        <3>1. StreamOf(c)'
            BY <1>1, <1>2, <1>4, <2>1, <2>2, StreamShrinks
        <3> QED
            BY <2>2, <3>1
    <2>3. CASE d # c
        BY <1>3, <1>4, <2>1, <2>3, StreamStays
    <2> QED
        BY <2>2, <2>3
<1>6. SendTypes'
    <2>1. SubSeq(owed[c], size + 1, Len(owed[c])) \in Seq(Bytes)
        <3>1. owed[c] \in Seq(Bytes) /\ LengthOf(outbuf[c]) = Len(owed[c])
            BY <1>1 DEF SendTypes, SendInv, Streams, StreamOf, LengthOf
        <3>2. size \in 0 .. Len(owed[c])
            BY <1>3, <3>1
        <3> QED
            BY <3>1, <3>2, CutInTwo
    <2>2. owed' \in [ClientFds -> Seq(Bytes)]
        BY <1>1, <1>2, <2>1 DEF SendTypes
    <2>3. shared_cut' \in [ClientFds -> BOOLEAN]
        BY <1>1, <1>3 DEF SendTypes
    <2> QED
        BY <2>2, <2>3 DEF SendTypes
<1>7. OnlyConnected'
    BY <1>1, <1>3 DEF SendInv, OnlyConnected
<1>8. OutWatched'
    <2>1. ASSUME NEW d \in ClientFds
          PROVE  d \in socksetout' <=> (d \in Connected /\ outbuf'[d] # <<>>)
        <3>1. d \in socksetout <=> (d \in Connected /\ outbuf[d] # <<>>)
            BY DEF SendInv, OutWatched
        <3>2. d # c => (outbuf'[d] = outbuf[d] /\ (d \in socksetout' <=> d \in socksetout))
            BY <1>2, <1>3
        <3>3. outbuf'[c] = <<>> => c \notin socksetout'
            BY <1>2
        <3>4. CASE d # c
            BY <3>1, <3>2, <3>4
        <3>5. CASE d = c /\ outbuf'[c] = <<>>
            BY <3>3, <3>5
        <3>6. CASE d = c /\ outbuf'[c] # <<>>
            <4>1. socksetout' = socksetout
                BY <1>2, <3>6
            <4>2. outbuf[c] # <<>>
                <5>1. [i \in DOMAIN <<>> |-> heap[<<>>[i]].bytes] = <<>> /\ Len(<<>>) = 0
                    OBVIOUS
                <5>2. LengthOf(<<>>) = 0
                    BY <5>1, FlattenEmpty DEF LengthOf, BytesOf, BytesIn
                <5>3. LengthOf(outbuf[c]) # 0
                    BY <1>3
                <5> QED
                    BY <5>2, <5>3
            <4> QED
                BY <3>1, <3>6, <4>1, <4>2
        <3> QED
            BY <3>4, <3>5, <3>6
    <2> QED
        BY <1>1, <2>1 DEF OutWatched
<1>9. Streams'
    BY <1>5 DEF Streams
<1> QED
    BY <1>3, <1>6, <1>7, <1>8, <1>9 DEF SendInv

\* an empty list has no bytes
LEMMA NoBytes == \A h : BytesIn(h, <<>>) = <<>>
<1> SUFFICES ASSUME NEW h PROVE BytesIn(h, <<>>) = <<>>
    OBVIOUS
<1>1. [i \in DOMAIN <<>> |-> h[<<>>[i]].bytes] = <<>>
    OBVIOUS
<1> QED
    BY <1>1, FlattenEmpty DEF BytesIn

\* the buffers of a client that is dropped are given up
LEMMA DropSend ==
    ASSUME IInv, SendInv, NEW c \in ClientFds, Drop(c)
    PROVE  SendInv'
<1>1. /\ at = c /\ connections' = RemoveAt(connections, PlaceOf(c))
      /\ heap' = Release(ToSet(outbuf[c])) /\ outbuf' = [outbuf EXCEPT ![c] = <<>>]
      /\ socksetout' = socksetout \ {c} /\ owed' = [owed EXCEPT ![c] = <<>>]
      /\ shared_cut' = [shared_cut EXCEPT ![c] = FALSE] /\ pc = "next"
    BY DEF Drop
<1>2. /\ Counted(heap, outbuf) /\ SendTypes /\ outbuf \in [ClientFds -> BufferLists]
      /\ outbuf[c] \in Seq(Nat)
    BY DEF SendInv, Counted, BufferLists
<1>3. Connected' = Connected \ {c}
    <2>1. connections \in Lists /\ c \in Connected
        BY <1>1 DEF IInv, Types
    <2> QED
        BY <1>1, <2>1, AheadOfRemoved DEF Connected
<1> DEFINE k == Len(outbuf[c])
           first == SubSeq(outbuf[c], 1, k)
           rest == SubSeq(outbuf[c], k + 1, Len(outbuf[c]))
<1>4. k \in 0 .. Len(outbuf[c]) /\ first = outbuf[c] /\ rest = <<>>
    <2>1. k \in Nat /\ first = outbuf[c]
        BY <1>2, SubSeqFull
    <2>2. rest \in Seq(Nat) /\ Len(rest) = Len(outbuf[c]) - k
        <3>1. k \in 0 .. Len(outbuf[c])
            BY <2>1
        <3> HIDE DEF k
        <3> QED
            BY <1>2, <3>1, CutInTwo
    <2>3. Len(rest) = 0
        BY <2>1, <2>2
    <2> HIDE DEF rest
    <2> QED
        BY <2>1, <2>2, <2>3, EmptySeq
<1>5. GivesUp(c, k, first, rest, heap', outbuf')
    BY <1>1, <1>4 DEF GivesUp, WithList
<1> HIDE DEF k, first, rest
<1>6. GivenUp(c, first, rest, heap', outbuf')
    BY <1>2, <1>5, Flushing
<1>7. /\ Counted(heap', outbuf') /\ outbuf'[c] = <<>>
      /\ \A d \in ClientFds \ {c} : /\ outbuf'[d] = outbuf[d]
                                    /\ BytesIn(heap', outbuf'[d]) = BytesOf(outbuf[d])
    BY <1>4, <1>6 DEF GivenUp
<1>8. SendTypes'
    BY <1>1, <1>2 DEF SendTypes
<1>9. OnlyConnected'
    BY <1>3, <1>7 DEF SendInv, OnlyConnected
<1>10. OutWatched'
    BY <1>1, <1>3, <1>7 DEF SendInv, OutWatched
<1>11. ASSUME NEW d \in ClientFds PROVE StreamOf(d)'
    <2>1. CASE d = c
        <3>1. BytesIn(heap', <<>>) = <<>>
            BY NoBytes
        <3>2. (BytesOf(outbuf[c]))' = <<>> /\ owed'[c] = <<>>
            BY <1>1, <1>2, <1>7, <3>1 DEF BytesOf, SendTypes
        <3> QED
            BY <2>1, <3>2 DEF StreamOf
    <2>2. CASE d # c
        <3>1. StreamOf(d) /\ owed'[d] = owed[d] /\ shared_cut'[d] = shared_cut[d]
            BY <1>1, <1>2, <2>2 DEF SendInv, Streams, SendTypes
        <3>2. BytesIn(heap', outbuf'[d]) = BytesOf(outbuf[d])
            BY <1>7, <2>2
        <3> QED
            BY <3>1, <3>2, StreamStays
    <2> QED
        BY <2>1, <2>2
<1>12. Streams'
    BY <1>11 DEF Streams
<1> QED
    BY <1>7, <1>8, <1>9, <1>10, <1>12 DEF SendInv

\* for a new client nothing is queued
LEMMA ListenSend ==
    ASSUME IInv, SendInv, Listen
    PROVE  SendInv'
<1>1. UNCHANGED <<heap, socksetout, owed, shared_cut>>
    BY DEF Listen
<1>2. CASE UNCHANGED <<connections, outbuf>>
    BY <1>1, <1>2, SendLeft
<1>3. ASSUME NEW c \in ClientFds \ Connected, accept_client(c) PROVE SendInv'
    <2>1. outbuf' = [outbuf EXCEPT ![c] = <<>>] /\ connections' = <<c>> \o connections
        BY <1>3 DEF accept_client
    <2>2. outbuf \in [ClientFds -> BufferLists] /\ outbuf[c] = <<>>
        BY DEF SendInv, Counted, OnlyConnected
    <2>3. outbuf' = outbuf
        BY <2>1, <2>2
    <2>4. connections \in Lists /\ Connected' = Connected \cup {c}
        <3>1. connections \in Lists
            BY DEF IInv, Types
        <3> QED
            BY <2>1, <3>1, Accepted DEF Connected
    <2>5. Counted(heap', outbuf') /\ SendTypes'
        BY <1>1, <2>3 DEF SendInv, SendTypes
    <2>6. OnlyConnected' /\ OutWatched'
        BY <1>1, <2>2, <2>3, <2>4 DEF SendInv, OnlyConnected, OutWatched
    <2>7. ASSUME NEW d \in ClientFds PROVE StreamOf(d)'
        BY <1>1, <2>3 DEF SendInv, Streams, StreamOf, BytesOf
    <2>8. Streams'
        BY <2>7 DEF Streams
    <2> QED
        BY <2>5, <2>6, <2>8 DEF SendInv
<1> QED
    BY <1>2, <1>3 DEF Listen

\* no step breaks it
LEMMA NextSend == IInv /\ InputInv /\ SendInv /\ [Next]_vars => SendInv'
<1> SUFFICES ASSUME IInv, InputInv, SendInv, [Next]_vars PROVE SendInv'
    OBVIOUS
<1>1. CASE \/ Prepare \/ Select \/ Interrupted \/ wakeup_select \/ Connect \/ Control
           \/ \E c \in ClientFds : Submit(c) \/ Leave(c) \/ ReadNothing(c) \/ ReadBlocks(c)
           \/ NothingToRead \/ NothingToWrite \/ Keep \/ LoopDone
           \/ UNCHANGED vars
    <2>1. UNCHANGED <<connections, outbuf, heap, socksetout, owed, shared_cut>>
        BY <1>1 DEF Prepare, Select, SelectReports, Interrupted, wakeup_select, Connect,
                    Control, Submit, Leave, ReadNothing, ReadBlocks, NothingToRead,
                    NothingToWrite, Keep, LoopDone, vars, sending
    <2> QED
        BY <2>1, SendLeft
<1>2. CASE Broadcast
    <2>1. PICK m \in Snapshots : broadcast(m)
        BY <1>2 DEF Broadcast
    <2>2. connections' = connections
        BY <1>2 DEF Broadcast
    <2> QED
        BY <2>1, <2>2, BroadcastSend
<1>3. CASE Listen
    BY <1>3, ListenSend
<1>4. ASSUME NEW c \in ClientFds, ReadCommands(c) PROVE SendInv'
    BY <1>4, ReadSend
<1>5. ASSUME NEW c \in ClientFds, Write(c) PROVE SendInv'
    <2>1. connections' = connections /\ c \in Connected
        BY <1>5 DEF Write, IInv, Types
    <2>2. CASE flush_writes(c)
        BY <2>1, <2>2, FlushSend
    <2>3. CASE UNCHANGED sending
        BY <2>1, <2>3, SendLeft DEF sending
    <2> QED
        BY <1>5, <2>2, <2>3 DEF Write
<1>6. ASSUME NEW c \in ClientFds, Drop(c) PROVE SendInv'
    BY <1>6, DropSend
<1> QED
    BY <1>1, <1>2, <1>3, <1>4, <1>5, <1>6 DEF Next, net_runner, ServeClient

LEMMA SendInvariance == Spec => []SendInv
BY Invariance, InputInvariance, InitSend, NextSend, PTL DEF Spec

\* Every buffer is there as long as, and only while, a client has yet to get it,
\* and its count is the number of those clients.
THEOREM RefcountsHold == Spec => []RefcountsExact
<1>1. IInv /\ SendInv => RefcountsExact
    <2> SUFFICES ASSUME IInv, SendInv PROVE RefcountsExact
        OBVIOUS
    <2>1. /\ \A c \in ClientFds : ToSet(outbuf[c]) \subseteq DOMAIN heap
          /\ \A b \in DOMAIN heap : heap[b].refcount = Cardinality(Holders(outbuf, b))
        BY DEF SendInv, Counted
    <2>2. ASSUME NEW b PROVE Holders(outbuf, b) = {c \in Connected : b \in ToSet(outbuf[c])}
        <3>1. Connected \subseteq ClientFds
            BY OwnApart DEF IInv, Types
        <3>2. \A c \in ClientFds \ Connected : ToSet(outbuf[c]) = {}
            BY DEF SendInv, OnlyConnected, ToSet
        <3> QED
            BY <3>1, <3>2 DEF Holders
    <2>3. \A b \in DOMAIN heap :
            heap[b].refcount = Cardinality({c \in Connected : b \in ToSet(outbuf[c])})
        BY <2>1, <2>2
    <2> QED
        BY <2>1, <2>3 DEF RefcountsExact
<1> QED
    BY <1>1, Invariance, SendInvariance, PTL

\* What is queued for a client is what it was sent and did not get, whole and
\* in order, unless a write of its own was cut in a shared buffer.
THEOREM StreamsHold == Spec => []StreamIntact
<1>1. IInv /\ SendInv => StreamIntact
    <2> SUFFICES ASSUME IInv, SendInv, NEW c \in Connected
                 PROVE  /\ LengthOf(outbuf[c]) = Len(owed[c])
                        /\ ~shared_cut[c] => BytesOf(outbuf[c]) = owed[c]
        BY DEF StreamIntact
    <2>1. c \in ClientFds
        BY OwnApart DEF IInv, Types
    <2> QED
        BY <2>1 DEF SendInv, Streams, StreamOf, LengthOf
<1> QED
    BY <1>1, Invariance, SendInvariance, PTL

-----------------------------------------------------------------------------
(* Writing.                                                                *)

\* the clients that the loop may still write to have something queued
Watched ==
    LET ahead == Ahead(connections, at) IN
    /\ pc = "select" => writeset \subseteq socksetout
    /\ pc \in {"listen", "control"} => \A c \in writeset : outbuf[c] # <<>>
    /\ pc \in {"read", "write"} => \A c \in writeset \cap ahead : outbuf[c] # <<>>
    /\ pc = "next" => \A c \in writeset \cap (ahead \ {at}) : outbuf[c] # <<>>

LEMMA NextWatched == IInv /\ SendInv /\ SendInv' /\ Watched /\ [Next]_vars => Watched'
<1> SUFFICES ASSUME IInv, SendInv, SendInv', Watched, [Next]_vars PROVE Watched'
    OBVIOUS
<1>1. CASE Prepare
    BY <1>1 DEF Prepare, Watched, sending
<1>2. CASE Select
    <2>1. PICK writable \in SUBSET writeset : SelectReports(writable)
        BY <1>2 DEF Select
    <2>2. pc = "select" /\ pc' = "listen" /\ writeset' \subseteq writeset /\ outbuf' = outbuf
        BY <2>1 DEF SelectReports, sending
    <2>3. \A c \in writeset : c \in ClientFds /\ outbuf[c] # <<>>
        BY <2>2 DEF Watched, SendInv, OutWatched, IInv, Types
    <2> QED
        BY <2>2, <2>3 DEF Watched
<1>3. CASE Interrupted \/ LoopDone \/ \E c \in ClientFds : ReadBlocks(c)
    <2>1. pc' \in {"prepare", "blocked"}
        BY <1>3 DEF Interrupted, LoopDone, ReadBlocks
    <2> QED
        BY <2>1 DEF Watched
<1>4. CASE wakeup_select \/ Connect \/ (\E c \in ClientFds : Submit(c) \/ Leave(c)) \/ UNCHANGED vars
    <2>1. UNCHANGED <<connections, at, pc, writeset, socksetout, outbuf>>
        BY <1>4 DEF wakeup_select, Connect, Submit, Leave, vars, sending, selected
    <2> QED
        BY <2>1 DEF Watched
<1>5. CASE Broadcast
    <2>1. pc = "select" /\ pc' = pc /\ writeset' = writeset /\ socksetout \subseteq socksetout'
        BY <1>5 DEF Broadcast, broadcast, CallMtxFree, selected, sending
    <2> QED
        BY <2>1 DEF Watched
<1>6. CASE Listen
    <2>1. pc = "listen" /\ pc' = "control" /\ writeset' = writeset
        BY <1>6 DEF Listen
    <2>2. ASSUME NEW c \in writeset PROVE outbuf'[c] = outbuf[c]
        <3>1. c \in Connected /\ c \in ClientFds
            BY <2>1 DEF IInv, OnlyOpen, Types
        <3>2. ASSUME NEW d \in ClientFds \ Connected, accept_client(d) PROVE outbuf'[c] = outbuf[c]
            BY <3>1, <3>2 DEF accept_client, SendInv, Counted
        <3> QED
            BY <1>6, <3>2 DEF Listen
    <2> QED
        BY <2>1, <2>2 DEF Watched
<1>7. CASE Control
    <2>1. /\ pc = "control" /\ pc' = "read" /\ writeset' = writeset /\ outbuf' = outbuf
        BY <1>7 DEF Control, sending
    <2> QED
        BY <2>1 DEF Watched
<1>8. CASE NothingToRead \/ \E c \in ClientFds : ReadNothing(c)
    <2>1. /\ pc = "read" /\ pc' = "write"
          /\ UNCHANGED <<connections, at, writeset, outbuf>>
        BY <1>8 DEF NothingToRead, ReadNothing, Turn, sending, selected
    <2> QED
        BY <2>1 DEF Watched
<1>9. ASSUME NEW c \in ClientFds, ReadCommands(c) PROVE Watched'
    <2>1. /\ pc = "read" /\ pc' = "write" /\ at = c
          /\ UNCHANGED <<connections, at, writeset>>
        BY <1>9 DEF ReadCommands, Turn
    <2>2. socksetout \subseteq socksetout'
        BY <1>9 DEF ReadCommands, client_printf
    <2>3. ASSUME NEW d \in writeset \cap Ahead(connections, at) PROVE outbuf'[d] # <<>>
        <3>1. d \in ClientFds /\ outbuf[d] # <<>>
            BY <2>1 DEF Watched, IInv, Types
        <3>2. d \in Connected
            BY <3>1 DEF SendInv, OnlyConnected
        <3>3. d \in socksetout'
            BY <2>2, <3>1, <3>2 DEF SendInv, OutWatched
        <3> QED
            BY <3>1, <3>3 DEF SendInv, OutWatched
    <2> QED
        BY <2>1, <2>3 DEF Watched
<1>10. CASE NothingToWrite
    <2>1. /\ pc = "write" /\ pc' = "next"
          /\ UNCHANGED <<connections, at, writeset, outbuf>>
        BY <1>10 DEF NothingToWrite, sending, selected
    <2> QED
        BY <2>1 DEF Watched
<1>11. ASSUME NEW c \in ClientFds, Write(c) PROVE Watched'
    <2>1. /\ pc = "write" /\ pc' = "next" /\ at = c
          /\ UNCHANGED <<connections, at, writeset>>
        BY <1>11 DEF Write
    <2>2. ASSUME NEW d \in ClientFds \ {c} PROVE outbuf'[d] = outbuf[d]
        <3>1. CASE flush_writes(c)
            <4>1. Counted(heap, outbuf)
                BY DEF SendInv
            <4>2. PICK size \in Nat \ {0} : Taken(c, size)
                BY <3>1, <4>1, Flushed
            <4> QED
                BY <2>2, <4>2 DEF Taken
        <3>2. CASE UNCHANGED sending
            BY <3>2 DEF sending
        <3> QED
            BY <1>11, <3>1, <3>2 DEF Write
    <2>3. writeset \subseteq ClientFds
        BY DEF IInv, Types
    <2> QED
        BY <2>1, <2>2, <2>3 DEF Watched
<1>12. CASE Keep
    <2>1. /\ pc = "next" /\ pc' = "read" /\ at' = After(at)
          /\ UNCHANGED <<connections, writeset, outbuf>>
        BY <1>12 DEF Keep, sending, selected
    <2>2. Ahead(connections, After(at)) = Ahead(connections, at) \ {at}
        <3>1. connections \in Lists /\ at \in Connected
            BY <2>1 DEF IInv, Types
        <3> QED
            BY <3>1, AheadOfAfter
    <2> QED
        BY <2>1, <2>2 DEF Watched
<1>13. ASSUME NEW c \in ClientFds, Drop(c) PROVE Watched'
    <2>1. /\ pc = "next" /\ pc' = "read" /\ at = c /\ at' = After(c)
          /\ connections' = RemoveAt(connections, PlaceOf(c))
          /\ writeset' = writeset /\ outbuf' = [outbuf EXCEPT ![c] = <<>>]
        BY <1>13 DEF Drop, selected
    <2>2. Ahead(connections', After(c)) = Ahead(connections, c) \ {c}
        <3>1. connections \in Lists /\ c \in Connected
            BY <2>1 DEF IInv, Types
        <3> QED
            BY <2>1, <3>1, AheadOfRemoved
    <2>3. ASSUME NEW d \in writeset \cap (Ahead(connections, c) \ {c}) PROVE outbuf'[d] # <<>>
        <3>1. outbuf[d] # <<>> /\ d \in ClientFds
            BY <2>1 DEF Watched, IInv, Types
        <3>2. outbuf \in [ClientFds -> BufferLists]
            BY DEF SendInv, Counted
        <3> QED
            BY <2>1, <2>3, <3>1, <3>2
    <2> QED
        BY <2>1, <2>2, <2>3 DEF Watched
<1> QED
    BY <1>1, <1>2, <1>3, <1>4, <1>5, <1>6, <1>7, <1>8, <1>9, <1>10, <1>11, <1>12, <1>13
       DEF Next, net_runner, ServeClient

LEMMA WatchedInvariance == Spec => []Watched
<1>1. Init => Watched
    BY DEF Init, Watched
<1> QED
    BY <1>1, Invariance, SendInvariance, NextWatched, PTL DEF Spec

\* A socket is watched for writing exactly while something is queued for it,
\* and flush_writes never finds nothing to write.
THEOREM OutputHolds == Spec => []OutputIffQueued
<1>1. IInv /\ SendInv /\ Watched => OutputIffQueued
    <2> SUFFICES ASSUME IInv, SendInv, Watched PROVE OutputIffQueued
        OBVIOUS
    <2>1. Connected \subseteq ClientFds /\ socksetout \subseteq Connected
        BY OwnApart DEF IInv, Types, OnlyOpen
    <2>2. socksetout = {c \in Connected : outbuf[c] # <<>>}
        BY <2>1 DEF SendInv, OutWatched
    <2>3. ASSUME pc \in {"listen", "control", "read", "write"}, at \in writeset
          PROVE  outbuf[at] # <<>>
        <3>1. CASE pc \in {"listen", "control"}
            BY <2>3, <3>1 DEF Watched
        <3>2. CASE pc \in {"read", "write"}
            <4>1. connections \in Lists /\ at \in Connected
                BY <2>3, NetAssumption DEF IInv, Types
            <4>2. at \in Ahead(connections, at)
                BY <4>1, AheadOfAfter
            <4> QED
                BY <2>3, <3>2, <4>2 DEF Watched
        <3> QED
            BY <2>3, <3>1, <3>2
    <2> QED
        BY <2>2, <2>3 DEF OutputIffQueued
<1> QED
    BY <1>1, Invariance, SendInvariance, WatchedInvariance, PTL

-----------------------------------------------------------------------------
(* The types of the rest.                                                  *)

\* inside the loop n is the number of something
Counting == pc \notin {"prepare", "select", "blocked"} => n \in Nat

RestTypes ==
    /\ n \in Nat
    /\ pipe \in 0 .. PipeSize
    /\ waker \in BOOLEAN /\ knocking \in BOOLEAN

LEMMA CountsSomething == IInv => Counting
<1> SUFFICES ASSUME IInv, pc \notin {"prepare", "select", "blocked"} PROVE n \in Nat
    BY DEF Counting
<1>1. \A S \in SUBSET (ClientFds \cup Own) : \A T :
        Cardinality(S) \in Nat /\ Cardinality(S \cap T) \in Nat
    BY OneLess
<1>2. /\ readset \in SUBSET (ClientFds \cup Own) /\ writeset \in SUBSET (ClientFds \cup Own)
      /\ readset \ {listensock} \in SUBSET (ClientFds \cup Own)
      /\ pc \in {"listen", "control", "read", "write", "next"}
    BY DEF IInv, Types
<1>3. /\ Cardinality(readset) \in Nat /\ Cardinality(writeset) \in Nat
      /\ Cardinality(readset \ {listensock}) \in Nat
      /\ \A T : Cardinality(readset \cap T) \in Nat /\ Cardinality(writeset \cap T) \in Nat
    BY <1>1, <1>2
<1>4. ASSUME NEW S, NEW T PROVE Reported(S, T) \in Nat
    <2> DEFINE r == Cardinality(readset \cap S)
               w == Cardinality(writeset \cap T)
    <2>1. r \in Nat /\ w \in Nat
        BY <1>3
    <2> HIDE DEF r, w
    <2>2. r + w \in Nat
        BY <2>1
    <2> QED
        BY <2>2 DEF Reported, r, w
<1> QED
    BY <1>2, <1>3, <1>4 DEF IInv, CountExact

\* no step takes more from the pipe than is there
LEMMA PipeTaken ==
    ASSUME NEW p \in 0 .. PipeSize
    PROVE  p - Min({p, PIPE_READ}) \in 0 .. PipeSize
<1>1. PIPE_READ \in Nat /\ PipeSize \in Nat /\ p \in Nat
    BY NetAssumption
<1>2. Min({p, PIPE_READ}) \in {p, PIPE_READ} /\ Min({p, PIPE_READ}) <= p
    BY <1>1, MinOfTwo
<1> QED
    BY <1>1, <1>2

LEMMA NextRest == Counting' /\ RestTypes /\ [Next]_vars => RestTypes'
<1> SUFFICES ASSUME Counting', RestTypes, [Next]_vars PROVE RestTypes'
    OBVIOUS
<1>1. n' \in Nat
    <2>1. CASE pc' \notin {"prepare", "select", "blocked"}
        BY <2>1 DEF Counting
    <2>2. CASE n' \in {n, 0}
        BY <2>2 DEF RestTypes
    <2>3. CASE Prepare \/ LoopDone \/ Interrupted
        BY <2>2, <2>3 DEF Prepare, LoopDone, Interrupted, selected
    <2>4. CASE UNCHANGED vars
        BY <2>2, <2>4 DEF vars, selected
    <2>5. CASE \/ Broadcast \/ wakeup_select \/ Connect
               \/ \E c \in ClientFds : Submit(c) \/ Leave(c)
        BY <2>2, <2>5 DEF Broadcast, wakeup_select, Connect, Submit, Leave, selected
    <2>6. CASE Select \/ Listen \/ Control
        BY <2>1, <2>6 DEF Select, SelectReports, Listen, Control
    <2>7. ASSUME NEW c \in ClientFds, ServeClient(c) PROVE n' \in Nat
        BY <2>1, <2>2, <2>7
           DEF ServeClient, ReadNothing, ReadCommands, ReadBlocks, Write, Drop, selected
    <2>8. CASE NothingToRead \/ NothingToWrite \/ Keep
        BY <2>1, <2>8 DEF NothingToRead, NothingToWrite, Keep
    <2> QED
        BY <2>3, <2>4, <2>5, <2>6, <2>7, <2>8 DEF Next, net_runner
<1>2. pipe' \in 0 .. PipeSize
    <2>1. CASE pipe' = pipe
        BY <2>1 DEF RestTypes
    <2>2. CASE wakeup_select
        BY <2>2, NetAssumption DEF wakeup_select, RestTypes
    <2>3. CASE Control
        BY <2>1, <2>3, PipeTaken DEF Control, RestTypes
    <2>4. ASSUME NEW c \in ClientFds, ReadCommands(c) PROVE pipe' \in 0 .. PipeSize
        <3>1. pipe' \in pipe .. PipeSize
            BY <2>4 DEF ReadCommands
        <3>2. pipe \in Nat /\ PipeSize \in Nat
            BY NetAssumption DEF RestTypes
        <3> QED
            BY <3>1, <3>2
    <2>5. ASSUME NEW c \in ClientFds, ReadBlocks(c) PROVE pipe' \in 0 .. PipeSize
        BY <2>5, NetAssumption DEF ReadBlocks
    <2> QED
        BY <2>1, <2>2, <2>3, <2>4, <2>5
           DEF Next, net_runner, ServeClient, Prepare, Select, SelectReports, Interrupted,
               Listen, ReadNothing, Write, Drop, NothingToRead, NothingToWrite,
               Keep, LoopDone, Broadcast, Connect, Submit, Leave, vars, environment
<1>3. waker' \in BOOLEAN
    BY Zenon
       DEF Next, net_runner, ServeClient, Prepare, Select, SelectReports, Interrupted,
           Listen, Control, ReadNothing, ReadCommands, ReadBlocks, Write, Drop, NothingToRead,
           NothingToWrite, Keep, LoopDone, Broadcast, wakeup_select, Connect, Submit, Leave,
           vars, environment, RestTypes
<1>4. knocking' \in BOOLEAN
    BY Zenon
       DEF Next, net_runner, ServeClient, Prepare, Select, SelectReports, Interrupted,
           Listen, Control, ReadNothing, ReadCommands, ReadBlocks, Write, Drop, NothingToRead,
           NothingToWrite, Keep, LoopDone, Broadcast, wakeup_select, Connect, Submit, Leave,
           vars, environment, RestTypes
<1> QED
    BY <1>1, <1>2, <1>3, <1>4 DEF RestTypes

LEMMA RestInvariance == Spec => []RestTypes
<1>1. Init => RestTypes
    <2> SUFFICES ASSUME Init PROVE RestTypes
        OBVIOUS
    <2>1. n \in Nat /\ pipe \in 0 .. PipeSize
        BY NetAssumption DEF Init
    <2>2. waker \in BOOLEAN /\ knocking \in BOOLEAN
        BY Zenon DEF Init
    <2> QED
        BY <2>1, <2>2 DEF RestTypes
<1> QED
    BY <1>1, Invariance, CountsSomething, NextRest, PTL DEF Spec

\* Everything stays what it is declared to be; above all n is never negative,
\* a client's list names allocated buffers only, none of them empty or without
\* a reference, and no input buffer runs over.
THEOREM TypesHold == Spec => []TypeOK
<1>1. IInv /\ InputInv /\ SendInv /\ RestTypes => TypeOK
    <2> SUFFICES ASSUME IInv, InputInv, SendInv, RestTypes PROVE TypeOK
        OBVIOUS
    <2>1. connections \in Seq(ClientFds) /\ IsInjective(connections)
        BY DEF IInv, Types, Lists
    <2>2. /\ socksetin \subseteq ClientFds \cup {listensock, ControlPipe}
          /\ socksetout \subseteq ClientFds
        BY OwnApart DEF IInv, Types, OnlyOpen, Own
    <2>3. /\ readset \subseteq ClientFds \cup {listensock, ControlPipe}
          /\ writeset \subseteq ClientFds
          /\ at \in Connected \cup {NoClient}
          /\ pc \in {"prepare", "select", "listen", "control", "read", "write", "next",
                     "blocked"}
        BY DEF IInv, Types, Own
    <2>4. maxsock \in Nat \cup {-1}
        <3>1. maxsock \in Int /\ listensock \in Nat /\ (maxsock # -1 => listensock < maxsock)
            BY NetAssumption DEF IInv, Types, MaxsockAbove, Own
        <3> QED
            BY <3>1
    <2>5. Counted(heap, outbuf)
        BY DEF SendInv
    <2>6. outbuf \in [ClientFds -> Seq(DOMAIN heap)]
        <3>1. \A c \in ClientFds : outbuf[c] \in Seq(Nat) /\ ToSet(outbuf[c]) \subseteq DOMAIN heap
            BY <2>5 DEF Counted, BufferLists
        <3>2. ASSUME NEW c \in ClientFds PROVE outbuf[c] \in Seq(DOMAIN heap)
            <4>1. \A i \in 1 .. Len(outbuf[c]) : outbuf[c][i] \in DOMAIN heap
                BY <3>1 DEF ToSet
            <4> QED
                BY <3>1, <4>1
        <3> QED
            BY <2>5, <3>2 DEF Counted
    <2>7. \A b \in DOMAIN heap : /\ b \in Nat
                                 /\ heap[b].bytes \in Seq(Bytes) \ {<<>>}
                                 /\ heap[b].refcount \in Nat \ {0}
        BY <2>5 DEF Counted, IsHeap, Buffers
    <2>8. {lost, waker, knocking} \subseteq BOOLEAN
        BY Zenon DEF InputInv, InputTypes, RestTypes
    <2>9. /\ unread \in [ClientFds -> Seq(Commands)]
          /\ inbuf_pos \in [ClientFds -> 0 .. INBUF_SIZE]
        BY DEF InputInv, InputTypes
    <2>10. /\ {gone, shared_cut} \subseteq [ClientFds -> BOOLEAN]
           /\ owed \in [ClientFds -> Seq(Bytes)]
        BY Zenon DEF InputInv, InputTypes, SendInv, SendTypes
    <2>11. n \in Nat /\ pipe \in 0 .. PipeSize
        BY DEF RestTypes
    <2> QED
        BY <2>1, <2>2, <2>3, <2>4, <2>6, <2>7, <2>8, <2>9, <2>10, <2>11 DEF TypeOK
<1> QED
    BY <1>1, Invariance, InputInvariance, SendInvariance, RestInvariance, PTL

=============================================================================
