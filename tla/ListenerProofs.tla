--------------------------- MODULE ListenerProofs ---------------------------
(* The listeners that poll and reconnect: keybase and mwcmq (grinbox).       *)
EXTENDS KeybaseListener, FiniteSetTheorems, TLAPS

(* What a thread has read is read, not handled yet, and with nobody else. *)
UnreadOK ==
    \A x \in Sessions : \A i \in DOMAIN unread[x] :
        /\ mail[unread[x][i]] = "Read"
        /\ handled[unread[x][i]] = 0
        /\ \A y \in Sessions : \A j \in DOMAIN unread[y] :
              unread[x][i] = unread[y][j] => x = y /\ i = j

(* Nothing is handled before it is read. *)
HandledAfterRead == \A m \in Messages : mail[m] # "Read" => handled[m] = 0

MailInv == TypeOK /\ UnreadOK /\ HandledAfterRead /\ HandledOnce

LEMMA InitMailInv == Init => MailInv
<1> SUFFICES ASSUME Init PROVE MailInv
  OBVIOUS
<1>1. TypeOK
  BY DEF Init, TypeOK
<1>2. \A x \in Sessions : DOMAIN unread[x] = {}
  BY DEF Init
<1>3. UnreadOK
  BY <1>2 DEF UnreadOK
<1>4. HandledAfterRead /\ HandledOnce
  BY DEF Init, HandledAfterRead, HandledOnce
<1> QED
  BY <1>1, <1>3, <1>4 DEF MailInv

(* Steps that leave messages where they are. *)
LEMMA QuietMailInv ==
  ASSUME MailInv, TypeOK', UNCHANGED <<unread, mail, handled>>
  PROVE  MailInv'
BY DEF MailInv, UnreadOK, HandledAfterRead, HandledOnce

(* The readings of a conversation are its unread messages, each once. *)
LEMMA SomeOrder ==
  ASSUME NEW S \in SUBSET Messages, NEW q \in InSomeOrder(S)
  PROVE  /\ q \in Seq(Messages) /\ DOMAIN q = 1..Len(q) /\ Len(q) \in Nat
         /\ \A i \in 1..Len(q) : q[i] \in S
         /\ \A i, j \in 1..Len(q) : q[i] = q[j] => i = j
<1>1. Cardinality(S) \in Nat
  BY MessagesAssumption, FS_Subset, FS_CardinalityType
<1>2. q \in [1..Cardinality(S) -> S] /\ \A i, j \in DOMAIN q : q[i] = q[j] => i = j
  BY DEF InSomeOrder
<1>3. q \in Seq(Messages) /\ Len(q) = Cardinality(S)
  BY <1>1, <1>2
<1> QED
  BY <1>1, <1>2, <1>3

(* get_unread reads one conversation: its messages were with nobody. *)
LEMMA ReadMailInv ==
  ASSUME MailInv, NEW x \in Sessions, ReadFromChannel(x)
  PROVE  MailInv'
<1>1. PICK c \in channels[x] :
         LET fresh == {m \in Messages : In[m] = c /\ mail[m] = "Unread"} IN
         /\ channels' = [channels EXCEPT ![x] = @ \ {c}]
         /\ \E q \in InSomeOrder(fresh) : unread' = [unread EXCEPT ![x] = @ \o q]
         /\ mail' = [m \in Messages |-> IF m \in fresh THEN "Read" ELSE mail[m]]
  BY DEF ReadFromChannel
<1> DEFINE fresh == {m \in Messages : In[m] = c /\ mail[m] = "Unread"}
<1>2. PICK q \in InSomeOrder(fresh) : unread' = [unread EXCEPT ![x] = @ \o q]
  BY <1>1
<1>3. /\ q \in Seq(Messages) /\ DOMAIN q = 1..Len(q) /\ Len(q) \in Nat
      /\ \A i \in 1..Len(q) : q[i] \in fresh
      /\ \A i, j \in 1..Len(q) : q[i] = q[j] => i = j
  <2> HIDE DEF fresh
  <2>1. fresh \in SUBSET Messages
    BY DEF fresh
  <2> QED
    BY <2>1, SomeOrder
<1>4. UNCHANGED <<handle, stopped, th, stopSignal, subscribed, dropped, handled>>
  BY DEF ReadFromChannel, replVars
<1> PICK u, n : u = unread[x] /\ n = Len(unread[x])
  OBVIOUS
<1>5. /\ u \in Seq(Messages) /\ n \in Nat /\ DOMAIN u = 1..n
      /\ \A y \in Sessions : unread[y] \in Seq(Messages)
  BY DEF MailInv, TypeOK
<1>6. /\ unread'[x] \in Seq(Messages)
      /\ DOMAIN unread'[x] = 1..(n + Len(q))
      /\ \A i \in 1..n : unread'[x][i] = u[i]
      /\ \A i \in 1..Len(q) : unread'[x][n + i] = q[i]
      /\ \A y \in Sessions \ {x} : unread'[y] = unread[y]
  <2>1. unread'[x] = u \o q /\ \A y \in Sessions \ {x} : unread'[y] = unread[y]
    BY <1>2 DEF MailInv, TypeOK
  <2> QED
    BY <1>3, <1>5, <2>1
<1>7. \A m \in Messages :
         /\ m \in fresh => mail[m] = "Unread" /\ mail'[m] = "Read"
         /\ m \notin fresh => mail'[m] = mail[m]
  BY <1>1
<1>8. TypeOK'
  <2>1. mail' \in [Messages -> {"None", "Unread", "Read"}]
    BY <1>1 DEF MailInv, TypeOK
  <2>2. channels' \in [Sessions -> SUBSET Channels]
    BY <1>1 DEF MailInv, TypeOK
  <2>3. unread' \in [Sessions -> Seq(Messages)]
    BY <1>2, <1>6 DEF MailInv, TypeOK
  <2> QED
    BY <1>4, <2>1, <2>2, <2>3 DEF MailInv, TypeOK
<1> DEFINE Old(y, i) == y \in Sessions /\ i \in DOMAIN unread[y] /\ unread'[y][i] = unread[y][i]
           New(y, i) == y = x /\ i - n \in 1..Len(q) /\ i = n + (i - n)
                        /\ unread'[y][i] = q[i - n]
<1>9. ASSUME NEW y \in Sessions, NEW i \in DOMAIN unread'[y] PROVE Old(y, i) \/ New(y, i)
  <2>1. CASE y # x
    BY <1>6, <1>9, <2>1
  <2>2. CASE y = x /\ i <= n
    BY <1>5, <1>6, <1>9, <2>2
  <2>3. CASE y = x /\ i > n
    <3>0. i \in 1..(n + Len(q)) /\ n \in Nat /\ Len(q) \in Nat /\ i > n
      BY <1>3, <1>5, <1>6, <1>9, <2>3
    <3>1. i - n \in 1..Len(q) /\ i = n + (i - n)
      BY <3>0
    <3> QED
      BY <1>6, <2>3, <3>1
  <2> QED
    BY <1>5, <1>6, <1>9, <2>1, <2>2, <2>3, <1>3
<1>10. ASSUME NEW y, NEW i, Old(y, i)
       PROVE  /\ unread'[y][i] \in Messages /\ unread'[y][i] \notin fresh
              /\ mail[unread'[y][i]] = "Read" /\ handled[unread'[y][i]] = 0
  <2>1. mail[unread[y][i]] = "Read" /\ handled[unread[y][i]] = 0 /\ unread[y][i] \in Messages
    BY <1>5, <1>10 DEF MailInv, UnreadOK
  <2> QED
    BY <1>10, <2>1
<1>11. ASSUME NEW y, NEW i, New(y, i)
       PROVE  /\ unread'[y][i] \in Messages /\ unread'[y][i] \in fresh
              /\ handled[unread'[y][i]] = 0
  <2>1. unread'[y][i] \in fresh
    BY <1>3, <1>11
  <2> QED
    BY <2>1 DEF MailInv, HandledAfterRead
<1>12. ASSUME NEW y \in Sessions, NEW i \in DOMAIN unread'[y],
              NEW z \in Sessions, NEW j \in DOMAIN unread'[z], unread'[y][i] = unread'[z][j]
       PROVE  y = z /\ i = j
  <2>1. CASE Old(y, i) /\ Old(z, j)
    <3>1. unread[y][i] = unread[z][j]
      BY <1>12, <2>1
    <3> QED
      BY <2>1, <3>1 DEF MailInv, UnreadOK
  <2>2. CASE New(y, i) /\ New(z, j)
    <3>1. q[i - n] = q[j - n]
      BY <1>12, <2>2
    <3>2. i - n = j - n
      BY <1>3, <2>2, <3>1
    <3> QED
      BY <2>2, <3>2
  <2>3. CASE Old(y, i) /\ New(z, j)
    BY <1>10, <1>11, <1>12, <2>3
  <2>4. CASE New(y, i) /\ Old(z, j)
    BY <1>10, <1>11, <1>12, <2>4, SMTT(30)
  <2> HIDE DEF Old, New
  <2> QED
    BY <1>9, <2>1, <2>2, <2>3, <2>4
<1> HIDE DEF Old, New, fresh
<1>13. UnreadOK'
  <2>1. ASSUME NEW y \in Sessions, NEW i \in DOMAIN unread'[y]
        PROVE  mail'[unread'[y][i]] = "Read" /\ handled'[unread'[y][i]] = 0
    BY <1>4, <1>7, <1>9, <1>10, <1>11
  <2> QED
    BY <1>12, <2>1 DEF UnreadOK
<1>14. HandledAfterRead' /\ HandledOnce'
  BY <1>4, <1>7 DEF MailInv, HandledAfterRead, HandledOnce
<1> QED
  BY <1>8, <1>13, <1>14 DEF MailInv

(* A failed get_unread throws away what it has read. *)
LEMMA FailMailInv ==
  ASSUME MailInv, NEW x \in Sessions, GetUnreadFails(x)
  PROVE  MailInv'
<1> USE DEF GetUnreadFails, replVars, mailVars
<1>1. TypeOK'
  <2>1. th' \in [Sessions -> Alive \cup {"None", "Ended", "Dead"}]
    BY DEF MailInv, TypeOK, Alive
  <2>2. unread' \in [Sessions -> Seq(Messages)]
    BY DEF MailInv, TypeOK
  <2>3. dropped' \in [Sessions -> BOOLEAN] /\ channels' \in [Sessions -> SUBSET Channels]
    BY DEF MailInv, TypeOK
  <2> QED
    BY <2>1, <2>2, <2>3 DEF MailInv, TypeOK
<1>2. \A y \in Sessions : unread'[y] = IF y = x THEN <<>> ELSE unread[y]
  BY DEF MailInv, TypeOK
<1>3. \A y \in Sessions : \A i \in DOMAIN unread'[y] :
         i \in DOMAIN unread[y] /\ unread'[y][i] = unread[y][i]
  BY <1>2
<1>4. UnreadOK'
  BY <1>3 DEF MailInv, UnreadOK
<1>5. HandledAfterRead' /\ HandledOnce'
  BY DEF MailInv, HandledAfterRead, HandledOnce
<1> QED
  BY <1>1, <1>4, <1>5 DEF MailInv

(* on_slate gets the first message of the batch, which no thread has again. *)
LEMMA OnSlateMailInv ==
  ASSUME MailInv, NEW x \in Sessions, OnSlate(x)
  PROVE  MailInv'
<1> PICK u, m : u = unread[x] /\ m = Head(u)
  OBVIOUS
<1>0. u \in Seq(Messages) /\ u # <<>> /\ Len(u) \in Nat /\ 1 \in DOMAIN u /\ m = u[1]
  BY DEF OnSlate, MailInv, TypeOK
<1>1. m \in Messages /\ mail[m] = "Read" /\ handled[m] = 0
  BY <1>0 DEF MailInv, UnreadOK
<1>2. /\ UNCHANGED <<handle, stopped, stopSignal, subscribed, dropped, channels, mail>>
      /\ th' \in [Sessions -> Alive \cup {"None", "Ended", "Dead"}]
  BY DEF OnSlate, replVars, At, MailInv, TypeOK, Alive
<1>3. /\ handled' \in [Messages -> Nat] /\ handled'[m] = 1
      /\ \A k \in Messages \ {m} : handled'[k] = handled[k]
  BY <1>1 DEF OnSlate, MailInv, TypeOK
<1>4. /\ unread' \in [Sessions -> Seq(Messages)]
      /\ unread'[x] = Tail(u) /\ \A y \in Sessions \ {x} : unread'[y] = unread[y]
  BY <1>0 DEF OnSlate, MailInv, TypeOK
<1>5. TypeOK'
  BY <1>2, <1>3, <1>4 DEF MailInv, TypeOK
<1> DEFINE From(y, i) == IF y = x THEN i + 1 ELSE i
<1>6. ASSUME NEW y \in Sessions, NEW i \in DOMAIN unread'[y]
      PROVE  /\ From(y, i) \in DOMAIN unread[y] /\ i \in Nat
             /\ unread'[y][i] = unread[y][From(y, i)]
             /\ y = x => From(y, i) # 1
  <2>1. CASE y = x
    <3>1. i \in 1..(Len(u) - 1) /\ unread'[y][i] = u[i + 1]
      BY <1>0, <1>4, <1>6, <2>1
    <3> QED
      BY <1>0, <2>1, <3>1
  <2>2. CASE y # x
    <3>1. unread[y] \in Seq(Messages) /\ unread'[y] = unread[y]
      BY <1>4, <2>2 DEF MailInv, TypeOK
    <3> QED
      BY <1>6, <2>2, <3>1
  <2> QED
    BY <2>1, <2>2
<1>7. UnreadOK'
  <2>1. ASSUME NEW y \in Sessions, NEW i \in DOMAIN unread'[y]
        PROVE  mail'[unread'[y][i]] = "Read" /\ handled'[unread'[y][i]] = 0
    <3> PICK k : k = From(y, i)
      OBVIOUS
    <3>1. k \in DOMAIN unread[y] /\ unread'[y][i] = unread[y][k] /\ (y = x => k # 1)
      BY <1>6, <2>1
    <3>2. mail[unread[y][k]] = "Read" /\ handled[unread[y][k]] = 0
      BY <3>1 DEF MailInv, UnreadOK
    <3>3. unread[y][k] # m
      BY <1>0, <3>1 DEF MailInv, UnreadOK
    <3>4. unread[y][k] \in Messages
      BY <3>1 DEF MailInv, TypeOK
    <3> QED
      BY <1>2, <1>3, <3>1, <3>2, <3>3, <3>4
  <2>2. ASSUME NEW y \in Sessions, NEW i \in DOMAIN unread'[y],
               NEW z \in Sessions, NEW j \in DOMAIN unread'[z], unread'[y][i] = unread'[z][j]
        PROVE  y = z /\ i = j
    <3>1. /\ From(y, i) \in DOMAIN unread[y] /\ From(z, j) \in DOMAIN unread[z]
          /\ unread[y][From(y, i)] = unread[z][From(z, j)]
          /\ i \in Nat /\ j \in Nat
      BY <1>6, <2>2
    <3>2. y = z /\ From(y, i) = From(z, j)
      <4> HIDE DEF From
      <4> QED
        BY <3>1 DEF MailInv, UnreadOK
    <3> QED
      BY <3>1, <3>2
  <2> QED
    BY <2>1, <2>2 DEF UnreadOK
<1>8. HandledAfterRead' /\ HandledOnce'
  BY <1>1, <1>2, <1>3 DEF MailInv, HandledAfterRead, HandledOnce
<1> QED
  BY <1>5, <1>7, <1>8 DEF MailInv

(* A new message is with nobody. *)
LEMMA SendMailInv ==
  ASSUME MailInv, NEW m \in Messages, Send(m)
  PROVE  MailInv'
<1>1. /\ UNCHANGED <<handle, stopped, th, stopSignal, subscribed, dropped, channels, unread, handled>>
      /\ mail' = [mail EXCEPT ![m] = "Unread"] /\ mail[m] = "None"
  BY DEF Send, replVars, sessionVars
<1>2. TypeOK'
  BY <1>1 DEF MailInv, TypeOK
<1>3. \A k \in Messages : mail[k] = "Read" <=> mail'[k] = "Read"
  BY <1>1 DEF MailInv, TypeOK
<1>4. \A y \in Sessions : \A i \in DOMAIN unread[y] : unread[y][i] \in Messages
  BY DEF MailInv, TypeOK
<1>5. UnreadOK'
  BY <1>1, <1>3, <1>4 DEF MailInv, UnreadOK
<1>6. HandledAfterRead' /\ HandledOnce'
  BY <1>1, <1>3 DEF MailInv, HandledAfterRead, HandledOnce
<1> QED
  BY <1>2, <1>5, <1>6 DEF MailInv

LEMMA StepMailInv == MailInv /\ [Next]_vars => MailInv'
<1> SUFFICES ASSUME MailInv, [Next]_vars PROVE MailInv'
  OBVIOUS
<1> USE DEF replVars, mailVars, sessionVars
<1>1. CASE Stop
  <2>1. TypeOK' /\ UNCHANGED <<unread, mail, handled>>
    BY <1>1 DEF Stop, IsRunning, MailInv, TypeOK
  <2> QED
    BY <2>1, QuietMailInv
<1>2. ASSUME NEW x \in Sessions, Listen(x) PROVE MailInv'
  <2>1. TypeOK' /\ UNCHANGED <<unread, mail, handled>>
    BY <1>2 DEF Listen, MailInv, TypeOK, Alive
  <2> QED
    BY <2>1, QuietMailInv
<1>3. ASSUME NEW x \in Sessions, ThreadStep(x) PROVE MailInv'
  <2>1. CASE ReadFromChannel(x) \/ GetUnreadFails(x) \/ OnSlate(x)
    BY <2>1, ReadMailInv, FailMailInv, OnSlateMailInv
  <2>2. CASE \/ Start(x) \/ LeaveLoop(x) \/ ListConversations(x) \/ GotUnread(x)
             \/ DeserializeFails(x) \/ Reply(x) \/ BatchDone(x) \/ Wake(x)
    <3>1. UNCHANGED <<unread, mail, handled>>
      BY <2>2 DEF Start, LeaveLoop, ListConversations, GotUnread, DeserializeFails,
         Reply, BatchDone, Wake
    <3>2. TypeOK'
      BY <2>2, ZenonT(60) DEF Start, LeaveLoop, ListConversations, GotUnread, DeserializeFails,
         Reply, BatchDone, Wake, At, MailInv, TypeOK, Alive
    <3> QED
      BY <3>1, <3>2, QuietMailInv
  <2> QED
    BY <1>3, <2>1, <2>2 DEF ThreadStep
<1>4. CASE UNCHANGED vars
  <2>1. TypeOK' /\ UNCHANGED <<unread, mail, handled>>
    BY <1>4 DEF vars, MailInv, TypeOK
  <2> QED
    BY <2>1, QuietMailInv
<1> QED
  BY <1>1, <1>2, <1>3, <1>4, SendMailInv DEF Next

(* Messages that threads hold are read, unhandled and held once, whichever
   sessions overlap and whichever readings fail (broker/keybase.rs:218-317). *)
THEOREM MailInvariant == Spec => []MailInv
BY InitMailInv, StepMailInv, PTL DEF Spec

(* The listener keeps its data well formed. *)
THEOREM KeybaseTypeCorrect == Spec => []TypeOK
<1>1. MailInv => TypeOK
  BY DEF MailInv
<1> QED
  BY <1>1, MailInvariant, PTL

(* No slate is handed to on_slate twice, although a stopped thread may still be
   busy with its batch when a new one polls: reading marks a message as read. *)
THEOREM EachSlateOnce == Spec => []HandledOnce
<1>1. MailInv => HandledOnce
  BY DEF MailInv
<1> QED
  BY <1>1, MailInvariant, PTL
-----------------------------------------------------------------------------
(* The mwcmq (grinbox) listener: what it tells the user of its connection,   *)
(* for any number of sessions and of retries.                                *)

CONSTANTS MaxRetries, Width, OverflowPanics

VARIABLES mqHandle, mqTh, inner, retries, connected, mqSubscribed, announced, mqStopped

Grinbox == INSTANCE GrinboxListener WITH
    handle <- mqHandle, th <- mqTh, subscribed <- mqSubscribed, stopped <- mqStopped

(* The counter of retries can count (grinbox.rs:232), as BoundsAssumption of
   GrinboxListener says. *)
RetriesCount == MaxRetries \in Nat \ {0}

(* Nothing is connected or announced at the start. *)
LEMMA InitAnnounceInv == ASSUME RetriesCount, Grinbox!Init PROVE Grinbox!AnnounceInv
BY DEF RetriesCount, Grinbox!Init, Grinbox!AnnounceInv, Grinbox!TypeOK,
   Grinbox!ConnectionAnnounced, Grinbox!Alive, Grinbox!Online

(* The REPL starts and stops threads; the threads themselves announce. *)
LEMMA ReplAnnounceInv ==
  ASSUME Grinbox!AnnounceInv, Grinbox!Stop \/ \E x \in Grinbox!Sessions : Grinbox!Listen(x)
  PROVE  Grinbox!AnnounceInv'
<1> USE DEF Grinbox!AnnounceInv, Grinbox!TypeOK, Grinbox!ConnectionAnnounced
<1>1. CASE Grinbox!Stop
  BY <1>1 DEF Grinbox!Stop, Grinbox!IsRunning
<1>2. CASE \E x \in Grinbox!Sessions : Grinbox!Listen(x)
  BY <1>2 DEF Grinbox!Listen, Grinbox!Alive, Grinbox!Online
<1> QED
  BY <1>1, <1>2

(* The steps of the listener thread. *)
LEMMA ThreadAnnounceInv ==
  ASSUME RetriesCount, Grinbox!AnnounceInv, NEW x \in Grinbox!Sessions, Grinbox!ThreadStep(x)
  PROVE  Grinbox!AnnounceInv'
<1> USE DEF Grinbox!AnnounceInv, Grinbox!TypeOK, Grinbox!ConnectionAnnounced,
            Grinbox!Alive, Grinbox!Online, Grinbox!At
<1>1. CASE Grinbox!Subscribe(x)
  BY <1>1 DEF Grinbox!Subscribe
<1>2. CASE Grinbox!Connect(x)
  BY <1>2 DEF Grinbox!Connect
<1>3. CASE Grinbox!ConnectFails(x)
  BY <1>3 DEF Grinbox!ConnectFails
<1>4. CASE Grinbox!OnOpen(x)
  BY <1>4 DEF Grinbox!OnOpen, RetriesCount
<1>5. CASE Grinbox!OnChallenge(x)
  BY <1>5 DEF Grinbox!OnChallenge
<1>6. CASE Grinbox!OnMessage(x)
  BY <1>6 DEF Grinbox!OnMessage
<1>7. CASE Grinbox!OnSlate(x)
  BY <1>7 DEF Grinbox!OnSlate
<1>8. CASE Grinbox!ConnectReturns(x)
  BY <1>8 DEF Grinbox!ConnectReturns
<1>9. CASE Grinbox!IsStopped(x)
  BY <1>9 DEF Grinbox!IsStopped
<1>10. CASE Grinbox!BackOff(x)
  BY <1>10 DEF Grinbox!BackOff
<1>11. CASE Grinbox!Retry(x)
  BY <1>11 DEF Grinbox!Retry, RetriesCount
<1> QED
  BY <1>1, <1>2, <1>3, <1>4, <1>5, <1>6, <1>7, <1>8, <1>9, <1>10, <1>11
     DEF Grinbox!ThreadStep

(* Every step preserves the invariant. *)
LEMMA NextAnnounceInv ==
  ASSUME RetriesCount, Grinbox!AnnounceInv, [Grinbox!Next]_(Grinbox!vars)
  PROVE  Grinbox!AnnounceInv'
<1>1. CASE Grinbox!Next
  BY <1>1, ReplAnnounceInv, ThreadAnnounceInv DEF Grinbox!Next
<1>2. CASE UNCHANGED Grinbox!vars
  BY <1>2 DEF Grinbox!vars, Grinbox!AnnounceInv, Grinbox!TypeOK, Grinbox!ConnectionAnnounced
<1> QED
  BY <1>1, <1>2

(* retries and connected_at_least_once agree with what was announced, at
   every place of the reconnection loop (grinbox.rs:187-236, 289-303). *)
THEOREM AnnounceInvariant ==
  ASSUME RetriesCount
  PROVE  Grinbox!Spec => []Grinbox!AnnounceInv
<1>1. Grinbox!Init => Grinbox!AnnounceInv
  BY InitAnnounceInv
<1>2. Grinbox!AnnounceInv /\ [Grinbox!Next]_(Grinbox!vars) => Grinbox!AnnounceInv'
  BY NextAnnounceInv
<1> QED
  BY <1>1, <1>2, PTL DEF Grinbox!Spec

(* The user is always told whether the listener has its connection: every
   loss is announced before the listener sleeps, every return by on_open. *)
THEOREM LossesAreAnnounced ==
  ASSUME RetriesCount
  PROVE  Grinbox!Spec => []Grinbox!ConnectionAnnounced
<1>1. Grinbox!AnnounceInv => Grinbox!ConnectionAnnounced
  BY DEF Grinbox!AnnounceInv
<1> QED
  BY <1>1, AnnounceInvariant, PTL
=============================================================================
