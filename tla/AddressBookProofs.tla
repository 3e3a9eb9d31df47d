-------------------------- MODULE AddressBookProofs --------------------------
(***************************************************************************)
(* What holds of the contacts for every set of names, keys, hosts and      *)
(* ports.  The argument is about the conversions: the text of an address   *)
(* is read back as an address with that text, and where the two defaults   *)
(* for the port agree (every build but the one for Windows) also with that *)
(* endpoint.                                                               *)
(***************************************************************************)
EXTENDS AddressBook, TLAPS

LEMMA AddressCases ==
    ASSUME NEW a \in Address
    PROVE  \/ a \in [type : {"MWCMQS", "Grinbox"}, id : PublicKeys, domain : Domains,
                     tail : Ports \cup {None}]
           \/ a \in [type : {"Keybase"}, id : Users, domain : {None}, tail : Topics \cup {None}]
           \/ a \in [type : {"Https"}, id : Urls, domain : {None}, tail : {None}]
BY DEF Address

(* An address that was parsed is one: each parser fills the fields in.     *)
LEMMA ParsedIsAddress ==
    ASSUME NEW t \in Texts, NEW type \in {"MWCMQS", "Grinbox"}
    PROVE  /\ IsOk(QueueFromStr(type, t)) => QueueFromStr(type, t) \in Address
           /\ IsOk(KeybaseFromStr(t)) => KeybaseFromStr(t) \in Address
           /\ IsOk(HttpsFromStr(t)) => HttpsFromStr(t) \in Address
<1>1. IsOk(QueueFromStr(type, t)) => QueueFromStr(type, t) \in Address
  <2>1. SUFFICES ASSUME IsOk(QueueFromStr(type, t))
                 PROVE  QueueFromStr(type, t) \in Address
    OBVIOUS
  <2>2. /\ QueueRegex(type, t) /\ t.body \in PublicKeys
        /\ t.tail = None \/ PortOf[t.tail] # None
    BY <2>1 DEF QueueFromStr, IsOk, Err, Panicked, AddressType
  <2>3. t.domain \in Domains \cup {None} /\ (t.tail # None => t.tail \in Digits)
    BY <2>2 DEF Texts, QueueRegex
  <2>4. t.tail # None => PortOf[t.tail] \in Ports
    BY <2>2, <2>3, PortOfAssumption
  <2>5. QueueDomain(type) \in Domains
    BY WordsAssumption DEF QueueDomain
  <2>. QED
    BY <2>2, <2>3, <2>4, <2>5 DEF QueueFromStr, Address
<1>2. IsOk(KeybaseFromStr(t)) => KeybaseFromStr(t) \in Address
  BY DEF KeybaseFromStr, IsOk, Err, AddressType, Address
<1>3. IsOk(HttpsFromStr(t)) => HttpsFromStr(t) \in Address
  BY DEF HttpsFromStr, IsOk, Err, AddressType, Address
<1>. QED
  BY <1>1, <1>2, <1>3

LEMMA ParseIsAddress ==
    ASSUME NEW t \in Texts
    PROVE  /\ IsOk(Parse(t)) => Parse(t) \in Address
           /\ IsOk(ParseOrMwcmq(t)) => ParseOrMwcmq(t) \in Address
<1>1. t.scheme \in Schemes \cup {None}
  BY DEF Texts
<1>2. \/ Parse(t) = QueueFromStr("MWCMQS", t) \/ Parse(t) = QueueFromStr("Grinbox", t)
      \/ Parse(t) = KeybaseFromStr(t) \/ Parse(t) = HttpsFromStr(t)
  BY <1>1 DEF Parse, Schemes
<1>3. IsOk(Parse(t)) => Parse(t) \in Address
  BY <1>2, ParsedIsAddress
<1>. QED
  BY <1>3, ParsedIsAddress DEF ParseOrMwcmq

(* The text of an address is a text, and the parser of its kind, which is  *)
(* the one Address::parse picks, reads it back.                            *)
LEMMA DisplayQueue ==
    ASSUME NEW a \in [type : {"MWCMQS", "Grinbox"}, id : PublicKeys, domain : Domains,
                      tail : Ports \cup {None}]
    PROVE  /\ Display(a) \in Texts
           /\ Parse(Display(a)) = QueueFromStr(a.type, Display(a))
           /\ QueueFromStr(a.type, Display(a)) =
                [a EXCEPT !.tail = IF WritesPort(a) THEN a.tail ELSE None]
<1>. DEFINE d == Display(a)
<1>1. d = [scheme |-> QueueScheme(a.type), body |-> a.id,
           domain |-> IF WritesDomain(a) THEN a.domain ELSE None,
           tail |-> IF WritesPort(a) THEN a.tail ELSE None]
  BY DEF Display, WritesDomain
<1>2. d \in Texts
  BY <1>1, WordsAssumption DEF Texts, Schemes, QueueScheme, WritesPort
<1>3. Parse(d) = QueueFromStr(a.type, d)
  BY <1>1, WordsAssumption DEF Parse, QueueScheme
<1>4. QueueRegex(a.type, d)
  BY <1>1, WordsAssumption DEF QueueRegex, WritesPort, WritesDomain
<1>5. d.tail # None => PortOf[d.tail] = d.tail /\ d.tail # None
  BY <1>1, PortOfAssumption DEF WritesPort
<1>6. d.body \in PublicKeys /\ d.body = a.id
  BY <1>1
<1>7. (IF d.domain = None THEN QueueDomain(a.type) ELSE d.domain) = a.domain
  BY <1>1, WordsAssumption DEF WritesDomain
<1>8. (IF d.tail = None THEN None ELSE PortOf[d.tail]) = (IF WritesPort(a) THEN a.tail ELSE None)
  BY <1>1, <1>5 DEF WritesPort
<1>9. QueueFromStr(a.type, d) = [type |-> a.type, id |-> a.id, domain |-> a.domain,
          tail |-> IF WritesPort(a) THEN a.tail ELSE None]
  BY <1>4, <1>5, <1>6, <1>7, <1>8 DEF QueueFromStr
<1>. QED
  BY <1>2, <1>3, <1>9

LEMMA DisplayOther ==
    ASSUME NEW a \in Address, a.type \in {"Keybase", "Https"}
    PROVE  /\ Display(a) \in Texts
           /\ Parse(Display(a)) = a
           /\ FromStr(a.type, Display(a)) = a
<1>1. CASE a \in [type : {"Keybase"}, id : Users, domain : {None}, tail : Topics \cup {None}]
  <2>1. Display(a) = [scheme |-> "keybase", body |-> a.id, domain |-> None, tail |-> a.tail]
    BY <1>1 DEF Display
  <2>2. KeybaseFromStr(Display(a)) = a
    BY <1>1, <2>1 DEF KeybaseFromStr
  <2>3. Parse(Display(a)) = KeybaseFromStr(Display(a))
    BY <2>1, WordsAssumption DEF Parse
  <2>. QED
    BY <1>1, <2>1, <2>2, <2>3 DEF FromStr, Texts, Schemes
<1>2. CASE a \in [type : {"Https"}, id : Urls, domain : {None}, tail : {None}]
  <2>1. Display(a) = [scheme |-> "https", body |-> a.id, domain |-> None, tail |-> None]
    BY <1>2 DEF Display
  <2>2. HttpsFromStr(Display(a)) = a
    BY <1>2, <2>1 DEF HttpsFromStr
  <2>3. Parse(Display(a)) = HttpsFromStr(Display(a))
    BY <2>1, WordsAssumption DEF Parse
  <2>. QED
    BY <1>2, <2>1, <2>2, <2>3 DEF FromStr, Texts, Schemes
<1>. QED
  BY <1>1, <1>2, AddressCases

(* Displaying what was read back gives the same text, and it is posted to  *)
(* the same endpoint.                                                      *)
SamePorts == DEFAULT_GRINBOX_PORT = DEFAULT_MWCMQS_PORT

LEMMA QueueEndpoint ==
    ASSUME NEW a \in [type : {"MWCMQS", "Grinbox"}, id : PublicKeys, domain : Domains,
                      tail : Ports \cup {None}],
           SamePorts
    PROVE  Endpoint(a) = [type |-> a.type, id |-> a.id, domain |-> a.domain,
                          tail |-> IF WritesPort(a) THEN a.tail ELSE DEFAULT_GRINBOX_PORT]
<1>1. Endpoint(a) = [a EXCEPT !.tail = IF a.tail # None THEN a.tail ELSE DEFAULT_GRINBOX_PORT]
  BY DEF Endpoint, SamePorts
<1>. QED
  BY <1>1 DEF WritesPort

LEMMA ReadBack ==
    ASSUME NEW a \in Address
    PROVE  /\ Display(a) \in Texts
           /\ Parse(Display(a)) \in Address
           /\ IsOk(Parse(Display(a)))
           /\ FromStr(a.type, Display(a)) = Parse(Display(a))
           /\ Parse(Display(a)).type = a.type
           /\ Display(Parse(Display(a))) = Display(a)
           /\ SamePorts => Endpoint(Parse(Display(a))) = Endpoint(a)
<1>. DEFINE Q == [type : {"MWCMQS", "Grinbox"}, id : PublicKeys, domain : Domains,
                  tail : Ports \cup {None}]
<1>1. CASE a \in Q
  <2>. DEFINE b == [a EXCEPT !.tail = IF WritesPort(a) THEN a.tail ELSE None]
  <2>1. Display(a) \in Texts /\ Parse(Display(a)) = b /\ QueueFromStr(a.type, Display(a)) = b
    BY <1>1, DisplayQueue
  <2>2. b \in Q /\ b.type = a.type /\ b.id = a.id /\ b.domain = a.domain
    BY <1>1
  <2>3. WritesPort(b) = WritesPort(a) /\ (WritesPort(a) => b.tail = a.tail)
    BY <1>1 DEF WritesPort
  <2>4. Display(b) = Display(a)
    BY <1>1, <2>2, <2>3 DEF Display, WritesDomain
  <2>5. SamePorts => Endpoint(b) = Endpoint(a)
    BY <1>1, <2>2, <2>3, QueueEndpoint
  <2>6. IsOk(b) /\ b \in Address
    BY <2>2 DEF IsOk, AddressType, Address
  <2>7. FromStr(a.type, Display(a)) = b
    BY <1>1, <2>1 DEF FromStr
  <2>. QED
    BY <2>1, <2>2, <2>4, <2>5, <2>6, <2>7
<1>2. CASE a.type \in {"Keybase", "Https"}
  <2>1. IsOk(a)
    BY <1>2 DEF IsOk, AddressType
  <2>. QED
    BY <1>2, <2>1, DisplayOther
<1>. QED
  BY <1>1, <1>2, AddressCases

(* What each command posts to, of an address.                              *)
LEMMA PostedAsIs ==
    ASSUME NEW a \in Address, SamePorts
    PROVE  Posted(a) = Endpoint(a)
BY ReadBack DEF Posted

LEMMA PostedBySend ==
    ASSUME NEW a \in Address, SamePorts
    PROVE  Posted(SendTo(a)) =
             [Endpoint(a) EXCEPT !.tail = IF a.type = "Keybase" THEN TOPIC_SLATE_NEW ELSE @]
<1>. DEFINE K == [type : {"Keybase"}, id : Users, domain : {None}, tail : Topics \cup {None}]
<1>1. CASE a \in K
  <2>. DEFINE b == [a EXCEPT !.tail = TOPIC_SLATE_NEW]
  <2>1. SendTo(a) = b
    BY <1>1, DisplayOther DEF SendTo
  <2>2. b \in K /\ b \in Address
    BY <1>1, WordsAssumption DEF Address
  <2>3. Posted(b) = Endpoint(b)
    BY <2>2, PostedAsIs
  <2>4. Endpoint(b) = b
    BY <1>1, WordsAssumption DEF Endpoint
  <2>5. Endpoint(a) = [a EXCEPT !.tail = IF a.tail # None THEN a.tail ELSE TOPIC_WALLET713_SLATES]
    BY <1>1 DEF Endpoint
  <2>. QED
    BY <1>1, <2>1, <2>3, <2>4, <2>5
<1>2. CASE a.type # "Keybase"
  <2>1. SendTo(a) \in Address /\ Endpoint(SendTo(a)) = Endpoint(a)
    BY <1>2, ReadBack DEF SendTo
  <2>2. Posted(SendTo(a)) = Endpoint(a)
    BY <2>1, PostedAsIs
  <2>3. [Endpoint(a) EXCEPT !.tail = @] = Endpoint(a)
    BY AddressCases DEF Endpoint
  <2>. QED
    BY <1>2, <2>2, <2>3
<1>. QED
  BY <1>1, <1>2, AddressCases

LEMMA ParseOrMwcmqText ==
    ASSUME NEW a \in Address
    PROVE  ParseOrMwcmq(Display(a)) = Parse(Display(a))
BY ReadBack DEF ParseOrMwcmq, IsOk, AddressType

(* Two addresses have one text exactly when they have one endpoint, if one *)
(* of them is of a queue: what get_contact_by_address relies on.           *)
LEMMA TextIsEndpoint ==
    ASSUME NEW a \in Address, NEW b \in Address, b.type \in {"MWCMQS", "Grinbox"},
           SamePorts
    PROVE  Display(a) = Display(b) <=> Endpoint(a) = Endpoint(b)
<1>. DEFINE Q == [type : {"MWCMQS", "Grinbox"}, id : PublicKeys, domain : Domains,
                  tail : Ports \cup {None}]
<1>1. b \in Q
  BY AddressCases
<1>2. Endpoint(b).type = b.type /\ Display(b).scheme \in {"mwcmqs", "mwcmq"}
  BY <1>1, QueueEndpoint DEF Display, QueueScheme
<1>3. CASE a \in Q
  <2>1. Display(a) = Display(b) => Endpoint(a) = Endpoint(b)
    BY ReadBack
  <2>2. ASSUME Endpoint(a) = Endpoint(b) PROVE Display(a) = Display(b)
    <3>1. a.type = b.type /\ a.id = b.id /\ a.domain = b.domain
      BY <1>1, <1>3, <2>2, QueueEndpoint
    <3>2. (IF WritesPort(a) THEN a.tail ELSE DEFAULT_GRINBOX_PORT)
            = (IF WritesPort(b) THEN b.tail ELSE DEFAULT_GRINBOX_PORT)
      BY <1>1, <1>3, <2>2, QueueEndpoint
    <3>3. WritesPort(a) = WritesPort(b) /\ (WritesPort(a) => a.tail = b.tail)
      BY <3>2 DEF WritesPort
    <3>. QED
      BY <1>1, <1>3, <3>1, <3>3 DEF Display, WritesDomain
  <2>. QED
    BY <2>1, <2>2
<1>4. CASE a.type \in {"Keybase", "Https"}
  <2>1. Display(a).scheme \in {"keybase", "https"}
    BY <1>4 DEF Display
  <2>2. Endpoint(a).type = a.type
    BY AddressCases DEF Endpoint
  <2>. QED
    BY <1>2, <1>4, <2>1, <2>2
<1>. QED
  BY <1>3, <1>4, AddressCases

-----------------------------------------------------------------------------
(* The book holds, under each name, the text of the address that was typed. *)
Kept ==
    \A n \in DOMAIN book :
        /\ IsOk(ParseOrMwcmq(typed[n]))
        /\ book[n] = Display(ParseOrMwcmq(typed[n]))

BookInv == TypeOK /\ Kept

LEMMA InitBook == Init => BookInv
BY DEF Init, BookInv, TypeOK, Kept

LEMMA StepBook == BookInv /\ [Next]_vars => BookInv'
<1>. SUFFICES ASSUME BookInv, [Next]_vars PROVE BookInv'
  OBVIOUS
<1>. USE DEF BookInv
<1>1. ASSUME NEW n \in Names, NEW t \in Inputs, ContactsAdd(n, t) PROVE BookInv'
  <2>. DEFINE a == ParseOrMwcmq(t)
  <2>1. CASE IsOk(a) /\ ~(a = Panicked)
    <3>1. /\ book' = [m \in DOMAIN book \cup {n} |-> IF m = n THEN Display(a) ELSE book[m]]
          /\ typed' = [m \in DOMAIN book \cup {n} |-> IF m = n THEN t ELSE typed[m]]
          /\ dead' = dead /\ shown' = shown
      BY <1>1, <2>1 DEF ContactsAdd, NewContact
    <3>2. t \in Texts /\ a \in Address
      BY <2>1, InputsAssumption, ParseIsAddress
    <3>3. TypeOK'
      BY <3>1, <3>2 DEF TypeOK
    <3>4. Kept'
      BY <2>1, <3>1 DEF Kept, TypeOK
    <3>. QED
      BY <3>3, <3>4
  <2>2. CASE a = Panicked
    <3>1. ~IsOk(a)
      BY <2>2 DEF IsOk, Panicked, AddressType
    <3>2. dead' = dead \cup {"cli"} /\ UNCHANGED << book, typed, shown >>
      BY <1>1, <3>1 DEF ContactsAdd
    <3>. QED
      BY <3>2 DEF TypeOK, Kept, Threads
  <2>. QED
    BY <1>1, <2>1, <2>2 DEF ContactsAdd
<1>2. ASSUME NEW n \in Names, ContactsRemove(n) PROVE BookInv'
  BY <1>2 DEF ContactsRemove, TypeOK, Kept
<1>3. ASSUME NEW a \in Address, Announce(a) PROVE BookInv'
  <2>1. UNCHANGED << book, typed, dead >>
    BY <1>3 DEF Announce
  <2>2. shown' \in [from : Address, name : Names \cup {None}]
    BY <1>3 DEF Announce, NamesOf, TypeOK
  <2>. QED
    BY <2>1, <2>2 DEF TypeOK, Kept
<1>4. ASSUME NEW type \in {"MWCMQS", "Grinbox"}, NEW t \in Inputs, OnQueueSlate(type, t)
      PROVE  BookInv'
  <2>. DEFINE a == QueueFromStr(type, t)
  <2>1. CASE IsOk(a) /\ Announce(a)
    BY <1>3, <2>1, InputsAssumption, ParsedIsAddress
  <2>2. CASE dead' = dead \cup {type} /\ UNCHANGED << book, typed, shown >>
    BY <2>2 DEF TypeOK, Kept, Threads
  <2>. QED
    BY <1>4, <2>1, <2>2 DEF OnQueueSlate
<1>5. ASSUME NEW user \in Users, NEW topic \in REPLY_TOPICS, OnKeybaseSlate(user, topic)
      PROVE  BookInv'
  <2>1. [type |-> "Keybase", id |-> user, domain |-> None, tail |-> topic] \in Address
    BY WordsAssumption DEF Address
  <2>. QED
    BY <1>3, <1>5, <2>1 DEF OnKeybaseSlate
<1>6. CASE Restart
  BY <1>6 DEF Restart, TypeOK, Kept
<1>7. CASE UNCHANGED vars
  BY <1>7 DEF vars, TypeOK, Kept
<1>. QED
  BY <1>1, <1>2, <1>4, <1>5, <1>6, <1>7 DEF Next

(* Every record of the store is the text of an address (Contact::new).     *)
THEOREM StoreIsAddresses == Spec => []TypeOK
<1>1. Init => BookInv
  BY InitBook
<1>2. BookInv /\ [Next]_vars => BookInv'
  BY StepBook
<1>. QED
  BY <1>1, <1>2, PTL DEF Spec, BookInv

LEMMA KeptAddress ==
    ASSUME BookInv, NEW n \in DOMAIN book
    PROVE  /\ ParseOrMwcmq(typed[n]) \in Address
           /\ IsOk(ReadContact(n))
           /\ Display(ReadContact(n)) = Display(ParseOrMwcmq(typed[n]))
<1>1. ParseOrMwcmq(typed[n]) \in Address
  BY ParseIsAddress DEF BookInv, TypeOK, Kept
<1>. QED
  BY <1>1, ReadBack DEF BookInv, Kept, ReadContact

(* `invoice' and `send' to a contact post to the endpoint the contact was  *)
(* added with (`send' by keybase: to that user's topic for new slates), in *)
(* a build where both queues have one default port.                        *)
THEOREM ContactsReach ==
    ASSUME SamePorts
    PROVE  Spec => []ContactReaches
<1>1. BookInv => ContactReaches
  <2>. SUFFICES ASSUME BookInv, NEW n \in DOMAIN book
                PROVE  LET a  == ParseOrMwcmq(typed[n])
                           to == ParseOrMwcmq(Display(ReadContact(n)))
                       IN  /\ IsOk(ReadContact(n)) /\ IsOk(to)
                           /\ to.type # "Https" => Posted(to) = Endpoint(a)
                           /\ Posted(SendTo(to)) =
                                [Endpoint(a) EXCEPT !.tail =
                                   IF a.type = "Keybase" THEN TOPIC_SLATE_NEW ELSE @]
    BY DEF ContactReaches
  <2>. DEFINE a == ParseOrMwcmq(typed[n])
              b == Parse(Display(a))
  <2>1. a \in Address /\ IsOk(ReadContact(n)) /\ Display(ReadContact(n)) = Display(a)
    BY KeptAddress
  <2>2. b \in Address /\ IsOk(b) /\ Endpoint(b) = Endpoint(a) /\ Display(b) = Display(a)
    BY <2>1, ReadBack
  <2>3. ParseOrMwcmq(Display(ReadContact(n))) = b
    BY <2>1, ParseOrMwcmqText
  <2>4. Posted(b) = Endpoint(a)
    BY <2>2, PostedAsIs
  <2>5. Posted(SendTo(b)) =
          [Endpoint(b) EXCEPT !.tail = IF b.type = "Keybase" THEN TOPIC_SLATE_NEW ELSE @]
    BY <2>2, PostedBySend
  <2>6. b.type = a.type
    BY <2>1, ReadBack
  <2>. QED
    BY <2>1, <2>2, <2>3, <2>4, <2>5, <2>6
<1>2. Init => BookInv
  BY InitBook
<1>3. BookInv /\ [Next]_vars => BookInv'
  BY StepBook
<1>. QED
  BY <1>1, <1>2, <1>3, PTL DEF Spec

(* add_contact never takes a name that is used for free: every record can  *)
(* be read.                                                                *)
THEOREM NamesStay == Spec => NamesKept
<1>1. BookInv /\ [Next]_vars
        => [\A n \in DOMAIN book \cap DOMAIN book' : book'[n] = book[n]]_vars
  <2>. SUFFICES ASSUME BookInv, [Next]_vars, NEW m \in DOMAIN book \cap DOMAIN book'
                PROVE  book'[m] = book[m]
    OBVIOUS
  <2>1. ASSUME NEW n \in Names, NEW t \in Inputs, ContactsAdd(n, t) PROVE book'[m] = book[m]
    <3>1. CASE IsOk(ParseOrMwcmq(t)) /\ ~IsOk(GetContact(n))
               /\ book' = [k \in DOMAIN book \cup {n} |->
                             IF k = n THEN NewContact(t, ParseOrMwcmq(t)) ELSE book[k]]
      <4>1. n \notin DOMAIN book
        BY <3>1, KeptAddress DEF GetContact
      <4>. QED
        BY <3>1, <4>1
    <3>2. CASE UNCHANGED book
      BY <3>2
    <3>. QED
      BY <2>1, <3>1, <3>2 DEF ContactsAdd
  <2>2. ASSUME NEW n \in Names, ContactsRemove(n) PROVE book'[m] = book[m]
    BY <2>2 DEF ContactsRemove
  <2>3. CASE UNCHANGED book
    BY <2>3
  <2>. QED
    BY <2>1, <2>2, <2>3 DEF Next, OnQueueSlate, OnKeybaseSlate, Announce, Restart, vars
<1>2. Init => BookInv
  BY InitBook
<1>3. BookInv /\ [Next]_vars => BookInv'
  BY StepBook
<1>. QED
  BY <1>1, <1>2, <1>3, PTL DEF Spec, NamesKept

(* A slate of a queue is announced under a contact's name exactly when a   *)
(* contact has the sender's endpoint.                                      *)
THEOREM SendersNamed ==
    ASSUME SamePorts
    PROVE  Spec => SenderNamed
<1>. DEFINE Same(a) == {n \in DOMAIN book : Endpoint(ParseOrMwcmq(typed[n])) = Endpoint(a)}
            Step == /\ shown' # shown
                    /\ shown'.from # None
                    /\ shown'.from.type \in {"MWCMQS", "Grinbox"}
                    => LET same == {n \in DOMAIN book :
                             Endpoint(ParseOrMwcmq(typed[n])) = Endpoint(shown'.from)}
                       IN  IF same = {} THEN shown'.name = None ELSE shown'.name \in same
<1>1. BookInv /\ [Next]_vars => [Step]_vars
  <2>. SUFFICES ASSUME BookInv, [Next]_vars, shown' # shown, shown'.from # None,
                       shown'.from.type \in {"MWCMQS", "Grinbox"}
                PROVE  IF Same(shown'.from) = {} THEN shown'.name = None
                       ELSE shown'.name \in Same(shown'.from)
    BY DEF vars
  <2>1. ASSUME NEW a \in Address, Announce(a)
        PROVE  IF Same(shown'.from) = {} THEN shown'.name = None
               ELSE shown'.name \in Same(shown'.from)
    <3>1. shown'.from = a
      BY <2>1 DEF Announce
    <3>2. NamesOf(a) = Same(a)
      <4>. SUFFICES ASSUME NEW n \in DOMAIN book
                    PROVE  (IsOk(ReadContact(n)) /\ Display(ReadContact(n)) = Display(a))
                             <=> Endpoint(ParseOrMwcmq(typed[n])) = Endpoint(a)
        BY DEF NamesOf
      <4>. QED
        BY <3>1, KeptAddress, TextIsEndpoint
    <3>. QED
      BY <2>1, <3>1, <3>2 DEF Announce
  <2>2. ASSUME NEW type \in {"MWCMQS", "Grinbox"}, NEW t \in Inputs, OnQueueSlate(type, t)
        PROVE  \E a \in Address : Announce(a)
    BY <2>2, InputsAssumption, ParsedIsAddress DEF OnQueueSlate
  <2>3. ASSUME NEW user \in Users, NEW topic \in REPLY_TOPICS, OnKeybaseSlate(user, topic)
        PROVE  \E a \in Address : Announce(a)
    <3>1. [type |-> "Keybase", id |-> user, domain |-> None, tail |-> topic] \in Address
      BY WordsAssumption DEF Address
    <3>. QED
      BY <2>3, <3>1 DEF OnKeybaseSlate
  <2>4. ~Restart
    BY DEF Restart, Silence
  <2>. QED
    BY <2>1, <2>2, <2>3, <2>4 DEF Next, ContactsAdd, ContactsRemove, vars
<1>2. Init => BookInv
  BY InitBook
<1>3. BookInv /\ [Next]_vars => BookInv'
  BY StepBook
<1>. QED
  BY <1>1, <1>2, <1>3, PTL DEF Spec, SenderNamed
=============================================================================
