----------------------------- MODULE AddressBook -----------------------------
(***************************************************************************)
(* Addresses and the contacts kept under names (src/contacts).             *)
(*                                                                         *)
(* An address is text wherever it is kept or handed on: typed at the       *)
(* prompt, stored with a contact, written to the transaction log, sent to  *)
(* a message queue.  Between any two of these it is parsed and displayed   *)
(* again, and displaying leaves out what is the default.  A text is the    *)
(* record of the groups its regular expression captures: the scheme, the   *)
(* body (a public key, a user name, the rest of an uri), what follows "@"  *)
(* and what follows the last ":".                                          *)
(*                                                                         *)
(* The command line and the listeners' threads share the book; its mutex   *)
(* is held for each operation, so an operation is one step.                *)
(***************************************************************************)
EXTENDS FiniteSets

CONSTANTS
    Names,                  \* names of contacts
    Base58,                 \* words of 52 base 58 digits
    PublicKeys,             \* the ones that are keys of this chain
    Users,                  \* words that can be user names of keybase
    Urls,                   \* uris Url::parse takes
    Domains,                \* names of hosts
    Digits,                 \* words of digits, the empty word too
    Ports,                  \* the decimal numbers of 16 bits
    PortOf,                 \* u16::from_str_radix, None where it fails
    Topics,                 \* words that can be topics of keybase
    Inputs,                 \* the texts that are typed or come with a message
    DEFAULT_GRINBOX_DOMAIN, DEFAULT_MWCMQS_DOMAIN,
    DEFAULT_GRINBOX_PORT,   \* 443; 80 in a build for Windows
    DEFAULT_MWCMQS_PORT,
    TOPIC_SLATE_NEW,        \* the topic a send by keybase is posted to
    TOPIC_WALLET713_SLATES, \* the topic of an address of keybase without one
    REPLY_TOPICS,           \* topics of replies by keybase
    None

ASSUME WordsAssumption ==
    /\ PublicKeys \subseteq Base58 /\ Ports \subseteq Digits
    /\ Base58 \cap Users = {} /\ Base58 \cap Urls = {} /\ Users \cap Urls = {}
    /\ {DEFAULT_GRINBOX_DOMAIN, DEFAULT_MWCMQS_DOMAIN} \subseteq Domains
    /\ {DEFAULT_GRINBOX_PORT, DEFAULT_MWCMQS_PORT} \subseteq Ports
    /\ REPLY_TOPICS \cup {TOPIC_SLATE_NEW} \subseteq Topics
    /\ None \notin Names \cup Base58 \cup Users \cup Urls \cup Domains \cup Digits \cup Topics

\* A port displayed is read back as itself.
ASSUME PortOfAssumption ==
    /\ PortOf \in [Digits -> Ports \cup {None}]
    /\ \A p \in Ports : PortOf[p] = p

\* "https" stands for http:// too; the body is then the whole uri.
Schemes == {"mwcmqs", "mwcmq", "keybase", "https"}

Texts ==
    [scheme : Schemes \cup {None}, body : Base58 \cup Users \cup Urls,
     domain : Domains \cup {None}, tail : Digits \cup Topics \cup {None}]

ASSUME InputsAssumption == Inputs \subseteq Texts

AddressType == {"MWCMQS", "Grinbox", "Keybase", "Https"}

\* tail: the port or, of keybase, the topic.
Address ==
    [type : {"MWCMQS", "Grinbox"}, id : PublicKeys, domain : Domains,
     tail : Ports \cup {None}]
    \cup [type : {"Keybase"}, id : Users, domain : {None}, tail : Topics \cup {None}]
    \cup [type : {"Https"}, id : Urls, domain : {None}, tail : {None}]

\* What parsing may end with besides an address.
Err      == [type |-> "Err"]
Panicked == [type |-> "Panicked"]
IsOk(a)  == a.type \in AddressType

-----------------------------------------------------------------------------
(* Parsing *)

\* The two queues differ in the scheme and in the domain that is the default.
QueueScheme(type) == IF type = "MWCMQS" THEN "mwcmqs" ELSE "mwcmq"
QueueDomain(type) ==
    IF type = "MWCMQS" THEN DEFAULT_MWCMQS_DOMAIN ELSE DEFAULT_GRINBOX_DOMAIN

QueueRegex(type, t) ==
    /\ t.scheme \in {None, QueueScheme(type)}
    /\ t.body \in Base58
    /\ t.tail # None => t.domain # None /\ t.tail \in Digits

(* The port is unwrapped before the key is looked at. *)
QueueFromStr(type, t) ==
    IF ~QueueRegex(type, t)
    THEN Err
    ELSE IF t.tail # None /\ PortOf[t.tail] = None
    THEN Panicked
    ELSE IF t.body \notin PublicKeys
    THEN Err
    ELSE [type |-> type, id |-> t.body,
          domain |-> IF t.domain = None THEN QueueDomain(type) ELSE t.domain,
          tail |-> IF t.tail = None THEN None ELSE PortOf[t.tail]]

KeybaseFromStr(t) ==
    IF /\ t.scheme \in {None, "keybase"} /\ t.body \in Users
       /\ t.domain = None /\ t.tail \in Topics \cup {None}
    THEN [type |-> "Keybase", id |-> t.body, domain |-> None, tail |-> t.tail]
    ELSE Err

HttpsFromStr(t) ==
    IF t.scheme = "https" /\ t.body \in Urls /\ t.domain = None /\ t.tail = None
    THEN [type |-> "Https", id |-> t.body, domain |-> None, tail |-> None]
    ELSE Err

\* Address::parse: a text without a scheme is an address of mwcmqs.
Parse(t) ==
    CASE t.scheme \in {None, "mwcmqs"} -> QueueFromStr("MWCMQS", t)
      [] t.scheme = "mwcmq"   -> QueueFromStr("Grinbox", t)
      [] t.scheme = "keybase" -> KeybaseFromStr(t)
      [] t.scheme = "https"   -> HttpsFromStr(t)

\* The commands try mwcmq once Parse has failed.
ParseOrMwcmq(t) ==
    IF Parse(t).type = "Err" THEN QueueFromStr("Grinbox", t) ELSE Parse(t)

FromStr(type, t) ==
    CASE type \in {"MWCMQS", "Grinbox"} -> QueueFromStr(type, t)
      [] type = "Keybase" -> KeybaseFromStr(t)
      [] type = "Https"   -> HttpsFromStr(t)

-----------------------------------------------------------------------------
(* Displaying *)

(* Mutant: a port that is the default is written too. *)
WritesPortAlways(a) == a.tail # None

\* Of both queues it is the default port of mwcmq that is left out.
WritesPort(a) == a.tail # None /\ a.tail # DEFAULT_GRINBOX_PORT

(* Mutant: the domain is left out whenever it is the default one. *)
WritesDomainAlone(a) == a.domain # QueueDomain(a.type)

WritesDomain(a) == a.domain # QueueDomain(a.type) \/ WritesPort(a)

Display(a) ==
    CASE a.type \in {"MWCMQS", "Grinbox"} ->
           [scheme |-> QueueScheme(a.type), body |-> a.id,
            domain |-> IF WritesDomain(a) THEN a.domain ELSE None,
            tail |-> IF WritesDomain(a) /\ WritesPort(a) THEN a.tail ELSE None]
      [] a.type = "Keybase" ->
           [scheme |-> "keybase", body |-> a.id, domain |-> None, tail |-> a.tail]
      [] a.type = "Https" ->
           [scheme |-> "https", body |-> a.id, domain |-> None, tail |-> None]

(***************************************************************************)
(* Where a slate for this address goes: mwcmqs is told key, domain and     *)
(* port, mwcmq connects to domain and port, keybase is told the user and   *)
(* the topic.                                                              *)
(***************************************************************************)
Endpoint(a) ==
    [a EXCEPT !.tail = IF a.tail # None
                       THEN a.tail
                       ELSE CASE a.type = "MWCMQS"  -> DEFAULT_MWCMQS_PORT
                              [] a.type = "Grinbox" -> DEFAULT_GRINBOX_PORT
                              [] a.type = "Keybase" -> TOPIC_WALLET713_SLATES
                              [] OTHER              -> None]

\* Publisher::post_slate displays what it is given and parses that again.
Posted(a) == Endpoint(FromStr(a.type, Display(a)))

(***************************************************************************)
(* The address `send' hands to the publisher: two kinds are displayed and  *)
(* parsed on the way, and of keybase the topic is replaced by the one for  *)
(* new slates; https is no publisher, the slate is put to that uri.        *)
(* `invoice' hands on the address as it is and refuses https.              *)
(***************************************************************************)
SendTo(a) ==
    CASE a.type = "MWCMQS"  -> FromStr(a.type, Display(a))
      [] a.type = "Keybase" -> [FromStr(a.type, Display(a)) EXCEPT !.tail = TOPIC_SLATE_NEW]
      [] OTHER -> a

-----------------------------------------------------------------------------
(* The book *)

\* The process ends with the command line's thread.
Threads == {"cli", "MWCMQS", "Grinbox"}

VARIABLES
    book,     \* the stored contacts: the text under each name that is used
    typed,    \* the text each of them was added with
    dead,     \* threads that have panicked
    shown     \* the last slate announced: who it is from, the name printed

vars == << book, typed, dead, shown >>

Silence == [from |-> None, name |-> None]

Init ==
    /\ book = [n \in {} |-> None]
    /\ typed = [n \in {} |-> None]
    /\ dead = {}
    /\ shown = Silence

(* Mutant: a stored contact is read with the parser of mwcmqs. *)
ReadContactAsMwcmqs(n) == QueueFromStr("MWCMQS", book[n])

(* Readable for Contact parses the stored text and displays it again. *)
ReadContact(n) == Parse(book[n])

GetContact(n) == IF n \in DOMAIN book THEN ReadContact(n) ELSE Err

(* Mutant: the contact keeps the text that was typed. *)
NewContactTyped(t, a) == t

NewContact(t, a) == Display(a)

\* contacts add: parsing comes before the book is looked at.
ContactsAdd(n, t) ==
    LET a == ParseOrMwcmq(t) IN
    /\ "cli" \notin dead
    /\ \/ /\ IsOk(a) /\ ~IsOk(GetContact(n))
          /\ book' = [m \in DOMAIN book \cup {n} |-> IF m = n THEN NewContact(t, a) ELSE book[m]]
          /\ typed' = [m \in DOMAIN book \cup {n} |-> IF m = n THEN t ELSE typed[m]]
          /\ UNCHANGED << dead, shown >>
       \/ /\ a = Panicked
          /\ dead' = dead \cup {"cli"}
          /\ UNCHANGED << book, typed, shown >>

\* contacts remove: a name that is not there is an error of the store.
ContactsRemove(n) ==
    /\ "cli" \notin dead
    /\ n \in DOMAIN book
    /\ book' = [m \in DOMAIN book \ {n} |-> book[m]]
    /\ typed' = [m \in DOMAIN book \ {n} |-> typed[m]]
    /\ UNCHANGED << dead, shown >>

(* get_contact_by_address compares texts; the contacts are read for it. *)
NamesOf(a) ==
    {n \in DOMAIN book : IsOk(ReadContact(n)) /\ Display(ReadContact(n)) = Display(a)}

\* on_slate prints the name of the first contact that has the address.
Announce(a) ==
    /\ \/ \E n \in NamesOf(a) : shown' = [from |-> a, name |-> n]
       \/ NamesOf(a) = {} /\ shown' = [from |-> a, name |-> None]
    /\ UNCHANGED << book, typed, dead >>

\* The sender's address comes with the message, without its scheme.
OnQueueSlate(type, t) ==
    LET a == QueueFromStr(type, t) IN
    /\ dead \cap {"cli", type} = {}
    /\ t.scheme = None
    /\ \/ IsOk(a) /\ Announce(a)
       \/ /\ a = Panicked
          /\ dead' = dead \cup {type}
          /\ UNCHANGED << book, typed, shown >>

OnKeybaseSlate(user, topic) ==
    /\ "cli" \notin dead
    /\ Announce([type |-> "Keybase", id |-> user, domain |-> None, tail |-> topic])

\* The process is started again; the book is on disk.
Restart ==
    /\ dead # {}
    /\ dead' = {}
    /\ shown' = Silence
    /\ UNCHANGED << book, typed >>

Next ==
    \/ \E n \in Names, t \in Inputs : ContactsAdd(n, t)
    \/ \E n \in Names : ContactsRemove(n)
    \/ \E type \in {"MWCMQS", "Grinbox"}, t \in Inputs : OnQueueSlate(type, t)
    \/ \E user \in Users, topic \in REPLY_TOPICS : OnKeybaseSlate(user, topic)
    \/ Restart

Spec == Init /\ [][Next]_vars

-----------------------------------------------------------------------------
(* Properties *)

(* Every record of the store is the text of an address, whatever was typed *)
(* to make it (Contact::new in types.rs).                                  *)
TypeOK ==
    /\ DOMAIN book \subseteq Names
    /\ \A n \in DOMAIN book : \E a \in Address : book[n] = Display(a)
    /\ DOMAIN typed = DOMAIN book
    /\ \A n \in DOMAIN typed : typed[n] \in Texts
    /\ dead \subseteq Threads
    /\ shown = Silence \/ shown \in [from : Address, name : Names \cup {None}]

(* `invoice --to @name' posts to the endpoint of the address the contact   *)
(* was added with, and so does `send --to @name', except that by keybase   *)
(* it is the user's topic for new slates whatever topic the contact has:   *)
(* reading the record, taking its text, parsing that, handing it on and    *)
(* posting lose nothing, up to five conversions that leave defaults out.   *)
ContactReaches ==
    \A n \in DOMAIN book :
        LET a  == ParseOrMwcmq(typed[n])
            to == ParseOrMwcmq(Display(ReadContact(n)))
        IN  /\ IsOk(ReadContact(n)) /\ IsOk(to)
            /\ to.type # "Https" => Posted(to) = Endpoint(a)
            /\ Posted(SendTo(to)) =
                 [Endpoint(a) EXCEPT !.tail = IF a.type = "Keybase" THEN TOPIC_SLATE_NEW ELSE @]

(* A contact that is in the book is changed by no command but its removal: *)
(* add_contact takes a record it cannot read for a name that is free.      *)
NamesKept ==
    [][\A n \in DOMAIN book \cap DOMAIN book' : book'[n] = book[n]]_vars

(* A slate from a queue is announced under a contact's name if and only if *)
(* a contact has the sender's endpoint, although get_contact_by_address    *)
(* compares texts and a port may be there, be left out or be the default.  *)
SenderNamed ==
    [][ /\ shown' # shown
        /\ shown'.from # None
        /\ shown'.from.type \in {"MWCMQS", "Grinbox"}
        => LET same == {n \in DOMAIN book :
                            Endpoint(ParseOrMwcmq(typed[n])) = Endpoint(shown'.from)}
           IN  IF same = {} THEN shown'.name = None ELSE shown'.name \in same ]_vars
=============================================================================
