---------------------------- MODULE MCAddressBook ----------------------------
(* Two hosts, each the default of one queue, two ports, one of them the    *)
(* default, written in more than one way, and words that are no port.      *)
EXTENDS AddressBook, TLC

MCPortOf ==
    "443" :> "443" @@ "0443" :> "443" @@ "80" :> "80" @@ "" :> None @@ "70000" :> None

Text(scheme, body, domain, tail) ==
    [scheme |-> scheme, body |-> body, domain |-> domain, tail |-> tail]

MCInputs ==
    { Text(None, "key", None, None), Text(None, "key", "mqs", "0443"),
      Text(None, "key", "mqs", "80"), Text(None, "key", "mq", None),
      Text(None, "key", "mq", "443"), Text(None, "key", "mq", ""),
      Text(None, "no key", None, None), Text(None, "user", None, None),
      Text("mwcmqs", "key", None, None), Text("mwcmqs", "key", "mq", "80"),
      Text("mwcmqs", "key", "mqs", "70000"), Text("mwcmqs", "no key", None, None),
      Text("mwcmq", "key", None, None), Text("mwcmq", "key", "mq", "80"),
      Text("mwcmq", "key", "mqs", "443"),
      Text("keybase", "user", None, None), Text("keybase", "user", None, "grin_slate_signed"),
      Text("https", "uri", None, None) }
=============================================================================
