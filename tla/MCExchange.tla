----------------------------- MODULE MCExchange -----------------------------
(***************************************************************************)
(* Small instances of Exchange: two CAs, one profile of each, devices with *)
(* certificates of every kind, and requests that differ from a plain one   *)
(* in one respect each.                                                    *)
(***************************************************************************)
EXTENDS Exchange

CONSTANTS nameA, nameB, skiA, skiB, keyA, keyB, nameD, nameLong, skiD, keyD, keyNew, keyShort, keyEc,
          d1, d2, one, two, t, u, subject, san1, san2, ca1, ca2

MCCert == [c \in CAs |-> IF c = ca1 THEN [name |-> nameA, ski |-> skiA, key |-> keyA]
                         ELSE [name |-> nameB, ski |-> skiB, key |-> keyB]]
MCCaOf == [r \in Profiles |-> IF r = one THEN ca1 ELSE ca2]

Plain == [validity_days |-> 1, key_usage |-> {"digitalSignature", "crlSign"},
          extended_key_usage |-> {"clientAuth"}, urlsAreIa5 |-> TRUE]

\* The second profile asks for dates that cannot be written.
MCOptions == [r \in Profiles |-> IF r = one THEN Plain ELSE [Plain EXCEPT !.validity_days = 5]]

Device(name, key) == [name |-> name, ski |-> skiD, key |-> key]

Csr(key, requests) == [kind |-> "csr", subject |-> subject, key |-> key, requests |-> requests]

Simple == [own |-> Device(nameD, keyD), type |-> "PKCSReq", txn |-> t, digest |-> "SHA-256", cipher |-> "AES-128-CBC",
           way |-> "named", plain |-> Csr(keyD, <<>>)]

\* A renewal is signed with the old key and is for a new one.
Renewal == [Simple EXCEPT !.type = "RenewalReq", !.plain = Csr(keyNew, <<<<>>, <<san1, san2>>, Noise>>)]

\* Requests with a way of naming the recipients each, and the rest.
ByWays == {[Simple EXCEPT !.way = w] : w \in Ways}

Others == {Renewal,
           [Renewal EXCEPT !.own = Device(nameLong, keyD)],
           [Simple EXCEPT !.own = Device(nameD, keyShort)],
           [Simple EXCEPT !.own = Device(nameD, keyEc)],
           [Simple EXCEPT !.txn = u],
           [Simple EXCEPT !.txn = u, !.cipher = "RC2"],
           [Simple EXCEPT !.digest = "SHA-1", !.cipher = "DES-EDE3-CBC"],
           [Simple EXCEPT !.digest = "SHA-512"],
           [Simple EXCEPT !.type = "GetCert"],
           [Simple EXCEPT !.plain = Nothing],
           [Simple EXCEPT !.plain = Noise],
           [Simple EXCEPT !.plain = Csr(keyD, <<Noise>>)]}

Everything == ByWays \cup Others

\* Requests of another device, to be mixed up with those.
Mixed == {Renewal, [Simple EXCEPT !.way = "first"], [Simple EXCEPT !.way = "foreign"]}

MCOrders == [d \in Devices |-> IF d = d1 THEN Everything ELSE Mixed]

\* The first byte is zero, or has its top bit set.
MCDraws == {<<0, 0>>, <<2, 1>>}
=============================================================================
