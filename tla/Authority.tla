----------------------------- MODULE Authority -----------------------------
(***************************************************************************)
(* What a CA puts into a certificate: issue of src/ca/authority.rs, the    *)
(* extensions of src/ca/extensions.rs, and the serial numbers of           *)
(* src/ca/serial.rs with the other forms in which they leave the program.  *)
(*                                                                         *)
(* A byte is a number below Base, so that a small Base and a short serial  *)
(* have the same edges as 256 and 16: a first byte that is zero, or whose  *)
(* top bit would make a DER INTEGER negative.                              *)
(***************************************************************************)
EXTENDS Naturals, Sequences

CONSTANTS
  Base,         \* values of a byte, even
  SerialBytes,  \* bytes of a serial number, and of the integer Intune takes
  Oids,         \* strings that parse as an object identifier
  LastDay,      \* the last day a certificate can name, in year 9999
  Nothing,      \* an absent value
  Noise         \* bytes that do not decode

\* A byte with its top bit clear can be other than zero.
ASSUME BytesAssumption == Base \in Nat /\ Base >= 4 /\ SerialBytes \in Nat \ {0}

Half == Base \div 2

-----------------------------------------------------------------------------
(***************************************************************************)
(* Serial numbers: sequences of bytes, the most significant one first.     *)
(***************************************************************************)

\* SerialNumber::new: a DER INTEGER has no superfluous leading zero, and one
\* in front of a byte with its top bit set.
SerialNumber(bytes) ==
  LET Zeros == {n \in 0..(Len(bytes) - 1) : \A i \in 1..n : bytes[i] = 0}
      first == CHOOSE n \in Zeros : \A k \in Zeros : k <= n
      tail  == SubSeq(bytes, first + 1, Len(bytes))
  IN  IF tail[1] < Half THEN tail ELSE <<0>> \o tail

\* Mutated form of RandomSerial: the top bit stays.
RandomSerialSigned(bytes) == SerialNumber(bytes)

\* random_serial, from the random bytes it draws.
RandomSerial(bytes) ==
  LET low == bytes[1] % Half
  IN  SerialNumber([bytes EXCEPT ![1] = IF low = 0 THEN 1 ELSE low])

\* The number that the bytes of a serial denote.
Value(bytes) ==
  LET v[n \in 0..Len(bytes)] == IF n = 0 THEN 0 ELSE v[n - 1] * Base + bytes[n]
  IN  v[Len(bytes)]

\* serial_decimal: the number, as long as it fits a u128, else the hex digits.
SerialDecimal(bytes) == IF Len(bytes) <= SerialBytes THEN Value(bytes) ELSE Noise

\* The serial of a row, read back for a CRL.
CrlSerial(bytes) == SerialNumber(bytes)

-----------------------------------------------------------------------------
(***************************************************************************)
(* Extensions.                                                             *)
(***************************************************************************)

UsageNames ==
  {<<"digitalSignature", "DigitalSignature">>, <<"nonRepudiation", "NonRepudiation">>,
   <<"contentCommitment", "NonRepudiation">>, <<"keyEncipherment", "KeyEncipherment">>,
   <<"dataEncipherment", "DataEncipherment">>, <<"keyAgreement", "KeyAgreement">>,
   <<"keyCertSign", "KeyCertSign">>, <<"cRLSign", "CRLSign">>, <<"crlSign", "CRLSign">>}

\* key_usage: the flags of the configured names, or an error.
KeyUsage(names) ==
  IF names \subseteq {u[1] : u \in UsageNames}
  THEN {u[2] : u \in {v \in UsageNames : v[1] \in names}}
  ELSE Noise

\* extended_key_usage: three names, and object identifiers.
ExtendedKeyUsage(names) ==
  IF names \subseteq {"clientAuth", "serverAuth", "emailProtection"} \cup Oids THEN names ELSE Noise

\* Mutated form of RequestedSan: only the first attribute is looked at.
RequestedSanFirst(requests) ==
  IF requests = <<>> THEN Nothing
  ELSE IF requests[1] = Noise THEN Noise
  ELSE IF requests[1] = <<>> THEN Nothing ELSE requests[1][1]

\* requested_san: a CSR's extension requests are looked at in turn, up to the
\* first that does not decode (an error) or that has a SAN, the first of which
\* decides.  An attribute without a value is a request of nothing.
RequestedSan(requests) ==
  LET Telling == {i \in 1..Len(requests) : requests[i] = Noise \/ requests[i] # <<>>}
      first   == CHOOSE i \in Telling : \A j \in Telling : i <= j
  IN  IF Telling = {} THEN Nothing
      ELSE IF requests[first] = Noise THEN Noise
      ELSE requests[first][1]

-----------------------------------------------------------------------------
\* Mutated form of NotAfter: any date will do.
NotAfterUnchecked(today, days) == today + days

\* Validity::from_now: a date, or an error beyond the last one.
NotAfter(today, days) == IF today + days <= LastDay THEN today + days ELSE Noise

\* issue: the certificate of a CSR, or Nothing where any part of it cannot be
\* built: a not-after beyond the last day, a usage that is not known, an
\* extension request or a SAN that does not decode, or a URL that is not an
\* IA5String.  Of the CSR it takes the subject, the key and the SAN.
Issue(ca, csr, opts, today, bytes) ==
  LET usage    == KeyUsage(opts.key_usage)
      extended == ExtendedKeyUsage(opts.extended_key_usage)
      san      == RequestedSan(csr.requests)
      until    == NotAfter(today, opts.validity_days)
  IN  IF \/ Noise \in {until} \/ Noise \in {usage, extended, san}
         \/ ~ opts.urlsAreIa5
      THEN Nothing
      ELSE [kind |-> "cert", issuer |-> ca.name, serial |-> RandomSerial(bytes),
            not_before |-> today, not_after |-> until,
            subject |-> csr.subject, key |-> csr.key, ca |-> FALSE,
            key_usage |-> usage, extended_key_usage |-> extended, san |-> san]
=============================================================================
