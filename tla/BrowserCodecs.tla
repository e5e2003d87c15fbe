---- MODULE BrowserCodecs ----
(***************************************************************************)
(* The pure functions of browser-effects.ts: Base32, base64url, the TOTP   *)
(* arithmetic and the conversion of WebAuthn options and credentials       *)
(* between JSON and the browser's objects.  Characters are numbers: the    *)
(* digits of the alphabet first, then the signs that are none of them.     *)
(***************************************************************************)
EXTENDS Integers, Sequences, TLC

LOCAL INSTANCE FiniteSetsExt

\* The k-th of the n bits of a digit, the most significant first.
BitOf(digit, n, k) == (digit \div 2^(n - k)) % 2
Bits(digits, n) ==
  [i \in 1..(n * Len(digits)) |-> BitOf(digits[1 + ((i - 1) \div n)], n, 1 + ((i - 1) % n))]
\* The m-bit digit after the first i bits, zeros beyond the last.
DigitAt(bits, i, m) ==
  MapThenSumSet(LAMBDA k : 2^(m - k) * bits[i + k], {k \in 1..m : i + k \in DOMAIN bits})
Digits(bits, m, count) == [j \in 1..count |-> DigitAt(bits, m * (j - 1), m)]

\* An exception, where a sequence was due.
Thrown == <<-1>>

(***************************************************************************)
(* Base32: 0..31 the alphabet, then the padding, a space, any other sign.  *)
(***************************************************************************)
Padding32 == 32
Space32 == 33
Other32 == 34

WithoutTail(s, x) ==
  LET kept == {n \in 0..Len(s) : \A i \in (n + 1)..Len(s) : s[i] = x}
  IN SubSeq(s, 1, CHOOSE n \in kept : \A k \in kept : n <= k)

\* Trailing padding goes before the spaces do; bits short of a byte are dropped.
decodeBase32(value) ==
  LET clean == SelectSeq(WithoutTail(value, Padding32), LAMBDA x : x # Space32)
      bits == Bits(clean, 5)
  IN IF \E i \in DOMAIN clean : clean[i] >= 32 THEN Thrown
     ELSE Digits(bits, 8, Len(bits) \div 8)

(***************************************************************************)
(* Base64: 0..61 letters and digits, then the two signs of either alphabet *)
(* and the padding.  btoa and atob are the browser's.                      *)
(***************************************************************************)
Plus == 62
Slash == 63
Minus == 64
Underscore == 65
Equals == 66

Ceiling(a, b) == (a + b - 1) \div b
Replaced(s, x, y) == [i \in DOMAIN s |-> IF s[i] = x THEN y ELSE s[i]]
Padded(s, n) == s \o [i \in 1..(n - Len(s)) |-> Equals]

btoa(bytes) ==
  Padded(Digits(Bits(bytes, 8), 6, Ceiling(8 * Len(bytes), 6)), 4 * Ceiling(Len(bytes), 3))
atob(text) ==
  LET digits == WithoutTail(text, Equals)
  IN IF Len(text) % 4 # 0 \/ Len(text) - Len(digits) > 2
        \/ \E i \in DOMAIN digits : digits[i] > Slash
     THEN Thrown
     ELSE Digits(Bits(digits, 6), 8, (6 * Len(digits)) \div 8)

base64UrlToBytes(value) ==
  atob(Padded(Replaced(Replaced(value, Minus, Plus), Underscore, Slash),
              4 * Ceiling(Len(value), 4)))
bytesToBase64Url(bytes) ==
  WithoutTail(Replaced(Replaced(btoa(bytes), Plus, Minus), Slash, Underscore), Equals)

(***************************************************************************)
(* TOTP: the time step as eight bytes, the code out of the digest.         *)
(***************************************************************************)
CounterBytes(seconds) ==
  LET remaining[i \in 1..8] ==
        IF i = 8 THEN seconds \div 30 ELSE remaining[i + 1] \div 256
  IN [i \in 1..8 |-> remaining[i] % 256]
\* Dynamic truncation of a 20-byte digest to six decimal digits.
CodeOfDigest(digest) ==
  LET offset == digest[20] % 16
      binary == (digest[offset + 1] % 128) * 2^24 + digest[offset + 2] * 2^16
                  + digest[offset + 3] * 2^8 + digest[offset + 4]
  IN binary % 1000000

(***************************************************************************)
(* WebAuthn.  A field is text (base64url) or bytes.                        *)
(***************************************************************************)
Text(x) == [form |-> "text", of |-> x]
Bytes(x) == [form |-> "bytes", of |-> x]
AsBytes(field) == IF field.form = "text" THEN Bytes(base64UrlToBytes(field.of)) ELSE field
AsText(field) == Text(bytesToBase64Url(field.of))

decodeCreationOptions(options) ==
  [options EXCEPT !.challenge = AsBytes(@), !.user = AsBytes(@),
     !.excludeCredentials = [i \in DOMAIN @ |-> AsBytes(@[i])]]
decodeRequestOptions(options) ==
  [options EXCEPT !.challenge = AsBytes(@),
     !.allowCredentials = [i \in DOMAIN @ |-> AsBytes(@[i])]]

\* A credential that knows toJSON converts itself, to the same text.  Transports,
\* the user handle and the attachment go along unread by the properties.
credentialToJson(credential) ==
  [rawId |-> AsText(credential.rawId),
   response |->
     IF credential.kind = "attestation"
     THEN [clientDataJSON |-> AsText(credential.clientDataJSON),
           attestationObject |-> AsText(credential.answer)]
     ELSE [clientDataJSON |-> AsText(credential.clientDataJSON),
           signature |-> AsText(credential.answer)]]
====
