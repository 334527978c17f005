------------------------------- MODULE ParseIp -------------------------------
(***************************************************************************)
(* parse_ip of remotefs/src/FsServer.cpp: FsServer::run turns the --ip     *)
(* option into the 32-bit address Server::run binds (addr.sin_addr =       *)
(* {_ip}, so the four bytes are in memory order, i.e. network order).     *)
(* The text is a sequence of one-character strings, since the property   *)
(* is about the conversion itself.                                        *)
(***************************************************************************)
EXTENDS Integers, Sequences, FiniteSets

CONSTANTS
    IpChars,   \* characters the option text is drawn from: decimal digits and "."
    MaxIpLen   \* longest option text

IpDot == "."
DecDigits == <<"0", "1", "2", "3", "4", "5", "6", "7", "8", "9">>
DigitVal(c) == CHOOSE i \in 0..9 : DecDigits[i + 1] = c

ASSUME IpChars \subseteq {IpDot} \cup {DecDigits[i] : i \in 1..10}

Uninit == -1   \* a byte of ip_res no iteration wrote

RECURSIVE GetlineParts(_)
\* std::getline(iss, part, '.') repeated until it fails: each call takes the
\* characters up to the next '.' (consuming it) or to the end; it fails
\* only when no character is left, so a trailing '.' yields no empty part.
GetlineParts(s) ==
    IF s = <<>> THEN <<>>
    ELSE LET dots == {i \in DOMAIN s : s[i] = IpDot}
         IN IF dots = {} THEN <<s>>
            ELSE LET i == CHOOSE j \in dots : \A k \in dots : j <= k
                 IN <<SubSeq(s, 1, i - 1)>> \o GetlineParts(SubSeq(s, i + 1, Len(s)))

RECURSIVE Strtol(_)
\* strtol(part, NULL, 10) of a part made of decimal digits.
Strtol(part) ==
    IF part = <<>> THEN 0
    ELSE 10 * Strtol(SubSeq(part, 1, Len(part) - 1)) + DigitVal(part[Len(part)])

RECURSIVE ParseLoopEarly(_, _, _)
ParseLoopEarly(parts, ctr, res) ==
    IF parts = <<>> THEN [ok |-> TRUE, res |-> res]
    ELSE IF ctr = 3 THEN [ok |-> FALSE, res |-> res]
    ELSE LET part == Head(parts)
         IN IF part = <<>> THEN ParseLoopEarly(Tail(parts), ctr, res)
            ELSE ParseLoopEarly(Tail(parts), ctr + 1, [res EXCEPT ![ctr] = Strtol(part) % 256])

RECURSIVE ParseLoop(_, _, _)
\* The loop body: a fifth part throws, checked before the part's emptiness;
\* an empty part is skipped; otherwise (unsigned char) keeps the low byte.
ParseLoop(parts, ctr, res) ==
    IF parts = <<>> THEN [ok |-> TRUE, res |-> res]
    ELSE IF ctr = 4 THEN [ok |-> FALSE, res |-> res]
    ELSE LET part == Head(parts)
         IN IF part = <<>> THEN ParseLoop(Tail(parts), ctr, res)
            ELSE ParseLoop(Tail(parts), ctr + 1, [res EXCEPT ![ctr] = Strtol(part) % 256])

\* parse_ip: ok is FALSE where it throws; bytes are the address's four
\* bytes in network order, Uninit where ip_res was never written.
ParseIpText(s) ==
    LET r == ParseLoop(GetlineParts(s), 0, [i \in 0..3 |-> Uninit])
    IN [ok |-> r.ok, bytes |-> <<r.res[0], r.res[1], r.res[2], r.res[3]>>]

-----------------------------------------------------------------------------
(* The reference: the dotted quads inet_pton(AF_INET, ...) accepts, as     *)
(* Client::run parses the same kind of option: four decimal octets of at  *)
(* most three digits without leading zeros, joined by ".".                *)

RECURSIVE Numeral(_)
Numeral(n) == IF n < 10 THEN <<DecDigits[n + 1]>> ELSE Numeral(n \div 10) \o <<DecDigits[(n % 10) + 1]>>

Octets == {n \in 0..255 : \A i \in 1..Len(Numeral(n)) : Numeral(n)[i] \in IpChars}

DottedQuad(q) == Numeral(q[1]) \o <<IpDot>> \o Numeral(q[2]) \o <<IpDot>> \o Numeral(q[3]) \o <<IpDot>> \o Numeral(q[4])

Quads == {q \in Octets \X Octets \X Octets \X Octets : Len(DottedQuad(q)) <= MaxIpLen}

QuadTexts == {DottedQuad(q) : q \in Quads}

-----------------------------------------------------------------------------
VARIABLE ipText   \* the --ip option's text

IpInit == ipText \in UNION {[1..n -> IpChars] : n \in 0..MaxIpLen}

\* Every address inet_pton would accept is parsed by parse_ip into exactly
\* its four octets in network order: getline's splitting, the fifth-part
\* check, the skip of empty parts and the byte truncation never disturb a
\* well-formed address.
ParseIpAcceptsDottedQuads ==
    ipText \in QuadTexts =>
        \E q \in Quads : DottedQuad(q) = ipText /\ ParseIpText(ipText) = [ok |-> TRUE, bytes |-> q]

=============================================================================
