---------------------------- MODULE MCLineDecoder ----------------------------
(***************************************************************************)
(* Streams over the bytes that the decoder tells apart: of UTF-8, LF and   *)
(* CR, a letter, a lead and a continuation byte, with and without a mark;  *)
(* of UTF-16, zero, LF and CR, which make newlines at even and at odd      *)
(* offsets, and the high bytes of both surrogates.                         *)
(***************************************************************************)
EXTENDS LineDecoder

Streams(bytes, n) == UNION { [1 .. k -> bytes] : k \in 0 .. n }

With(enc, prefixes, bytes, n) ==
    { <<enc, prefix \o s>> : prefix \in prefixes, s \in Streams(bytes, n) }

MCInputs ==
         With("ascii", {<< >>}, {120, LF, CR, 200}, 5)
    \cup With("utf-8", {<< >>}, {120, LF, CR, 195, 169}, 5)
    \cup With("utf-8", {<<120, 120, 120>>}, {120, LF, CR}, 5)
    \cup With("utf-8", {BOM, <<120, LF>> \o BOM}, {120, LF, CR, 195}, 4)
    \cup With("utf-16-le", {<< >>}, {0, LF, CR, 216}, 6)
    \cup With("utf-16-le", {<<120, 0, 120, 0>>}, {0, LF, CR}, 4)
    \cup With("utf-16-be", {<< >>}, {0, LF, 216, 220}, 6)
    \cup With("utf-16", {<<255, 254>>, <<254, 255>>}, {0, LF, CR}, 5)
    \cup With("utf-16", {<< >>}, {0, 254, 255}, 4)
    \cup {<<"unsupported", <<120>> >>}
=============================================================================
