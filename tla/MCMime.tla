-------------------------------- MODULE MCMime --------------------------------
(***************************************************************************)
(* Mime for TLC.  Documents of one and two parts of a few tokens, of as    *)
(* many parts as multi_split counts to and one more, and of a part with a  *)
(* line that BIO_gets has to cut, at its end or in the middle of it.       *)
(***************************************************************************)
EXTENDS Mime

UpTo(n, S) == UNION {[1 .. k -> S] : k \in 0 .. n}
Lines(S)   == {FlattenSeq(s) : s \in UpTo(2, S)}

Short  == Lines({<<"x">>, <<"--">>, <<LF>>, CRLF})
Long(n) == [i \in 1 .. n |-> "x"]

MCDocuments ==
  UNION {[1 .. n -> Short] : n \in 1 .. 2}
  \cup {<<s>> : s \in UNION {{a \o b : b \in Short} : a \in Short}}
  \cup {[i \in 1 .. n |-> IF i = 2 THEN <<>> ELSE <<"x">>] : n \in 3 .. 5}
  \cup {<<Long(n) \o e>> : n \in 14 .. 17,
                           e \in {<<>>, CRLF, <<LF, "--">>, <<CR, CR, LF>>}}
  \cup {<<s \o e>> : s \in Short, e \in {<<CR>>, <<CR, CR, LF, "x">>}}

MCEndings == UpTo(3, {"x", "sp", "semi", "quote", "open", "close", "eq"})
=============================================================================
