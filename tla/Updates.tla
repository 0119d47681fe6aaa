-------------------------------- MODULE Updates --------------------------------
(***************************************************************************)
(* What a receiver will know when it has taken everything out of a queue.  *)
(* The models state with it that nothing is lost, repeated or overtaken on *)
(* the way from who broadcasts a value to who shows it.                    *)
(***************************************************************************)
EXTENDS IOValue, Sequences

\* Of a value v and a queue p of what it is updated to, the last one: an entry that
\* does not concern it is NoValue.
News(p) == {n \in DOMAIN p: p[n] # NoValue}

Latest(v, p) ==
  IF News(p) = {} THEN v
  ELSE p[CHOOSE n \in News(p): \A k \in News(p): k <= n]
=============================================================================
