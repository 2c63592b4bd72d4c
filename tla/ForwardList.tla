------------------------------ MODULE ForwardList ------------------------------
(***************************************************************************)
(* std::forward_list of the C++ library, as the router, the websocket      *)
(* channels and the DNS server use it: a sequence that grows at its front. *)
(***************************************************************************)
EXTENDS Integers, Sequences

\* remove_if: the elements of the list that are in S, in their order.
Filtered(list, S) ==
  LET filtered[i \in 0 .. Len(list)] ==
        IF i = 0 THEN << >>
        ELSE IF list[i] \in S THEN Append(filtered[i - 1], list[i])
        ELSE filtered[i - 1]
  IN  filtered[Len(list)]

===============================================================================
