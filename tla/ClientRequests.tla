--------------------------- MODULE ClientRequests ---------------------------
(* What a request of the Web client comes back as                          *)
(* (frontend/src/api/client.ts, request).                                  *)

(* What fetch gives for a request the server did (applied) or refused: no  *)
(* response, or one whose body parses or does not.                         *)
Responses(applied) == [arrives : BOOLEAN, ok : {applied}, parses : BOOLEAN]

(* A value only of a response that is ok and parses: everything else       *)
(* throws, also when the server did what it was asked.                     *)
ParsedValue(response) ==
  IF response.arrives /\ response.ok /\ response.parses THEN "value" ELSE "error"

Results(applied) == {ParsedValue(r) : r \in Responses(applied)}
=============================================================================
