----------------------------- MODULE MCRunLoop ------------------------------
(* Instances of RunLoop: a Domain, an AsioDomain and plain handlers.        *)
EXTENDS RunLoop

CONSTANTS d1, a1, x1, x2

MCKind == [h \in Handlers |-> IF h = d1 THEN "domain" ELSE IF h = a1 THEN "asio" ELSE "plain"]
=============================================================================
