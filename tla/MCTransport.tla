---------------------------- MODULE MCTransport ----------------------------
(***************************************************************************)
(* Configurations for Transport: an unlimited transport without retries,   *)
(* one whose kinds are limited below the total, one whose total is the     *)
(* limit, and a negative limit.                                            *)
(***************************************************************************)
EXTENDS Transport

Conf(limited, retry, total, connect, read, status, raise, timeout) ==
    [limited |-> limited, retry |-> retry, raise |-> raise, timeout |-> timeout,
     limit |-> [k \in Counts |-> CASE k = "total" -> total
                                  [] k = "connect" -> connect
                                  [] k = "read" -> read
                                  [] k = "status" -> status]]

TestConfigs ==
    { Conf(FALSE, FALSE, 0, 0, 0, 0, TRUE, FALSE),
      Conf(TRUE, TRUE, 2, 1, 0, 1, TRUE, TRUE),
      Conf(TRUE, TRUE, 2, 2, 1, 2, FALSE, FALSE),
      Conf(FALSE, TRUE, -1, 1, 1, 1, FALSE, FALSE) }

=============================================================================
