------------------------------ MODULE MCWorker ------------------------------
(***************************************************************************)
(* A small instance of Worker for TLC.  The unit of time and the limit of  *)
(* durations keep the proportions that matter: the defaults fit, and some  *)
(* numbers of minutes wrap to an interval of the other sign or to a tiny   *)
(* one.                                                                    *)
(***************************************************************************)
EXTENDS Worker

Plain == [[name \in Names |-> Unset] EXCEPT !["MYSQL_DSN"] = "dsn"]

Paced(value) ==
    [name \in Names |->
        IF name \in {"AUTO_RENEW_INTERVAL_MINUTES",
                     "PENDING_CLEANUP_INTERVAL_MINUTES",
                     "EXPIRATION_CHECK_INTERVAL_MINUTES"}
        THEN value ELSE Plain[name]]

MCEnvironments ==
    {[Plain EXCEPT !["MYSQL_DSN"] = Unset], Plain}
    \cup {[Plain EXCEPT !["LOG_LEVEL"] = level] : level \in {"warning", "capitals", "blank", Junk}}
    \cup {Paced(value) :
            value \in {Junk, 5, 0, -3, 1000000, 16384, -16384, 21846}}
=============================================================================
