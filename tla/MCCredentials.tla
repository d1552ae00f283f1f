---------------------------- MODULE MCCredentials ----------------------------
(* Credentials for TLC: a Key Vault with and without write-back, a local    *)
(* store whose cipher is replaced, an access key under a running clock, and *)
(* backup and restore.                                                      *)
EXTENDS Credentials

MCBackends == [k1 |-> "fernet", k2 |-> "fernet", dp |-> "dpapi"]

MCNone == [ids |-> {}, vault |-> FALSE, writeBack |-> FALSE, require |-> FALSE,
           preset |-> {}, applies |-> {}, cipher |-> "k1", parts |-> {},
           events |-> MaxEvents]

MCDeployments ==
    {[MCNone EXCEPT !.ids = IF w THEN {"default", "admin"} ELSE {"default"},
                    !.vault = TRUE, !.writeBack = w,
                    !.require = ~w, !.applies = {TRUE},
                    !.parts = {"console", "rotate", "outage", "restart"},
                    !.events = MaxEvents - 1] : w \in BOOLEAN}
    \cup {[MCNone EXCEPT !.ids = {"default", "named", "token"}, !.preset = p, !.applies = {TRUE},
                         !.parts = {"console", "restart", "cipher"},
                         !.events = MaxEvents - 1] : p \in {{}, {"token"}}}
    \cup {[MCNone EXCEPT !.ids = {"reader"}, !.parts = {"console", "clock"}]}
    \cup {[MCNone EXCEPT !.ids = {"named", "reader"}, !.parts = {"restore", "restart"}]}
=============================================================================
