--------------------------- MODULE MC_RunCommand ---------------------------
(* Two invocations of run, validate or to-curl over small files: one whose  *)
(* second request needs an origin the first one's script may set, two whose *)
(* hosts are variables, one whose requests share a proxy that the first     *)
(* one's script may change, and two with errors.                            *)
EXTENDS RunCommand, TLC

CONSTANTS host, token, good, other, odd, first, second

MCNames == {host, token}
MCValues == {good, other, odd}
MCHosts == {good, other}
MCIds == {first, second}

Let(n, v) == [Nothing EXCEPT ![n] = v]

Plain(id) == [id |-> id, host |-> {}, origin |-> {}, uses |-> {},
              proxy |-> Direct, local |-> Nothing, file |-> FALSE,
              pre |-> FALSE, post |-> FALSE, broken |-> FALSE]

Empty == [prelude |-> Nothing, proxy |-> Direct, broken |-> FALSE,
          requests |-> <<>>]

Login == [Empty EXCEPT !.requests =
    <<[Plain(first) EXCEPT !.post = TRUE],
      [Plain(second) EXCEPT !.origin = {token}]>>]

Server == [Empty EXCEPT !.prelude = Let(host, good), !.requests =
    <<[Plain(first) EXCEPT !.host = {host}, !.file = TRUE, !.pre = TRUE],
      [Plain(second) EXCEPT !.host = {host}, !.uses = {token},
                            !.local = Let(token, odd)]>>]

Remote == [Empty EXCEPT !.requests =
    <<[Plain(first) EXCEPT !.pre = TRUE, !.host = {host}]>>]

Proxied == [Empty EXCEPT !.prelude = Let(host, other), !.proxy = host,
    !.requests =
    <<[Plain(first) EXCEPT !.post = TRUE],
      [Plain(second) EXCEPT !.uses = {token}]>>]

(* Files that no run accepts.                                               *)
Misplaced == [Remote EXCEPT !.broken = TRUE, !.prelude = Let(host, good)]
HalfBroken == [Login EXCEPT !.requests[2].broken = TRUE]

MCPlans == {Login, Server, Remote, Proxied, Misplaced, HalfBroken}

NoFile == [state |-> "missing", shared |-> Nothing, listed |-> FALSE, own |-> Nothing]
File(s, o) == [state |-> "read", shared |-> s, listed |-> TRUE, own |-> o]

MCEnvFiles ==
    {[given |-> FALSE, public |-> NoFile, private |-> NoFile],
     [given |-> TRUE, public |-> NoFile, private |-> NoFile],
     [given |-> TRUE, public |-> File(Let(token, odd), Nothing),
      private |-> [File(Let(token, good), Nothing) EXCEPT !.listed = FALSE]],
     [given |-> TRUE, public |-> File(Nothing, Nothing),
      private |-> [NoFile EXCEPT !.state = "unreadable"]]}

Run(s, j, d, n, t) == [command |-> "run", silent |-> s, json |-> j,
                       download |-> d, name |-> n, timeout |-> t]
Other(c, n) == [Run(FALSE, FALSE, FALSE, n, "some") EXCEPT !.command = c]

MCOptions ==
    {Run(FALSE, FALSE, FALSE, AnyName, "some"),
     Run(TRUE, FALSE, FALSE, AnyName, "none"),
     Run(FALSE, TRUE, FALSE, AnyName, "some"),
     Run(FALSE, TRUE, TRUE, second, "some"),
     Run(FALSE, FALSE, TRUE, first, "none"),
     Run(FALSE, FALSE, TRUE, AnyName, "some"),
     Run(TRUE, TRUE, FALSE, AnyName, "some"),
     Run(FALSE, FALSE, FALSE, AnyName, "negative"),
     Other("validate", AnyName), Other("validate", second),
     Other("to-curl", AnyName), Other("to-curl", second)}
=============================================================================
