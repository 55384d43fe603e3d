-------------------------------- MODULE MCCli --------------------------------
EXTENDS Cli, TLC

CONSTANTS c1, c2, c3, b1, b2, k1, k2, ca

None_ == [verb |-> "none", box |-> None, accept |-> FALSE, force |-> FALSE, route |-> "stream",
          locked |-> FALSE, keychain |-> FALSE, sizes |-> <<>>, listen |-> "none"]
SetupJob(b, f, r) == [None_ EXCEPT !.verb = "setup", !.box = b, !.accept = TRUE, !.force = f, !.route = r]
SendJob(b, s) == [None_ EXCEPT !.verb = "send", !.box = b, !.sizes = s]
PostJob(s) == [None_ EXCEPT !.verb = "post", !.box = b2, !.sizes = s]
ServeJob(l) == [None_ EXCEPT !.verb = "serve", !.box = b1, !.listen = l]
LastJob == [None_ EXCEPT !.verb = "last", !.box = b1]

Cast(x, y, z) == (c1 :> x) @@ (c2 :> y) @@ (c3 :> z)
Bare == [bin |-> [b \in Boxes |-> None], pins |-> {}, token |-> None,
         rtoken |-> [b \in Boxes |-> None], aliases |-> [flag |-> <<>>, def |-> None]]
Paired == [bin |-> (b1 :> Same) @@ (b2 :> Older), pins |-> {<<b1, k1>>}, token |-> "first",
           rtoken |-> (b1 :> "first") @@ (b2 :> None),
           aliases |-> [flag |-> (b1 :> TRUE), def |-> b1]]
In(w, cast) == [job |-> cast, bin |-> w.bin, pins |-> w.pins, token |-> w.token,
                rtoken |-> w.rtoken, aliases |-> w.aliases]

(* Two setups, of one box or of two, by every route and token store. *)
TwoSetups(w, b, r, k, l) ==
    In(w, Cast([SetupJob(b1, w = Paired, "stream") EXCEPT !.keychain = k, !.locked = l],
               [SetupJob(b, FALSE, r) EXCEPT !.keychain = k], None_))
Setups ==
    {TwoSetups(w, b, "tarball", FALSE, FALSE) : w \in {Bare, Paired}, b \in {b1, b2}}
    \cup {TwoSetups(Paired, b2, "tarball", k, TRUE) : k \in BOOLEAN}
    \cup {TwoSetups(w, b1, "release", TRUE, FALSE) : w \in {Bare, Paired}}
    \cup {TwoSetups(Bare, b1, "unreleased", TRUE, FALSE)}
(* Frames of one to three items, around the cap. *)
Frames == {<<0>>, <<2>>, <<1, 1>>, <<2, 1>>, <<1, 0, 1>>, <<2, 2>>, <<4, 1>>, <<3>>}
Sends ==
    {In(w, Cast(SendJob(b, s), None_, None_)) : w \in {Bare, Paired}, b \in {b1, b2, None}, s \in Frames}
    \cup {In(w, Cast(PostJob(s), None_, None_)) : w \in {Bare, Paired}, s \in Frames}
    \cup {In(Paired, Cast(SendJob(b1, <<1, 1>>), SetupJob(b1, TRUE, "stream"), None_))}
Daemons ==
    {In(Paired, Cast(ServeJob(x), ServeJob(y), LastJob)) : x \in {"socket", "tcp"}, y \in {"socket", "tcp"}}
    \cup {In(w, Cast(ServeJob("tcp"), SetupJob(b1, FALSE, "stream"), LastJob)) : w \in {Bare, Paired}}
MCWorlds == Setups \cup Sends \cup Daemons
=============================================================================
