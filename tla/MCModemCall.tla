------------------------------ MODULE MCModemCall ------------------------------
EXTENDS ModemCall

Both(x)    == [e \in Ends |-> x]
To(c, a)   == [call |-> c, ans |-> a]
Clean      == [penalty |-> 0, high |-> FALSE]
Notched(n) == [penalty |-> n, high |-> TRUE]

\* The jitter buffer starts with ten packets (jitter.c 12); shorter delays are
\* those of the tests' loopback lines.
Plain == [ family |-> Both("v34"), delay |-> Both(10), speed |-> Both(14), line |-> Both(Clean),
           legacy |-> FALSE, load |-> Both(0), write |-> "online",
           gaps |-> 0, late |-> 0, retrains |-> 0 ]

\* A V.32 call to a modem that is not this program.
V32Setup(family, speed) ==
    [Plain EXCEPT !.family = To(family, "standard"), !.speed = Both(speed)]

Lines  == {Clean} \cup {Notched(n) : n \in 0 .. 3}
Speeds == {1, 2, 8, 9, 10, 11, 13, 14}

MCSetups ==
    \* delays of either direction
         {[Plain EXCEPT !.delay = To(d, f)] : d, f \in {1, 3, 10, 13}}
    \* pairs of speeds
    \cup {[Plain EXCEPT !.speed = To(s, r), !.delay = Both(1)] : s, r \in Speeds}
    \cup {[Plain EXCEPT !.speed = To(s, r)] : s, r \in {1, 8, 9, 13}}
    \* every line, at speeds where the notches matter
    \cup {[Plain EXCEPT !.line = To(x, y), !.speed = Both(s)] :
              x, y \in Lines, s \in {3, 14}}
    \cup {[Plain EXCEPT !.legacy = TRUE, !.delay = To(10, d)] : d \in 10 .. 13}
    \* bytes both ways, written after CONNECT or from the start
    \cup {[Plain EXCEPT !.load = Both(2), !.write = w, !.delay = d] :
              w \in {"early", "online"}, d \in {To(1, 3), Both(10)}}
    \* one late packet, one gap, at any time
    \cup {[Plain EXCEPT !.late = 1, !.load = To(1, 0)],
          [Plain EXCEPT !.gaps = 1, !.load = To(0, 1)]}
    \* V.32 and V.32bis at each rate
    \cup {[V32Setup("v32", s) EXCEPT !.load = To(1, 0)] : s \in {2, 4}}
    \cup {[V32Setup("v32bis", s) EXCEPT !.load = To(1, 0)] : s \in {3, 5, 6}}
    \* retraining at either end, at both, and bytes written meanwhile
    \cup {[V32Setup("v32", s) EXCEPT !.gaps = 1, !.load = To(1, 0), !.write = "lost"] :
              s \in {2, 4}}
    \cup {[V32Setup("v32bis", 6) EXCEPT !.gaps = 1],
          [V32Setup("v32bis", 6) EXCEPT !.retrains = 1],
          [V32Setup("v32", 4) EXCEPT !.gaps = 1, !.retrains = 1]}

\* Two processes of this program.
MCV32Pairs ==
    {[Plain EXCEPT !.family = Both("v32"), !.speed = Both(s)] : s \in {2, 4}}
================================================================================
