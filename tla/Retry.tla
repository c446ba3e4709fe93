-------------------------------- MODULE Retry --------------------------------
(* The retry policy of retry.go: how long WithRetry waits before it tries    *)
(* again, in integers of the machine's width, and when it stops trying.      *)
EXTENDS Integers

CONSTANTS
    Width,      \* bits of a time.Duration; retry.go: 64
    Policies    \* bound: the policies callers use

ASSUME RetryConstants ==
    /\ Width \in Nat \ {0}
    /\ Policies \subseteq [MaxRetries : Int, BaseDelay : Nat, MaxDelay : Nat, Jitter : Nat]

PowerOfTwo[n \in Nat] == IF n = 0 THEN 1 ELSE 2 * PowerOfTwo[n - 1]

(* Two's complement, and the shift of retry.go. *)
Wrap(x) == ((x + PowerOfTwo[Width - 1]) % PowerOfTwo[Width]) - PowerOfTwo[Width - 1]
Shifted(x, n) == Wrap(x * PowerOfTwo[n])

(* Up to the fraction Jitter of a delay, in hundredths; never all of it. *)
Extra(d, jitter) == {x \in 0 .. (d * jitter) \div 100 : x = 0 \/ 100 * x < d * jitter}

delayJitterLast(p, attempt) ==                            \* mutant of delay
    LET exp == Shifted(p.BaseDelay, attempt)
        d == IF exp > 0 /\ exp < p.MaxDelay THEN exp ELSE p.MaxDelay
    IN  {Wrap(d + extra) : extra \in Extra(d, p.Jitter)}

(* The delay before the retry with this number, for every random number that *)
(* may be drawn.                                                             *)
delay(p, attempt) ==
    LET exp == Shifted(p.BaseDelay, attempt)
        d == IF attempt < Width - 1 /\ exp > 0 /\ exp < p.MaxDelay THEN exp ELSE p.MaxDelay
        jittered == {Wrap(d + extra) : extra \in Extra(d, p.Jitter)}
    IN  {IF x > p.MaxDelay THEN p.MaxDelay ELSE x : x \in jittered}

maxRetries(p) == IF p.MaxRetries < 0 THEN 0 ELSE p.MaxRetries

(* The policies whose delays cannot overflow: the base, doubled until it     *)
(* leaves the machine's integers, passes the cap first.                      *)
Sane(p) ==
    /\ p.BaseDelay > 0
    /\ p.BaseDelay * p.MaxDelay <= PowerOfTwo[Width - 1]
    /\ p.MaxDelay + (p.MaxDelay * p.Jitter) \div 100 < PowerOfTwo[Width - 1]

(* What the delay should be, without jitter, in integers that do not wrap.   *)
Backoff(p, attempt) ==
    LET exp == p.BaseDelay * PowerOfTwo[attempt]
    IN  IF exp < p.MaxDelay THEN exp ELSE p.MaxDelay
=============================================================================
