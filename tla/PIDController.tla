--------------------------- MODULE PIDController ---------------------------
(***************************************************************************)
(* The class PIDController of waypoint_follower, in fixed point: errors in *)
(* hundredths of a radian, dt in tenths of a second, gains in thousandths, *)
(* outputs in the product of the three, 10^-6 rad/s.                       *)
(***************************************************************************)
EXTENDS Integers

CONSTANTS KP, KI, KD,   \* gains, thousandths
          MinOut, MaxOut,   \* min_out, max_out, 10^-6
          Errors, Dts,   \* what the control loop may pass to compute
          LeastError   \* no error but 0 is smaller

Abs(v) == IF v < 0 THEN -v ELSE v

PIDAssumption ==
    /\ KP \in Nat \ {0} /\ {KI, KD} \subseteq Nat
    /\ MinOut \in Int /\ MaxOut \in Int /\ MinOut <= 0 /\ MaxOut > 0
    /\ Errors \subseteq Int /\ Dts \subseteq Int
    /\ LeastError \in Nat \ {0} /\ \A error \in Errors : error # 0 => Abs(error) >= LeastError

VARIABLES integral,    \* 10^-3 rad s
          prev,        \* prev_error
          output,      \* what compute returned last
          steady       \* history: for how long the errors have been on one side

pidvars == <<integral, prev, output, steady>>

Clamp(v, lo, hi) == IF v < lo THEN lo ELSE IF v > hi THEN hi ELSE v

\* max(ki, 0.001), and from one limit of the output to the other.
Gain == IF KI >= 1 THEN KI ELSE 1
Swing == MaxOut - MinOut

\* Mutant of MaxIntegral: the limit is not divided by the gain.
MaxIntegralOfOutput == Swing
\* (max_out - min_out) / max(ki, 0.001)
MaxIntegral == Swing \div Gain

\* How long the least error takes to accumulate that much; the history counts
\* no further.
Patience == Swing \div (Gain * LeastError) + 1

PIDInit == integral = 0 /\ prev = 0 /\ output = 0 /\ steady = 0

\* The clock may stand still between two runs, or be set back.
Skip(dt) == dt <= 0 /\ output' = 0 /\ UNCHANGED <<integral, prev, steady>>

SameSide(error) == (error > 0 /\ prev > 0) \/ (error < 0 /\ prev < 0)

Compute(error, dt) ==
    /\ dt > 0
    /\ integral' = Clamp(integral + error * dt, -MaxIntegral, MaxIntegral)
    /\ prev' = error
    /\ LET derivative == (10 * (error - prev)) \div dt
           sum == 10 * KP * error + KI * integral' + 10 * KD * derivative
       IN  output' = Clamp(sum, MinOut, MaxOut)
    /\ steady' = Clamp((IF SameSide(error) THEN steady ELSE 0) + dt, 0, Patience)

Reset == integral' = 0 /\ prev' = 0 /\ steady' = 0 /\ UNCHANGED output

PIDNext ==
    \/ \E dt \in Dts : Skip(dt) \/ \E error \in Errors : Compute(error, dt)
    \/ Reset

PIDSpec == PIDInit /\ [][PIDNext]_pidvars

----------------------------------------------------------------------------
Answers ==
    \A error \in Errors, dt \in Dts :
        Compute(error, dt) /\ steady' = Patience =>
            /\ error > 0 /\ error >= prev => output' > 0
            /\ error < 0 /\ error <= prev /\ MinOut < 0 => output' < 0

\* Anti-windup: whatever was accumulated before, for however long, an error
\* that has stayed on one side for Patience and does not get smaller is answered
\* in its direction.
ErrorAnswered == [][Answers]_pidvars

\* What the code does not do: "The integral is clamped so it can never grow
\* large enough to saturate the output on its own", in the words of the
\* explanation of the follower.
NeverSaturatesAlone == MinOut <= KI * integral /\ KI * integral <= MaxOut
=============================================================================
