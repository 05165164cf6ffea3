----------------------------- MODULE OsDeadline ------------------------------
(***************************************************************************)
(* The three places where os/src turns a relative timeout in milliseconds  *)
(* into the absolute struct timespec that pthread_cond_timedwait,          *)
(* sem_timedwait and pthread_mutex_timedlock want: CalcAbstime of          *)
(* stbos_queue.c, STB_OSSemaphoreWaitTimeout and STB_OSMutexLockTimeout.   *)
(* Each carries the excess of the fraction into the seconds in a way of    *)
(* its own.  POSIX refuses a tv_nsec outside 0 .. 10^9 - 1 (EINVAL).       *)
(***************************************************************************)
EXTENDS Integers

USEC == 1000000
NSEC == 1000000000

timespec(sec, nsec) == [tv_sec |-> sec, tv_nsec |-> nsec]

(* stbos_queue.c: one second at most is carried over.                      *)
CalcAbstime(usec, msecs) ==
    LET sec  == msecs \div 1000
        nsec == usec * 1000 + (msecs - sec * 1000) * 1000000
    IN  IF nsec > NSEC THEN timespec(sec + 1, nsec - NSEC)
                       ELSE timespec(sec, nsec)

(* stbos_semaphore.c: seconds are carried over as long as the microseconds *)
(* make one.                                                               *)
SemaphoreDeadline(usec, msecs) ==
    LET sum == usec + 1000 * msecs
    IN  timespec(sum \div USEC, 1000 * (sum % USEC))

(* stbos_mutex.c: quotient and remainder of the nanoseconds, those of      *)
(* clock_gettime.                                                          *)
MutexDeadline(nsec, msecs) ==
    LET timestampNs == msecs * 1000 * 1000 + nsec
    IN  timespec(timestampNs \div NSEC, timestampNs % NSEC)

------------------------------------------------------------------------------
(* What gettimeofday may return for the microseconds, and clock_gettime for*)
(* the nanoseconds.                                                        *)
Clocks == 0 .. USEC - 1
FineClocks == 0 .. NSEC - 1

Valid(ts) == ts.tv_nsec \in 0 .. NSEC - 1

(* The same instant: as many microseconds from now as were asked for.      *)
Exact(ts, usec, msecs) ==
    ts.tv_sec * USEC + ts.tv_nsec \div 1000 = usec + msecs * 1000

(* The same to the nanosecond.                                             *)
ExactNs(ts, nsec, msecs) ==
    ts.tv_sec * NSEC + ts.tv_nsec = nsec + msecs * 1000 * 1000

(* The semaphore and the mutex hand the kernel a deadline it accepts, also *)
(* at the moment the fraction comes out at exactly one second.             *)
WaitsAccepted ==
    \A usec \in Clocks, nsec \in FineClocks, msecs \in Nat :
        Valid(SemaphoreDeadline(usec, msecs)) /\ Valid(MutexDeadline(nsec, msecs))

(* All three ways of carrying name the instant that was asked for.         *)
SameInstant ==
    \A usec \in Clocks, nsec \in FineClocks, msecs \in Nat :
        /\ Exact(CalcAbstime(usec, msecs), usec, msecs)
        /\ Exact(SemaphoreDeadline(usec, msecs), usec, msecs)
        /\ ExactNs(MutexDeadline(nsec, msecs), nsec, msecs)

(* The queue's deadline is refused at exactly one moment, although the code*)
(* says of the nanoseconds "make it less than one" second                  *)
(* (stbos_queue.c:336): when the fraction of the clock and that of the     *)
(* timeout come to one second, which the test nsec > 1000000000 does not   *)
(* carry over (stbos_queue.c:334).                                         *)
QueueDeadline ==
    \A usec \in Clocks, msecs \in Nat :
        Valid(CalcAbstime(usec, msecs)) <=> usec + (msecs % 1000) * 1000 # USEC
=============================================================================
