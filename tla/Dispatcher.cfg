\* Three MADs, two workers and the timer, all interleavings.
SPECIFICATION FairSpec
CONSTANTS
  Mads = {m1, m2, m3}
  Workers = {w1, w2}
  Delays = {0, 1}
  IdlePoll = 1
  MaxTime = 2
INVARIANTS TypeOK NoMadLost NoMadTwice NoIdleWorker NoOversleep
PROPERTIES ImplementsDelayLine EveryMadRouted
