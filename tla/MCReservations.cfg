SPECIFICATION Spec
CONSTANTS
  Users <- MCUsers
  Gpus = {0, 1, 2}
  Jobs <- MCJobs
  UserOf <- MCUserOf
  Need <- MCNeed
  Offers <- MCOffers
  MaxTime = 2
  MaxReservations = 2
  MaxRestarts = 1
  Never = Never
INVARIANTS ReservationsSound
PROPERTIES PassesKeepReservations
CHECK_DEADLOCK FALSE
