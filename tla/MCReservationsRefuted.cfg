SPECIFICATION FairSpec
CONSTANTS
  Users <- MCUsers
  Gpus = {0, 1}
  Jobs <- MCJobs
  UserOf <- BobUserOf
  Need <- BobNeed
  Offers <- RefutedOffers
  MaxTime = 2
  MaxReservations = 1
  MaxRestarts = 0
  Never = Never
PROPERTIES NoWaitForNothing StatusFollowsClock ReservedStayFree
CHECK_DEADLOCK FALSE
