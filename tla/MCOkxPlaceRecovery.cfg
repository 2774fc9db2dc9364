SPECIFICATION OkxSpec
CONSTANTS
  MaxPolls = 2
  Windows = {"recovery_read"}
INVARIANT RefusedMeansNoOrder
