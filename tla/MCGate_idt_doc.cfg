SPECIFICATION Spec
CONSTANTS
  real_code_begin <- MCreal_code_begin
  real_reg <- MCreal_reg
  real_dap <- MCreal_dap
  real_disk_param_ext <- MCreal_disk_param_ext
  real_buffer <- MCreal_buffer
  BufferSize = 32256
  BiosStack = 4096
  Vals = {0, 7}
  MaxCalls = 3
CHECK_DEADLOCK FALSE
INVARIANT ExceptionsReported
