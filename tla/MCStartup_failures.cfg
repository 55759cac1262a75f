SPECIFICATION Spec
CONSTANTS
  KernelProbes = {"kprobe_vfs_read", "kretprobe_vfs_read", "kprobe_vfs_write"}
  MemlockNeed = 2
  MaxLimit = 4
INVARIANTS TypeOK NothingLeft Nested LimitNotLowered
CHECK_DEADLOCK FALSE
